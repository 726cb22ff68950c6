--------------------------- MODULE InventoryProofs ---------------------------
(***************************************************************************)
(* Proofs about the inventory, for any number of commands, names, hosts,     *)
(* passwords and address-book entries, and any number of faults.             *)
(*                                                                          *)
(* TypeInv adds to the types what a command carries at each of its stages.   *)
(* IntactInv says that the file parses while no two commands have overlapped,  *)
(* SerialInv follows the one command that runs then, and PasswordInv follows  *)
(* the connections and removals that are half-way through the keyring.        *)
(***************************************************************************)
EXTENDS Inventory, TLAPS, FiniteSetTheorems

Afters == {"decide", "store", "forget", "next", "end"}


\* The stage a command is at, or will be at once it has saved.
Stage(r) == IF r.pc \in {"open", "fill"} THEN r.then ELSE r.pc

Sound(r) ==
    /\ Stage(r) = "store" =>
          /\ r.name \in Names /\ r.cmd.verb \in {"add", "auth", "import"}
          /\ r.cmd.verb # "auth" => r.name \in Known(r.cfg)
          /\ r.cmd.verb = "import" =>
                r.entry <= Len(Book) /\ Book[r.entry].password # None
    /\ Stage(r) = "next" =>
          r.cmd.verb = "import" /\ r.entry <= Len(Book) /\ r.name \in Known(r.cfg)
    /\ Stage(r) \in {"forget", "forgetold"} =>
          r.cmd.verb = "remove" /\ r.name \in Names \ Known(r.cfg)
    /\ Stage(r) = "end" =>
          /\ r.name \in Names /\ r.cmd.verb \in {"add", "rsc", "use"}
          /\ r.cmd.verb = "rsc" => r.name \in Known(r.cfg)
          /\ r.cmd.verb = "add" => r.name \notin Known(r.cfg)
    /\ r.then = "end" => r.pc \in {"open", "fill", "end"}
    /\ r.pc = "end" => r.then = "end"
    /\ r.pc \in {"getold", "migrate"} => r.cmd.verb = "connect" /\ r.name \in Names
    /\ r.pc = "migrate" => r.found \in Passwords

FileOK == file \in Config \cup {Missing, Torn, Garbled}

RingsOK ==
    /\ ring \in [Names -> Passwords \cup {None}]
    /\ oldRing \in [Names -> Passwords \cup {None}]

ProcOK ==
    /\ proc \in [Procs -> {None} \cup Process]
    /\ \A p \in Procs : Running(p) => Sound(proc[p])

CountsOK == commands \in 0 .. MaxCommands /\ faults \in 0 .. MaxFaults

HistoryOK ==
    /\ devices \in [Names -> Device \cup {None}]
    /\ secrets \in [Names -> Passwords \cup {None}]
    /\ cut \subseteq Names /\ stale \subseteq Names /\ overlapped \in BOOLEAN

TypeInv == FileOK /\ RingsOK /\ ProcOK /\ CountsOK /\ HistoryOK

LEMMA TypeInvImplies == TypeInv => TypeOK
BY DEF TypeInv, FileOK, RingsOK, ProcOK, CountsOK, HistoryOK, TypeOK

-----------------------------------------------------------------------------
(* Configurations.                                                           *)

LEMMA ConfigParts ==
    ASSUME NEW cfg \in Config
    PROVE  /\ cfg = [devs |-> cfg.devs, default |-> cfg.default]
           /\ Known(cfg) \subseteq Names
           /\ cfg.devs \in [Known(cfg) -> Device]
           /\ cfg.default \in Names \cup {None}
           /\ cfg.default \in Known(cfg) \cup {None}
<1>1. cfg \in [devs : UNION {[S -> Device] : S \in SUBSET Names}, default : Names \cup {None}]
  BY DEF Config
<1>2. PICK S \in SUBSET Names : cfg.devs \in [S -> Device]
  BY <1>1
<1>3. Known(cfg) = S
  BY <1>2 DEF Known
<1> QED BY <1>1, <1>2, <1>3 DEF Config

LEMMA ConfigMade ==
    ASSUME NEW S \in SUBSET Names, NEW d \in [S -> Device], NEW def \in S \cup {None}
    PROVE  [devs |-> d, default |-> def] \in Config
<1> DEFINE c == [devs |-> d, default |-> def]
<1>1. d \in UNION {[T -> Device] : T \in SUBSET Names}
  OBVIOUS
<1>2. c \in [devs : UNION {[T -> Device] : T \in SUBSET Names}, default : Names \cup {None}]
  BY <1>1
<1>3. c.default \in Known(c) \cup {None}
  BY DEF Known
<1> QED BY <1>2, <1>3 DEF Config

LEMMA EmptyConfig == Empty \in Config /\ Known(Empty) = {}
<1>1. [n \in {} |-> None] \in [{} -> Device]
  OBVIOUS
<1> QED BY <1>1, ConfigMade DEF Empty, Known

LEMMA PutConfig ==
    ASSUME NEW cfg \in Config, NEW n \in Names, NEW dev \in Device
    PROVE  /\ PutDevice(cfg, n, dev) \in Config
           /\ Known(PutDevice(cfg, n, dev)) = Known(cfg) \cup {n}
           /\ PutDevice(cfg, n, dev).devs[n] = dev
           /\ \A m \in Known(cfg) \ {n} : PutDevice(cfg, n, dev).devs[m] = cfg.devs[m]
<1> DEFINE S == Known(cfg) \cup {n}
           d == [m \in S |-> IF m = n THEN dev ELSE cfg.devs[m]]
<1>1. /\ cfg = [devs |-> cfg.devs, default |-> cfg.default]
      /\ Known(cfg) \subseteq Names
      /\ cfg.devs \in [Known(cfg) -> Device]
      /\ cfg.default \in Known(cfg) \cup {None}
  BY ConfigParts
<1>2. PutDevice(cfg, n, dev) = [devs |-> d, default |-> cfg.default]
  BY <1>1 DEF PutDevice
<1>3. d \in [S -> Device] /\ S \in SUBSET Names
  BY <1>1
<1>4. PutDevice(cfg, n, dev) \in Config
  BY <1>1, <1>2, <1>3, ConfigMade
<1> QED BY <1>2, <1>4 DEF Known

LEMMA RemoveConfig ==
    ASSUME NEW cfg \in Config, NEW n \in Names
    PROVE  /\ RemoveDevice(cfg, n) \in Config
           /\ Known(RemoveDevice(cfg, n)) = Known(cfg) \ {n}
           /\ \A m \in Known(cfg) \ {n} : RemoveDevice(cfg, n).devs[m] = cfg.devs[m]
<1> DEFINE S == Known(cfg) \ {n}
           def == IF cfg.default = n THEN None ELSE cfg.default
<1>1. /\ Known(cfg) \subseteq Names
      /\ cfg.devs \in [Known(cfg) -> Device]
      /\ cfg.default \in Known(cfg) \cup {None}
  BY ConfigParts
<1>2. Without(cfg, n) \in [S -> Device]
  BY <1>1 DEF Without
<1>3. RemoveDevice(cfg, n) \in Config
  BY <1>1, <1>2, ConfigMade DEF RemoveDevice
<1> QED BY <1>3 DEF RemoveDevice, Without, Known

LEMMA DefaultConfig ==
    ASSUME NEW cfg \in Config, NEW n \in Known(cfg)
    PROVE  /\ [cfg EXCEPT !.default = n] \in Config
           /\ [cfg EXCEPT !.default = n].devs = cfg.devs
<1>1. /\ cfg = [devs |-> cfg.devs, default |-> cfg.default]
      /\ Known(cfg) \subseteq Names
      /\ cfg.devs \in [Known(cfg) -> Device]
  BY ConfigParts
<1>2. [cfg EXCEPT !.default = n] = [devs |-> cfg.devs, default |-> n]
  BY <1>1
<1>3. [devs |-> cfg.devs, default |-> n] \in Config
  BY <1>1, ConfigMade
<1> QED BY <1>2, <1>3

LEMMA LookupKnown == \A cfg, q : Lookup(cfg, q) \in Known(cfg) \cup {None}
<1> SUFFICES ASSUME NEW cfg, NEW q PROVE Lookup(cfg, q) \in Known(cfg) \cup {None}
  OBVIOUS
<1> DEFINE byId == {n \in Known(cfg) : cfg.devs[n].id = q}
           byHost == {n \in Known(cfg) : cfg.devs[n].host = q}
           only(s) == IF Cardinality(s) = 1 THEN CHOOSE n \in s : TRUE ELSE None
<1>1. ASSUME NEW s \in SUBSET Known(cfg) PROVE only(s) \in Known(cfg) \cup {None}
  <2>1. CASE s = {}
    <3>1. Cardinality(s) = 0
      BY <2>1, FS_EmptySet
    <3> QED BY <3>1
  <2>2. CASE s # {}
    BY <2>2
  <2> QED BY <2>1, <2>2
<1>2. only(byId) \in Known(cfg) \cup {None} /\ only(byHost) \in Known(cfg) \cup {None}
  BY <1>1
<1>3. Lookup(cfg, q) = IF q \in Known(cfg) THEN q
                       ELSE IF byId # {} THEN only(byId) ELSE only(byHost)
  BY DEF Lookup
<1> QED BY <1>2, <1>3

LEMMA LoadedConfig == ASSUME FileOK, file # Garbled PROVE Loaded \in Config
BY EmptyConfig, InventoryAssumption DEF FileOK, Loaded, Parsed

-----------------------------------------------------------------------------
(* Commands.                                                                 *)

LEMMA CommandParts ==
    ASSUME NEW c \in Command
    PROVE  /\ c.verb \in {"add", "rsc"} => c.name \in Names /\ c.host \in Hosts
           /\ c.verb \in {"add", "auth"} => c.password \in Passwords
           /\ c.verb = "import" => c.force \in BOOLEAN
BY DEF Command

LEMMA RecordParts ==
    ASSUME NEW r \in Process
    PROVE  /\ r.cmd \in Command /\ r.cfg \in Config /\ r.name \in Names \cup {None}
           /\ r.found \in Passwords \cup {None} /\ r.entry \in 1 .. Len(Book) + 1
           /\ r.pc \in {"decide", "open", "fill", "store", "getold", "migrate", "forget",
                       "forgetold", "next", "end"}
           /\ r.then \in Afters
BY DEF Process, Afters

LEMMA BookParts ==
    ASSUME NEW k \in 1 .. Len(Book)
    PROVE  /\ Book[k].base \in Names /\ Book[k].host \in Hosts
           /\ Book[k].password \in Passwords \cup {None}
<1> DEFINE E == [base : Names, host : Hosts, password : Passwords \cup {None}]
<1>1. Book \in Seq(E)
  BY InventoryAssumption
<1> HIDE DEF E
<1>2. Book[k] \in E
  BY <1>1
<1> QED BY <1>2 DEF E

LEMMA BookLength == Len(Book) \in Nat
BY InventoryAssumption

LEMMA NewDevice ==
    ASSUME NEW h \in Hosts, NEW i \in Names \cup {None}
    PROVE  [host |-> h, id |-> i] \in Device
BY DEF Device

\* What a save leaves a command with.
Saving(r, cfg, name, then) ==
    [r EXCEPT !.cfg = cfg, !.name = name, !.pc = "open", !.then = then]

LEMMA SavingParts ==
    ASSUME NEW r \in Process, NEW cfg \in Config, NEW name \in Names,
           NEW then \in Afters
    PROVE  LET s == Saving(r, cfg, name, then)
           IN /\ s \in Process
              /\ s.cmd = r.cmd /\ s.cfg = cfg /\ s.name = name /\ s.entry = r.entry
              /\ s.pc = "open" /\ s.then = then /\ Stage(s) = then
BY DEF Saving, Process, Stage, Afters

\* A step of process p leaves the others alone.
LEMMA Turn ==
    ASSUME proc \in [Procs -> {None} \cup Process], NEW p \in Procs, NEW r,
           proc' = [proc EXCEPT ![p] = r]
    PROVE  proc'[p] = r /\ \A q \in Procs \ {p} : proc'[q] = proc[q]
OBVIOUS

LEMMA Goes ==
    ASSUME ProcOK, NEW p \in Procs, NEW r \in Process, Sound(r),
           proc' = [proc EXCEPT ![p] = r]
    PROVE  ProcOK'
<1>1. proc' \in [Procs -> {None} \cup Process]
  BY DEF ProcOK
<1>2. ASSUME NEW q \in Procs, Running(q)' PROVE Sound(proc[q])'
  <2>1. CASE q = p
    BY <2>1 DEF ProcOK, Sound, Stage
  <2>2. CASE q # p
    BY <1>2, <2>2 DEF ProcOK, Running, Sound, Stage
  <2> QED BY <2>1, <2>2
<1> QED BY <1>1, <1>2 DEF ProcOK

LEMMA Ends == ASSUME ProcOK, NEW p \in Procs, End(p) PROVE ProcOK'
<1>1. proc' \in [Procs -> {None} \cup Process]
  BY DEF ProcOK, End
<1>2. ASSUME NEW q \in Procs, Running(q)' PROVE Sound(proc[q])'
  BY <1>2 DEF ProcOK, End, Running, Sound, Stage
<1> QED BY <1>1, <1>2 DEF ProcOK

\* The record of a running command.
LEMMA RunningRecord ==
    ASSUME ProcOK, NEW p \in Procs, Running(p)
    PROVE  proc[p] \in Process /\ Sound(proc[p])
BY DEF ProcOK, Running

-----------------------------------------------------------------------------
(* Each step keeps TypeInv.                                                  *)

LEMMA TypeInit == Init => TypeInv
<1> SUFFICES ASSUME Init PROVE TypeInv
  OBVIOUS
<1>1. FileOK
  BY InventoryAssumption DEF Init, FileOK
<1>2. RingsOK
  BY InventoryAssumption DEF Init, RingsOK
<1>3. ProcOK
  BY DEF Init, ProcOK, Running
<1>4. CountsOK
  BY InventoryAssumption DEF Init, CountsOK
<1>5. HistoryOK
  <2>1. Loaded \in Config
    BY <1>1, LoadedConfig, InventoryAssumption DEF Init
  <2>2. Loaded.devs \in [Known(Loaded) -> Device]
    BY <2>1, ConfigParts
  <2> QED BY <2>2, InventoryAssumption DEF Init, HistoryOK
<1> QED BY <1>1, <1>2, <1>3, <1>4, <1>5 DEF TypeInv

LEMMA TypeStart ==
    ASSUME TypeInv, NEW p \in Procs, NEW c \in Command, Start(p, c)
    PROVE  TypeInv'
<1> DEFINE r == [cmd |-> c, cfg |-> Loaded, name |-> None, found |-> None, entry |-> 1,
                 pc |-> IF file = Missing THEN "open" ELSE "decide", then |-> "decide"]
<1>1. ASSUME file # Garbled PROVE ProcOK'
  <2>1. r \in Process /\ Sound(r)
    <3>1. Loaded \in Config
      BY <1>1, LoadedConfig DEF TypeInv
    <3>2. 1 \in 1 .. Len(Book) + 1
      BY BookLength
    <3>3. r \in Process
      BY <3>1, <3>2 DEF Process, Afters
    <3>4. Stage(r) = "decide" /\ r.then = "decide" /\ r.pc \in {"open", "decide"}
      BY DEF Stage
    <3> HIDE DEF r
    <3> QED BY <3>3, <3>4 DEF Sound
  <2>2. proc' = [proc EXCEPT ![p] = r]
    BY <1>1 DEF Start
  <2> HIDE DEF r
  <2> QED BY <2>1, <2>2, Goes DEF TypeInv
<1>2. ASSUME file = Garbled PROVE ProcOK'
  <2>1. proc' = proc
    BY <1>2 DEF Start
  <2> QED BY <2>1 DEF TypeInv, ProcOK, Running
<1>3. CountsOK'
  BY InventoryAssumption DEF TypeInv, CountsOK, Start
<1>4. FileOK' /\ RingsOK' /\ HistoryOK'
  BY DEF TypeInv, FileOK, RingsOK, HistoryOK, Start
<1>5. ProcOK'
  BY <1>1, <1>2
<1> QED BY <1>3, <1>4, <1>5 DEF TypeInv

\* A step that only moves its process.
LEMMA TypeMove ==
    ASSUME TypeInv, ProcOK', UNCHANGED <<file, ring, oldRing, commands, faults, history>>
    PROVE  TypeInv'
BY DEF TypeInv, FileOK, RingsOK, CountsOK, HistoryOK, history

\* A command decides to save cfg.
LEMMA Saves ==
    ASSUME TypeInv, NEW p \in Procs, Running(p), NEW cfg \in Config, NEW name \in Names,
           NEW then \in Afters,
           Sound(Saving(proc[p], cfg, name, then)), SaveAs(p, cfg, name, then)
    PROVE  ProcOK'
<1> DEFINE r == Saving(proc[p], cfg, name, then)
<1>1. ProcOK /\ proc[p] \in Process
  BY RunningRecord DEF TypeInv
<1>2. r \in Process
  BY <1>1, SavingParts
<1>3. proc' = [proc EXCEPT ![p] = r]
  BY <1>1 DEF SaveAs, Saving, ProcOK
<1> HIDE DEF r
<1>4. Sound(r)
  BY DEF r
<1> QED BY <1>1, <1>2, <1>3, <1>4, Goes

LEMMA TypeAdd ==
    ASSUME TypeInv, NEW p \in Procs, Add(p) \/ AddFromExport(p)
    PROVE  TypeInv'
<1> DEFINE c == proc[p].cmd
           cfg == PutDevice(proc[p].cfg, c.name, [host |-> c.host, id |-> None])
           then == IF c.verb = "add" THEN "store" ELSE "end"
<1>1. Running(p) /\ c.verb \in {"add", "rsc"}
  BY DEF Add, AddFromExport, At
<1>2. ProcOK /\ proc[p] \in Process
  BY <1>1, RunningRecord DEF TypeInv
<1>3. c \in Command /\ c.name \in Names /\ c.host \in Hosts /\ proc[p].cfg \in Config
  BY <1>1, <1>2, RecordParts, CommandParts
<1>4. ProcOK'
  <2>1. CASE End(p)
    BY <1>2, <2>1, Ends
  <2>2. CASE SaveAs(p, cfg, c.name, then)
    <3>1. cfg \in Config /\ c.name \in Known(cfg)
      BY <1>3, NewDevice, PutConfig
    <3> DEFINE s == Saving(proc[p], cfg, c.name, then)
    <3>2. then \in Afters
      BY DEF Afters
    <3>3. s.cmd = c /\ s.cfg = cfg /\ s.name = c.name /\ s.pc = "open" /\ Stage(s) = then
      <4> HIDE DEF cfg, then
      <4> QED BY <1>2, <1>3, <3>1, <3>2, SavingParts
    <3>4. Sound(s)
      <4> HIDE DEF s, cfg, c
      <4> QED BY <1>1, <1>3, <3>1, <3>3 DEF Sound
    <3> HIDE DEF cfg, c, then
    <3> QED BY <1>1, <1>3, <2>2, <3>1, <3>2, <3>4, Saves
  <2> QED BY <1>1, <2>1, <2>2 DEF Add, AddFromExport
<1>5. UNCHANGED <<file, ring, oldRing, commands, faults, history>>
  BY DEF Add, AddFromExport
<1> QED BY <1>4, <1>5, TypeMove

LEMMA TypeRemove == ASSUME TypeInv, NEW p \in Procs, Remove(p) PROVE TypeInv'
<1> DEFINE n == Lookup(proc[p].cfg, proc[p].cmd.query)
           cfg == RemoveDevice(proc[p].cfg, n)
<1>1. Running(p) /\ proc[p].cmd.verb = "remove"
  BY DEF Remove, At
<1>2. ProcOK /\ proc[p] \in Process
  BY <1>1, RunningRecord DEF TypeInv
<1>3. proc[p].cfg \in Config /\ Known(proc[p].cfg) \subseteq Names
  BY <1>2, RecordParts, ConfigParts
<1>4. n \in Names \cup {None}
  BY <1>3, LookupKnown
<1>5. ProcOK'
  <2>1. CASE End(p)
    BY <1>2, <2>1, Ends
  <2>2. CASE n # None /\ SaveAs(p, cfg, n, "forget")
    <3>1. cfg \in Config /\ n \notin Known(cfg) /\ n \in Names
      BY <1>3, <1>4, <2>2, RemoveConfig
    <3> DEFINE s == Saving(proc[p], cfg, n, "forget")
    <3>2. s.cmd = proc[p].cmd /\ s.cfg = cfg /\ s.name = n /\ s.pc = "open" /\ Stage(s) = "forget"
      BY <1>2, <3>1, SavingParts DEF Afters
    <3>3. Sound(s)
      <4> HIDE DEF s, cfg, n
      <4> QED BY <1>1, <3>1, <3>2 DEF Sound
    <3> HIDE DEF cfg, n
    <3> QED BY <1>1, <2>2, <3>1, <3>3, Saves DEF Afters
  <2> QED BY <2>1, <2>2 DEF Remove
<1>6. UNCHANGED <<file, ring, oldRing, commands, faults, history>>
  BY DEF Remove
<1> QED BY <1>5, <1>6, TypeMove

LEMMA TypeUse == ASSUME TypeInv, NEW p \in Procs, Use(p) PROVE TypeInv'
<1> DEFINE n == Lookup(proc[p].cfg, proc[p].cmd.query)
           cfg == [proc[p].cfg EXCEPT !.default = n]
<1>1. Running(p) /\ proc[p].cmd.verb = "use"
  BY DEF Use, At
<1>2. ProcOK /\ proc[p] \in Process
  BY <1>1, RunningRecord DEF TypeInv
<1>3. proc[p].cfg \in Config /\ Known(proc[p].cfg) \subseteq Names
  BY <1>2, RecordParts, ConfigParts
<1>4. n \in Known(proc[p].cfg) \cup {None}
  BY LookupKnown
<1>5. ProcOK'
  <2>1. CASE End(p)
    BY <1>2, <2>1, Ends
  <2>2. CASE n # None /\ SaveAs(p, cfg, n, "end")
    <3>1. n \in Known(proc[p].cfg) /\ n \in Names
      BY <1>3, <1>4, <2>2
    <3>2. cfg \in Config
      BY <1>3, <3>1, DefaultConfig
    <3> DEFINE s == Saving(proc[p], cfg, n, "end")
    <3>3. s.cmd = proc[p].cmd /\ s.cfg = cfg /\ s.name = n /\ s.pc = "open" /\ Stage(s) = "end"
      BY <1>2, <3>1, <3>2, SavingParts DEF Afters
    <3>4. Sound(s)
      <4> HIDE DEF s, cfg, n
      <4> QED BY <1>1, <3>1, <3>3 DEF Sound
    <3> HIDE DEF cfg, n
    <3> QED BY <1>1, <2>2, <3>1, <3>2, <3>4, Saves DEF Afters
  <2> QED BY <2>1, <2>2 DEF Use
<1>6. UNCHANGED <<file, ring, oldRing, commands, faults, history>>
  BY DEF Use
<1> QED BY <1>5, <1>6, TypeMove

LEMMA TypeAuth == ASSUME TypeInv, NEW p \in Procs, Auth(p) PROVE TypeInv'
<1> DEFINE n == Lookup(proc[p].cfg, proc[p].cmd.query)
           r == [proc[p] EXCEPT !.name = n, !.pc = "store"]
<1>1. Running(p) /\ proc[p].cmd.verb = "auth"
  BY DEF Auth, At
<1>2. ProcOK /\ proc[p] \in Process /\ Sound(proc[p])
  BY <1>1, RunningRecord DEF TypeInv
<1>3. Known(proc[p].cfg) \subseteq Names
  BY <1>2, RecordParts, ConfigParts
<1>4. n \in Names \cup {None}
  BY <1>3, LookupKnown
<1>5. ProcOK'
  <2>1. CASE n = None
    <3>1. End(p)
      BY <1>2, <2>1 DEF Auth, End, ProcOK
    <3> QED BY <1>2, <3>1, Ends
  <2>2. CASE n # None
    <3>1. n \in Names
      BY <1>4, <2>2
    <3> HIDE DEF n
    <3>2. /\ r \in Process /\ r.name = n /\ r.cmd = proc[p].cmd
          /\ r.pc = "store" /\ Stage(r) = "store" /\ r.then = proc[p].then
      BY <1>2, <3>1 DEF Process, Stage
    <3>3. Sound(r)
      <4>1. proc[p].then # "end"
        BY <1>1, <1>2 DEF Sound, Auth, At
      <4> HIDE DEF r
      <4> QED BY <1>1, <3>1, <3>2, <4>1 DEF Sound
    <3>4. proc' = [proc EXCEPT ![p] = r]
      BY <1>2, <2>2 DEF Auth, ProcOK, n
    <3> HIDE DEF r
    <3> QED BY <1>2, <3>2, <3>3, <3>4, Goes
  <2> QED BY <2>1, <2>2
<1>6. UNCHANGED <<file, ring, oldRing, commands, faults, history>>
  BY DEF Auth
<1> QED BY <1>5, <1>6, TypeMove

LEMMA TypeConnect == ASSUME TypeInv, NEW p \in Procs, Connect(p) PROVE TypeInv'
<1> DEFINE n == Resolve(proc[p].cfg, proc[p].cmd.query)
           r == [proc[p] EXCEPT !.name = n, !.pc = "getold"]
<1>1. Running(p) /\ proc[p].pc = "decide" /\ proc[p].cmd.verb = "connect"
  BY DEF Connect, At
<1>2. ProcOK /\ proc[p] \in Process /\ Sound(proc[p])
  BY <1>1, RunningRecord DEF TypeInv
<1>3. n \in Names \cup {None}
  <2>1. Known(proc[p].cfg) \subseteq Names
    BY <1>2, RecordParts, ConfigParts
  <2> QED BY <2>1, LookupKnown DEF Resolve
<1>4. CASE n = None \/ ring[n] # None
  <2>1. End(p)
    BY <1>2, <1>4 DEF Connect, End, ProcOK
  <2> QED BY <1>2, <2>1, Ends, TypeMove DEF Connect
<1>5. CASE n # None /\ ring[n] = None
  <2>1. n \in Names
    BY <1>3, <1>5
  <2>2. proc' = [proc EXCEPT ![p] = r]
    BY <1>2, <1>5 DEF Connect, ProcOK
  <2> HIDE DEF n
  <2>3. /\ r \in Process /\ r.name = n /\ r.cmd = proc[p].cmd
        /\ r.pc = "getold" /\ Stage(r) = "getold" /\ r.then = proc[p].then
    BY <1>2, <2>1 DEF Process, Stage
  <2>4. proc[p].then # "end"
    BY <1>1, <1>2 DEF Sound
  <2> HIDE DEF r
  <2>5. Sound(r)
    BY <1>1, <2>1, <2>3, <2>4 DEF Sound
  <2>6. ProcOK'
    BY <1>2, <2>2, <2>3, <2>5, Goes
  <2> QED BY <2>6, TypeMove DEF Connect
<1> QED BY <1>4, <1>5

LEMMA TypeGetLegacy == ASSUME TypeInv, NEW p \in Procs, GetLegacy(p) PROVE TypeInv'
<1> DEFINE found == oldRing[proc[p].name]
           r == [proc[p] EXCEPT !.found = found, !.pc = "migrate"]
<1>1. Running(p) /\ proc[p].pc = "getold"
  BY DEF GetLegacy, At
<1>2. ProcOK /\ proc[p] \in Process /\ Sound(proc[p])
  BY <1>1, RunningRecord DEF TypeInv
<1>3. proc[p].name \in Names /\ proc[p].cmd.verb = "connect" /\ proc[p].then # "end"
  BY <1>1, <1>2 DEF Sound
<1>4. CASE found = None
  <2>1. End(p)
    BY <1>2, <1>4 DEF GetLegacy, End, ProcOK
  <2> QED BY <1>2, <2>1, Ends, TypeMove DEF GetLegacy
<1>5. CASE found # None
  <2>1. found \in Passwords
    BY <1>3, <1>5 DEF TypeInv, RingsOK
  <2>2. proc' = [proc EXCEPT ![p] = r]
    BY <1>2, <1>5 DEF GetLegacy, ProcOK
  <2> HIDE DEF found
  <2>3. /\ r \in Process /\ r.name = proc[p].name /\ r.cmd = proc[p].cmd
        /\ r.found = found
        /\ r.pc = "migrate" /\ Stage(r) = "migrate" /\ r.then = proc[p].then
    BY <1>2, <2>1 DEF Process, Stage
  <2> HIDE DEF r
  <2>4. Sound(r)
    BY <1>3, <2>1, <2>3 DEF Sound
  <2>5. ProcOK'
    BY <1>2, <2>2, <2>3, <2>4, Goes
  <2> QED BY <2>5, TypeMove DEF GetLegacy
<1> QED BY <1>4, <1>5

LEMMA TypeMigrate == ASSUME TypeInv, NEW p \in Procs, Migrate(p) PROVE TypeInv'
<1> DEFINE n == proc[p].name
<1>1. Running(p) /\ proc[p].pc = "migrate"
  BY DEF Migrate, At
<1>2. ProcOK /\ Sound(proc[p])
  BY <1>1, RunningRecord DEF TypeInv
<1>3. n \in Names /\ proc[p].found \in Passwords
  BY <1>1, <1>2 DEF Sound
<1>4. ProcOK'
  BY <1>2, Ends DEF Migrate
<1> HIDE DEF n
<1>5. RingsOK'
  BY <1>3 DEF TypeInv, RingsOK, Migrate, Store, n
<1>6. HistoryOK'
  BY <1>3 DEF TypeInv, HistoryOK, Migrate, Stale, n
<1>7. FileOK' /\ CountsOK'
  BY DEF TypeInv, FileOK, CountsOK, Migrate
<1> QED BY <1>4, <1>5, <1>6, <1>7 DEF TypeInv

\* The next entry of an address book, after one that was at most the last.
LEMMA NextParts ==
    ASSUME TypeInv, NEW p \in Procs, Running(p), proc[p].entry <= Len(Book),
           proc[p].pc \in {"decide", "next"}, NextEntry(p)
    PROVE  ProcOK'
<1> DEFINE r == [proc[p] EXCEPT !.entry = @ + 1, !.pc = "decide"]
<1>1. ProcOK /\ proc[p] \in Process /\ proc[p].then # "end"
  BY RunningRecord DEF TypeInv, Sound
<1>2. proc[p].entry + 1 \in 1 .. Len(Book) + 1
  BY <1>1, RecordParts, BookLength
<1>3. r \in Process /\ r.pc = "decide" /\ Stage(r) = "decide" /\ r.then # "end"
  BY <1>1, <1>2 DEF Process, Stage
<1>4. proc' = [proc EXCEPT ![p] = r]
  BY <1>1 DEF NextEntry, ProcOK
<1> HIDE DEF r
<1>5. Sound(r)
  BY <1>3 DEF Sound
<1> QED BY <1>1, <1>3, <1>4, <1>5, Goes

LEMMA TypeImportEntry == ASSUME TypeInv, NEW p \in Procs, ImportEntry(p) PROVE TypeInv'
<1> DEFINE k == proc[p].entry
           e == Book[k]
           as == ImportAs(proc[p].cfg, e, proc[p].cmd.force)
           id == IF as.action = "update" THEN proc[p].cfg.devs[as.name].id ELSE None
           cfg == PutDevice(proc[p].cfg, as.name, [host |-> e.host, id |-> id])
           then == IF proc[p].cmd.withPasswords /\ e.password # None THEN "store" ELSE "next"
<1>1. Running(p) /\ proc[p].pc = "decide" /\ proc[p].cmd.verb = "import" /\ k <= Len(Book)
  BY DEF ImportEntry, At
<1>2. ProcOK /\ proc[p] \in Process /\ proc[p].cfg \in Config
  BY <1>1, RunningRecord, RecordParts DEF TypeInv
<1>3. k \in 1 .. Len(Book)
  BY <1>1, <1>2, RecordParts, BookLength
<1>4. as.name \in Names /\ as.name = e.base /\ (as.action = "update" => as.name \in Known(proc[p].cfg))
  BY <1>3, BookParts DEF ImportAs
<1>5. id \in Names \cup {None}
  <2>1. proc[p].cfg.devs \in [Known(proc[p].cfg) -> Device]
    BY <1>2, ConfigParts
  <2>2. CASE as.action = "update"
    <3>1. proc[p].cfg.devs[as.name] \in Device
      BY <1>4, <2>1, <2>2
    <3>2. proc[p].cfg.devs[as.name].id \in Names \cup {None}
      BY <3>1 DEF Device
    <3> HIDE DEF as
    <3> QED BY <2>2, <3>2
  <2>3. CASE as.action # "update"
    BY <2>3
  <2> QED BY <2>2, <2>3
<1>6. cfg \in Config /\ as.name \in Known(cfg)
  <2>1. [host |-> e.host, id |-> id] \in Device
    BY <1>3, <1>5, BookParts, NewDevice
  <2> HIDE DEF as, e, k, id
  <2> QED BY <1>2, <1>4, <2>1, PutConfig
<1>7. ProcOK'
  <2>1. CASE NextEntry(p)
    BY <1>1, <2>1, NextParts
  <2>2. CASE SaveAs(p, cfg, as.name, then)
    <3> DEFINE s == Saving(proc[p], cfg, as.name, then)
    <3>1. then \in Afters
      BY DEF Afters
    <3>2. /\ s.cmd = proc[p].cmd /\ s.cfg = cfg /\ s.name = as.name /\ s.entry = k
          /\ s.pc = "open" /\ Stage(s) = then
      <4> HIDE DEF cfg, then, as
      <4> QED BY <1>2, <1>4, <1>6, <3>1, SavingParts
    <3>3. Sound(s)
      <4>1. then = "store" \/ then = "next"
        OBVIOUS
      <4>2. then = "store" => Book[k].password # None
        OBVIOUS
      <4> HIDE DEF s, cfg, as, k, then
      <4> QED BY <1>1, <1>4, <1>6, <3>2, <4>1, <4>2 DEF Sound
    <3> HIDE DEF cfg, as, then
    <3> QED BY <1>1, <1>4, <1>6, <2>2, <3>1, <3>3, Saves
  <2> QED BY <2>1, <2>2 DEF ImportEntry
<1>8. UNCHANGED <<file, ring, oldRing, commands, faults, history>>
  BY DEF ImportEntry
<1> QED BY <1>7, <1>8, TypeMove

LEMMA TypeImportDone == ASSUME TypeInv, NEW p \in Procs, ImportDone(p) PROVE TypeInv'
<1>1. ProcOK'
  BY Ends DEF TypeInv, ImportDone
<1> QED BY <1>1, TypeMove DEF ImportDone

LEMMA TypeImportNext == ASSUME TypeInv, NEW p \in Procs, ImportNext(p) PROVE TypeInv'
<1>1. Running(p) /\ proc[p].pc = "next"
  BY DEF ImportNext, At
<1>2. proc[p] \in Process /\ Sound(proc[p])
  BY <1>1, RunningRecord DEF TypeInv
<1>3. proc[p].entry <= Len(Book) /\ proc[p].name \in Known(proc[p].cfg)
  BY <1>1, <1>2 DEF Sound, Stage
<1>4. ProcOK'
  BY <1>1, <1>3, NextParts DEF ImportNext
<1>5. HistoryOK'
  <2>1. proc[p].cfg.devs[proc[p].name] \in Device
    BY <1>2, <1>3, RecordParts, ConfigParts
  <2> QED BY <2>1 DEF TypeInv, HistoryOK, ImportNext
<1>6. FileOK' /\ RingsOK' /\ CountsOK'
  BY DEF TypeInv, FileOK, RingsOK, CountsOK, ImportNext
<1> QED BY <1>4, <1>5, <1>6 DEF TypeInv

\* A command goes on to its next system call.
LEMMA GoesOn ==
    ASSUME ProcOK, NEW p \in Procs, Running(p), NEW pc, Go(p, pc),
           \/ pc = "fill" /\ proc[p].pc = "open"
           \/ pc = proc[p].then /\ proc[p].pc = "fill"
    PROVE  ProcOK'
<1> DEFINE r == [proc[p] EXCEPT !.pc = pc]
<1>1. proc[p] \in Process /\ Sound(proc[p])
  BY RunningRecord
<1>2. /\ r \in Process /\ Stage(r) = Stage(proc[p])
      /\ r.cmd = proc[p].cmd /\ r.cfg = proc[p].cfg
      /\ r.name = proc[p].name /\ r.entry = proc[p].entry
      /\ r.then = "end" => r.pc \in {"open", "fill", "end"}
      /\ r.pc = "end" => r.then = "end"
      /\ r.pc \notin {"getold", "migrate"}
  BY <1>1 DEF Process, Stage, Afters
<1>3. proc' = [proc EXCEPT ![p] = r]
  BY DEF Go, ProcOK
<1> HIDE DEF r
<1>4. Sound(r)
  BY <1>1, <1>2 DEF Sound
<1> QED BY <1>2, <1>3, <1>4, Goes

LEMMA TypeSave == ASSUME TypeInv, NEW p \in Procs, SaveOpen(p) \/ SaveFill(p) PROVE TypeInv'
<1>1. Running(p)
  BY DEF SaveOpen, SaveFill, At
<1>2. ProcOK /\ proc[p] \in Process
  BY <1>1, RunningRecord DEF TypeInv
<1>3. ProcOK'
  BY <1>1, <1>2, GoesOn DEF SaveOpen, SaveFill, At
<1>4. FileOK'
  BY <1>2, RecordParts DEF SaveOpen, SaveFill, FileOK
<1>5. RingsOK' /\ CountsOK' /\ HistoryOK'
  BY DEF TypeInv, RingsOK, CountsOK, HistoryOK, SaveOpen, SaveFill, history
<1> QED BY <1>3, <1>4, <1>5 DEF TypeInv

\* What the store stage puts into the keyring.
LEMMA StoredPassword ==
    ASSUME NEW r \in Process, Sound(r), r.pc = "store"
    PROVE  /\ r.name \in Names
           /\ (IF r.cmd.verb = "import" THEN Book[r.entry].password ELSE r.cmd.password)
                 \in Passwords
<1>1. /\ r.name \in Names /\ r.cmd.verb \in {"add", "auth", "import"}
      /\ r.cmd.verb = "import" => r.entry <= Len(Book) /\ Book[r.entry].password # None
  BY DEF Sound, Stage
<1>2. CASE r.cmd.verb = "import"
  <2>1. r.entry \in 1 .. Len(Book)
    BY <1>1, <1>2, RecordParts, BookLength
  <2> QED BY <1>1, <1>2, <2>1, BookParts
<1>3. CASE r.cmd.verb # "import"
  BY <1>1, <1>3, RecordParts, CommandParts
<1> QED BY <1>1, <1>2, <1>3

LEMMA TypeStorePassword ==
    ASSUME TypeInv, NEW p \in Procs, StorePassword(p)
    PROVE  TypeInv'
<1> DEFINE r == proc[p]
           n == r.name
           c == r.cmd
           pw == IF c.verb = "import" THEN Book[r.entry].password ELSE c.password
<1>1. Running(p) /\ r.pc = "store"
  BY DEF StorePassword, At
<1>2. ProcOK /\ r \in Process /\ Sound(r)
  BY <1>1, RunningRecord DEF TypeInv
<1>3. /\ n \in Names /\ c.verb \in {"add", "auth", "import"}
      /\ c.verb # "auth" => n \in Known(r.cfg)
      /\ c.verb = "import" => r.entry <= Len(Book) /\ Book[r.entry].password # None
  BY <1>1, <1>2 DEF Sound, Stage
<1>4. pw \in Passwords
  BY <1>1, <1>2, StoredPassword
<1>5. ProcOK'
  <2>1. CASE c.verb = "import"
    <3> DEFINE s == [r EXCEPT !.pc = "next"]
    <3>1. /\ s \in Process /\ Stage(s) = "next" /\ s.cmd = c /\ s.cfg = r.cfg
          /\ s.name = n /\ s.entry = r.entry
          /\ s.pc = "next" /\ s.then # "end"
      BY <1>1, <1>2 DEF Sound, Process, Stage, Afters
    <3>2. Sound(s)
      <4> HIDE DEF s
      <4> QED BY <1>3, <2>1, <3>1 DEF Sound
    <3>3. proc' = [proc EXCEPT ![p] = s]
      BY <1>2, <2>1 DEF StorePassword, Go, ProcOK
    <3> HIDE DEF s
    <3> QED BY <1>2, <3>1, <3>2, <3>3, Goes
  <2>2. CASE c.verb # "import"
    BY <1>2, <2>2, Ends DEF StorePassword
  <2> QED BY <2>1, <2>2
<1>6. RingsOK'
  <2>1. ring' = [ring EXCEPT ![n] = pw] /\ oldRing' = oldRing
    BY DEF StorePassword, Store
  <2> HIDE DEF pw, n
  <2> QED BY <1>3, <1>4, <2>1 DEF TypeInv, RingsOK
<1>7. HistoryOK'
  <2>1. /\ secrets' = [secrets EXCEPT ![n] = pw] /\ UNCHANGED <<cut, overlapped>>
        /\ stale' \subseteq stale \cup {n}
    BY DEF StorePassword, Stale
  <2>2. devices' \in [Names -> Device \cup {None}]
    <3>1. CASE c.verb = "add"
      <4>1. r.cfg.devs[n] \in Device
        BY <1>2, <1>3, <3>1, RecordParts, ConfigParts
      <4> QED BY <1>3, <3>1, <4>1 DEF TypeInv, HistoryOK, StorePassword
    <3>2. CASE c.verb # "add"
      BY <3>2 DEF TypeInv, HistoryOK, StorePassword
    <3> QED BY <3>1, <3>2
  <2> HIDE DEF pw, n
  <2> QED BY <1>3, <1>4, <2>1, <2>2 DEF TypeInv, HistoryOK
<1>8. FileOK' /\ CountsOK'
  BY DEF TypeInv, FileOK, CountsOK, StorePassword
<1> QED BY <1>5, <1>6, <1>7, <1>8 DEF TypeInv

\* A removal that has deleted, or failed to delete, the first entry.
LEMMA ForgetsOn ==
    ASSUME ProcOK, NEW p \in Procs, At(p, "forget"), Go(p, "forgetold")
    PROVE  ProcOK'
<1> DEFINE r == [proc[p] EXCEPT !.pc = "forgetold"]
<1>1. proc[p] \in Process /\ Sound(proc[p]) /\ proc[p].pc = "forget"
  BY RunningRecord DEF At
<1>2. /\ r \in Process /\ Stage(r) = "forgetold" /\ Stage(proc[p]) = "forget"
      /\ r.cmd = proc[p].cmd /\ r.cfg = proc[p].cfg /\ r.name = proc[p].name
      /\ r.then = proc[p].then /\ r.pc = "forgetold"
  BY <1>1 DEF Process, Stage
<1>3. proc' = [proc EXCEPT ![p] = r]
  BY DEF Go, ProcOK
<1> HIDE DEF r
<1>4. Sound(r)
  BY <1>1, <1>2 DEF Sound
<1> QED BY <1>2, <1>3, <1>4, Goes

LEMMA TypeForgetPassword ==
    ASSUME TypeInv, NEW p \in Procs, ForgetPassword(p)
    PROVE  TypeInv'
<1>1. ProcOK'
  BY ForgetsOn DEF TypeInv, ForgetPassword
<1>2. RingsOK'
  BY DEF TypeInv, RingsOK, ForgetPassword, ForgetNew
<1>3. HistoryOK'
  BY DEF TypeInv, HistoryOK, ForgetPassword
<1>4. FileOK' /\ CountsOK'
  BY DEF TypeInv, FileOK, CountsOK, ForgetPassword
<1> QED BY <1>1, <1>2, <1>3, <1>4 DEF TypeInv

LEMMA TypeForgetLegacyPassword ==
    ASSUME TypeInv, NEW p \in Procs, ForgetLegacyPassword(p)
    PROVE  TypeInv'
<1>1. proc[p].name \in Names
  <2>1. Running(p) /\ proc[p].pc = "forgetold"
    BY DEF ForgetLegacyPassword, At
  <2>2. Sound(proc[p])
    BY <2>1, RunningRecord DEF TypeInv
  <2> QED BY <2>1, <2>2 DEF Sound, Stage
<1>2. ProcOK'
  BY Ends DEF TypeInv, ForgetLegacyPassword
<1>3. RingsOK'
  BY DEF TypeInv, RingsOK, ForgetLegacyPassword, ForgetLegacy
<1>4. HistoryOK'
  BY <1>1 DEF TypeInv, HistoryOK, ForgetLegacyPassword, Stale
<1>5. FileOK' /\ CountsOK'
  BY DEF TypeInv, FileOK, CountsOK, ForgetLegacyPassword
<1> QED BY <1>2, <1>3, <1>4, <1>5 DEF TypeInv

LEMMA TypeEndSaved == ASSUME TypeInv, NEW p \in Procs, EndSaved(p) PROVE TypeInv'
<1>1. Running(p) /\ proc[p].pc = "end"
  BY DEF EndSaved, At
<1>2. proc[p] \in Process /\ Sound(proc[p])
  BY <1>1, RunningRecord DEF TypeInv
<1>3. proc[p].cmd.verb = "rsc" => proc[p].cfg.devs[proc[p].name] \in Device
  <2>1. proc[p].cmd.verb = "rsc" => proc[p].name \in Known(proc[p].cfg)
    BY <1>1, <1>2 DEF Sound, Stage
  <2> QED BY <1>2, <2>1, RecordParts, ConfigParts
<1>4. ProcOK'
  BY Ends DEF TypeInv, EndSaved
<1>5. HistoryOK'
  BY <1>3 DEF TypeInv, HistoryOK, EndSaved
<1>6. FileOK' /\ RingsOK' /\ CountsOK'
  BY DEF TypeInv, FileOK, RingsOK, CountsOK, EndSaved
<1> QED BY <1>4, <1>5, <1>6 DEF TypeInv

\* A fault that leaves the names ns half-done.
LEMMA TypeFault ==
    ASSUME TypeInv, Fault, NEW ns \in SUBSET Names, HalfDone(ns), ProcOK', RingsOK',
           UNCHANGED <<file, commands>>
    PROVE  TypeInv'
<1>1. CountsOK'
  BY InventoryAssumption DEF TypeInv, CountsOK, Fault
<1>2. FileOK' /\ HistoryOK'
  BY DEF TypeInv, FileOK, HistoryOK, HalfDone
<1> QED BY <1>1, <1>2 DEF TypeInv

LEMMA TypeOpenFails == ASSUME TypeInv, NEW p \in Procs, OpenFails(p) PROVE TypeInv'
<1> DEFINE r == proc[p]
           again == r.then = "decide" /\ r.cfg # Empty
           back == r.then = "end" /\ r.cmd.verb = "add"
           ns == IF back THEN {r.name} ELSE IF again THEN Names ELSE {}
<1>1. Running(p) /\ r.pc = "open"
  BY DEF OpenFails, At
<1>2. ProcOK /\ r \in Process /\ Sound(r)
  BY <1>1, RunningRecord DEF TypeInv
<1>3. back => r.name \in Names
  BY <1>1, <1>2 DEF Sound, Stage
<1>4. ns \in SUBSET Names
  BY <1>3
<1>5. ProcOK'
  <2>1. CASE again
    <3> DEFINE s == [r EXCEPT !.cfg = Empty]
    <3>1. s \in Process /\ s.pc = "open" /\ Stage(s) = "decide" /\ s.then = "decide"
      BY <1>1, <1>2, <2>1, EmptyConfig DEF Process, Stage
    <3>2. Sound(s)
      <4> HIDE DEF s
      <4> QED BY <3>1 DEF Sound
    <3>3. proc' = [proc EXCEPT ![p] = s]
      BY <1>2, <2>1 DEF OpenFails, ProcOK
    <3> HIDE DEF s
    <3> QED BY <1>2, <3>1, <3>2, <3>3, Goes
  <2>2. CASE ~again
    BY <1>2, <2>2, Ends DEF OpenFails
  <2> QED BY <2>1, <2>2
<1>6. RingsOK'
  BY DEF TypeInv, RingsOK, OpenFails
<1>7. Fault /\ HalfDone(ns) /\ UNCHANGED <<file, commands>>
  BY DEF OpenFails
<1> HIDE DEF ns
<1> QED BY <1>4, <1>5, <1>6, <1>7, TypeFault

LEMMA TypeFillFails == ASSUME TypeInv, NEW p \in Procs, FillFails(p) PROVE TypeInv'
<1>1. ProcOK'
  BY Ends DEF TypeInv, FillFails
<1>2. RingsOK'
  BY DEF TypeInv, RingsOK, FillFails
<1>3. Fault /\ HalfDone(Names) /\ UNCHANGED <<file, commands>>
  BY DEF FillFails
<1> QED BY <1>1, <1>2, <1>3, TypeFault

LEMMA TypeStoreFails == ASSUME TypeInv, NEW p \in Procs, StoreFails(p) PROVE TypeInv'
<1> DEFINE r == proc[p]
           cfg == RemoveDevice(r.cfg, r.name)
           ns == IF r.cmd.verb = "import" THEN {r.name} ELSE {}
<1>1. Running(p) /\ r.pc = "store"
  BY DEF StoreFails, At
<1>2. ProcOK /\ r \in Process /\ Sound(r)
  BY <1>1, RunningRecord DEF TypeInv
<1>3. r.name \in Names
  BY <1>1, <1>2 DEF Sound, Stage
<1>4. ProcOK'
  <2>1. CASE r.cmd.verb = "add"
    <3>1. cfg \in Config /\ r.name \notin Known(cfg)
      BY <1>2, <1>3, RecordParts, RemoveConfig
    <3> DEFINE s == Saving(r, cfg, r.name, "end")
    <3>2. s.cmd = r.cmd /\ s.cfg = cfg /\ s.name = r.name /\ s.pc = "open" /\ Stage(s) = "end"
      <4> HIDE DEF cfg
      <4> QED BY <1>2, <1>3, <3>1, SavingParts DEF Afters
    <3>3. Sound(s)
      <4> HIDE DEF s, cfg
      <4> QED BY <1>3, <2>1, <3>1, <3>2 DEF Sound
    <3>4. SaveAs(p, cfg, r.name, "end")
      BY <2>1 DEF StoreFails
    <3> HIDE DEF cfg
    <3> QED BY <1>1, <1>3, <3>1, <3>3, <3>4, Saves DEF Afters
  <2>2. CASE r.cmd.verb # "add"
    BY <1>2, <2>2, Ends DEF StoreFails
  <2> QED BY <2>1, <2>2
<1>5. RingsOK'
  BY DEF TypeInv, RingsOK, StoreFails
<1>6. Fault /\ HalfDone(ns) /\ UNCHANGED <<file, commands>>
  BY DEF StoreFails
<1>7. ns \in SUBSET Names
  BY <1>3
<1> HIDE DEF ns
<1> QED BY <1>4, <1>5, <1>6, <1>7, TypeFault

LEMMA TypeForgetFails == ASSUME TypeInv, NEW p \in Procs, ForgetFails(p) PROVE TypeInv'
<1> DEFINE n == proc[p].name
<1>1. Running(p) /\ proc[p].pc \in {"forget", "forgetold"}
  BY DEF ForgetFails, At
<1>2. ProcOK /\ Sound(proc[p])
  BY <1>1, RunningRecord DEF TypeInv
<1>3. n \in Names
  BY <1>1, <1>2 DEF Sound, Stage
<1>4. ProcOK'
  BY <1>2, Ends, ForgetsOn DEF ForgetFails
<1>5. Fault /\ HalfDone({n}) /\ UNCHANGED <<file, commands>>
  BY DEF ForgetFails
<1>6. RingsOK'
  BY DEF TypeInv, RingsOK, ForgetFails
<1> HIDE DEF n
<1> QED BY <1>3, <1>4, <1>5, <1>6, TypeFault

LEMMA TypeKilled == ASSUME TypeInv, NEW p \in Procs, Killed(p) PROVE TypeInv'
<1> DEFINE r == proc[p]
           hit == \/ r.pc \in {"store", "forget", "forgetold", "next"}
                  \/ r.then = "end" /\ r.cmd.verb \in {"add", "rsc"}
           ns == IF hit THEN {r.name} ELSE {}
<1>1. Running(p) /\ r.pc # "fill"
  BY DEF Killed
<1>2. ProcOK /\ r \in Process /\ Sound(r)
  BY <1>1, RunningRecord DEF TypeInv
<1>3. ProcOK'
  BY <1>2, Ends DEF Killed
<1>4. RingsOK'
  BY DEF TypeInv, RingsOK, Killed
<1>5. Fault /\ HalfDone(ns) /\ UNCHANGED <<file, commands>>
  BY DEF Killed
<1>6. hit => r.name \in Names
  <2>1. Known(r.cfg) \subseteq Names
    BY <1>2, RecordParts, ConfigParts
  <2> QED BY <1>2, <2>1 DEF Sound, Stage
<1>7. ns \in SUBSET Names
  BY <1>6
<1> HIDE DEF ns
<1> QED BY <1>3, <1>4, <1>5, <1>7, TypeFault

LEMMA TypeStep == TypeInv /\ [Next]_vars => TypeInv'
<1> SUFFICES ASSUME TypeInv, [Next]_vars PROVE TypeInv'
  OBVIOUS
<1>1. ASSUME NEW p \in Procs, Step(p) PROVE TypeInv'
  <2>1. CASE \E c \in Command : Start(p, c)
    BY <2>1, TypeStart
  <2>2. CASE \/ Add(p) \/ AddFromExport(p) \/ Remove(p) \/ Use(p) \/ Auth(p)
             \/ Connect(p) \/ GetLegacy(p) \/ Migrate(p)
    BY <2>2, TypeAdd, TypeRemove, TypeUse, TypeAuth, TypeConnect, TypeGetLegacy, TypeMigrate
  <2>3. CASE ImportEntry(p) \/ ImportNext(p) \/ ImportDone(p)
    BY <2>3, TypeImportEntry, TypeImportNext, TypeImportDone
  <2>4. CASE SaveOpen(p) \/ SaveFill(p)
    BY <2>4, TypeSave
  <2>5. CASE \/ StorePassword(p) \/ ForgetPassword(p) \/ ForgetLegacyPassword(p)
             \/ EndSaved(p)
    BY <2>5, TypeStorePassword, TypeForgetPassword, TypeForgetLegacyPassword, TypeEndSaved
  <2>6. CASE OpenFails(p) \/ FillFails(p) \/ StoreFails(p) \/ ForgetFails(p) \/ Killed(p)
    BY <2>6, TypeOpenFails, TypeFillFails, TypeStoreFails, TypeForgetFails, TypeKilled
  <2> QED BY <1>1, <2>1, <2>2, <2>3, <2>4, <2>5, <2>6 DEF Step
<1>2. CASE UNCHANGED vars
  BY <1>2 DEF vars, TypeInv, FileOK, RingsOK, ProcOK, CountsOK, HistoryOK, Running
<1> QED BY <1>1, <1>2 DEF Next

LEMMA TypeAlways == Spec => []TypeInv
BY TypeInit, TypeStep, PTL DEF Spec

\* The variables keep their types, and a config.toml that parses never names a
\* default device it does not have, however commands overlap, fail or are killed.
\* (Config.Save, RemoveDevice, SetDefaultDevice.)
THEOREM TypeCorrect == Spec => []TypeOK
BY TypeAlways, TypeInvImplies, PTL

-----------------------------------------------------------------------------
(* Commands that do not overlap: what the file says is what was reported.    *)
(* SerialInv follows the one command that runs: its copy, the file and the    *)
(* reports differ in the one device it is about, at known stages.  IntactInv  *)
(* comes first: nobody has written between its two calls.                    *)

Alone(p) == \A q \in Procs \ {p} : Idle(q)

IntactInv ==
    ~overlapped =>
        /\ file # Garbled
        /\ \A p \in Procs : Running(p) => Alone(p) /\ (proc[p].pc = "fill" => file = Torn)

LEMMA IntactInit == Init => IntactInv
BY InventoryAssumption DEF Init, IntactInv, Running

\* A step of p, which was alone, and is at most at the stage pc after it.
LEMMA IntactTurn ==
    ASSUME TypeInv, NEW p \in Procs, Alone(p), NEW r, proc' = [proc EXCEPT ![p] = r],
           file' # Garbled, r = None \/ r.pc # "fill" \/ file' = Torn
    PROVE  IntactInv'
<1>1. proc'[p] = r /\ \A q \in Procs \ {p} : proc'[q] = None
  BY DEF TypeInv, ProcOK, Alone, Idle
<1>2. \A q \in Procs : Running(q)' => q = p
  BY <1>1 DEF Running
<1>3. Alone(p)'
  BY <1>1 DEF Alone, Idle
<1> QED BY <1>1, <1>2, <1>3 DEF IntactInv, Running

\* Most steps of a running command leave it at none of these stages.
Halfway == {"fill", "getold", "migrate", "forgetold"}

Resumes(p) == \E r : proc' = [proc EXCEPT ![p] = r] /\ (r = None \/ r.pc \notin Halfway)

LEMMA StepResumes ==
    ASSUME TypeInv, NEW p \in Procs, Step(p), Running(p),
           ~SaveOpen(p), ~Connect(p), ~GetLegacy(p), ~ForgetPassword(p), ~ForgetFails(p)
    PROVE  Resumes(p)
<1> USE DEF Resumes, Halfway
<1>1. proc \in [Procs -> {None} \cup Process] /\ proc[p] \in Process
  BY DEF TypeInv, ProcOK, Running
<1>2. CASE End(p)
  BY <1>2 DEF End
<1>3. ASSUME NEW pc, Go(p, pc), pc \notin Halfway PROVE Resumes(p)
  <2>1. proc' = [proc EXCEPT ![p] = [proc[p] EXCEPT !.pc = pc]]
    BY <1>1, <1>3 DEF Go
  <2>2. [proc[p] EXCEPT !.pc = pc].pc = pc
    BY <1>1 DEF Process
  <2> QED BY <1>3, <2>1, <2>2
<1>4. ASSUME NEW cfg, NEW name, NEW then, SaveAs(p, cfg, name, then) PROVE Resumes(p)
  <2>1. proc' = [proc EXCEPT ![p] = Saving(proc[p], cfg, name, then)]
    BY <1>1, <1>4 DEF SaveAs, Saving
  <2>2. Saving(proc[p], cfg, name, then).pc = "open"
    BY <1>1 DEF Saving, Process
  <2> QED BY <2>1, <2>2
<1>5. CASE NextEntry(p)
  <2>1. proc' = [proc EXCEPT ![p] = [proc[p] EXCEPT !.entry = @ + 1, !.pc = "decide"]]
    BY <1>1, <1>5 DEF NextEntry
  <2>2. [proc[p] EXCEPT !.entry = @ + 1, !.pc = "decide"].pc = "decide"
    BY <1>1 DEF Process
  <2> QED BY <2>1, <2>2
<1>6. CASE Auth(p)
  <2> DEFINE n == Lookup(proc[p].cfg, proc[p].cmd.query)
             r == [proc[p] EXCEPT !.name = n, !.pc = "store"]
  <2>1. proc' = [proc EXCEPT ![p] = None] \/ proc' = [proc EXCEPT ![p] = r]
    BY <1>1, <1>6 DEF Auth
  <2>2. r.pc = "store"
    BY <1>1 DEF Process
  <2> HIDE DEF r
  <2> QED BY <2>1, <2>2
<1>7. CASE OpenFails(p)
  <2>1. CASE proc[p].then = "decide" /\ proc[p].cfg # Empty
    <3>1. proc' = [proc EXCEPT ![p] = [proc[p] EXCEPT !.cfg = Empty]]
      BY <1>1, <1>7, <2>1 DEF OpenFails
    <3>2. [proc[p] EXCEPT !.cfg = Empty].pc = "open"
      BY <1>1, <1>7 DEF Process, OpenFails, At
    <3> QED BY <3>1, <3>2
  <2>2. CASE ~(proc[p].then = "decide" /\ proc[p].cfg # Empty)
    BY <1>2, <1>7, <2>2 DEF OpenFails
  <2> QED BY <2>1, <2>2
<1>8. CASE Add(p) \/ AddFromExport(p) \/ Remove(p) \/ Use(p) \/ StoreFails(p)
  BY <1>2, <1>4, <1>8 DEF Add, AddFromExport, Remove, Use, StoreFails
<1>9. CASE ImportEntry(p) \/ ImportNext(p) \/ ImportDone(p)
  BY <1>2, <1>4, <1>5, <1>9 DEF ImportEntry, ImportNext, ImportDone
<1>10. CASE \/ Migrate(p) \/ StorePassword(p) \/ ForgetLegacyPassword(p) \/ EndSaved(p)
            \/ FillFails(p) \/ Killed(p)
  BY <1>2, <1>3, <1>10 DEF Migrate, StorePassword, ForgetLegacyPassword, EndSaved, FillFails,
     Killed
<1>11. CASE SaveFill(p)
  <2>1. proc[p].then \notin Halfway
    BY <1>1 DEF Process
  <2> QED BY <1>3, <1>11, <2>1 DEF SaveFill
<1>12. ~\E c \in Command : Start(p, c)
  BY DEF Start, Idle, Running
<1> QED BY <1>6, <1>7, <1>8, <1>9, <1>10, <1>11, <1>12 DEF Step

LEMMA IntactStep == TypeInv /\ IntactInv /\ [Next]_vars => IntactInv'
<1> SUFFICES ASSUME TypeInv, IntactInv, [Next]_vars PROVE IntactInv'
  OBVIOUS
<1>1. ASSUME NEW p \in Procs, NEW c \in Command, Start(p, c), ~overlapped' PROVE IntactInv'
  <2> DEFINE r == [cmd |-> c, cfg |-> Loaded, name |-> None, found |-> None, entry |-> 1,
                   pc |-> IF file = Missing THEN "open" ELSE "decide", then |-> "decide"]
  <2>1. Quiet /\ ~overlapped /\ file # Garbled /\ UNCHANGED file
    BY <1>1 DEF Start, IntactInv
  <2>2. proc' = [proc EXCEPT ![p] = r] /\ r.pc # "fill"
    BY <1>1, <2>1 DEF Start
  <2>3. Alone(p)
    BY <2>1 DEF Quiet, Alone
  <2> HIDE DEF r
  <2> QED BY <2>1, <2>2, <2>3, IntactTurn
<1>2. ASSUME NEW p \in Procs, Step(p), ~overlapped, Running(p), ~SaveOpen(p), ~SaveFill(p)
      PROVE  IntactInv'
  <2>1. file' = file /\ file # Garbled /\ Alone(p)
    <3>1. UNCHANGED file
      BY <1>2 DEF Step, Start, Idle, Running, Add, AddFromExport, Remove, Use, Auth, Connect,
         GetLegacy, Migrate, ImportEntry, ImportNext, ImportDone, StorePassword,
         ForgetPassword, ForgetLegacyPassword, EndSaved, OpenFails, FillFails, StoreFails,
         ForgetFails, Killed
    <3> QED BY <1>2, <3>1 DEF IntactInv
  <2>2. proc \in [Procs -> {None} \cup Process] /\ proc[p] \in Process
    BY <1>2 DEF TypeInv, ProcOK, Running
  <2>3. \E r : proc' = [proc EXCEPT ![p] = r] /\ (r = None \/ r.pc # "fill")
    <3>1. CASE Connect(p)
      <4> DEFINE n == Resolve(proc[p].cfg, proc[p].cmd.query)
                 r == [proc[p] EXCEPT !.name = n, !.pc = "getold"]
      <4>1. proc' = [proc EXCEPT ![p] = None] \/ proc' = [proc EXCEPT ![p] = r]
        BY <2>2, <3>1 DEF Connect
      <4>2. r.pc = "getold"
        BY <2>2 DEF Process
      <4> HIDE DEF r
      <4> QED BY <4>1, <4>2
    <3>2. CASE GetLegacy(p)
      <4> DEFINE found == oldRing[proc[p].name]
                 r == [proc[p] EXCEPT !.found = found, !.pc = "migrate"]
      <4>1. proc' = [proc EXCEPT ![p] = None] \/ proc' = [proc EXCEPT ![p] = r]
        BY <2>2, <3>2 DEF GetLegacy
      <4>2. r.pc = "migrate"
        BY <2>2 DEF Process
      <4> HIDE DEF r
      <4> QED BY <4>1, <4>2
    <3>3. CASE ForgetPassword(p) \/ ForgetFails(p)
      <4> DEFINE r == [proc[p] EXCEPT !.pc = "forgetold"]
      <4>1. proc' = [proc EXCEPT ![p] = None] \/ proc' = [proc EXCEPT ![p] = r]
        BY <2>2, <3>3 DEF ForgetPassword, ForgetFails, Go, End
      <4>2. r.pc = "forgetold"
        BY <2>2 DEF Process
      <4> HIDE DEF r
      <4> QED BY <4>1, <4>2
    <3>4. CASE ~Connect(p) /\ ~GetLegacy(p) /\ ~ForgetPassword(p) /\ ~ForgetFails(p)
      BY <1>2, <3>4, StepResumes DEF Resumes, Halfway
    <3> QED BY <3>1, <3>2, <3>3, <3>4
  <2>4. PICK r : proc' = [proc EXCEPT ![p] = r] /\ (r = None \/ r.pc # "fill")
    BY <2>3
  <2> QED BY <2>1, <2>4, IntactTurn
<1>3. ASSUME NEW p \in Procs, ~overlapped, SaveOpen(p) \/ SaveFill(p) PROVE IntactInv'
  <2>1. Running(p) /\ Alone(p)
    BY <1>3 DEF SaveOpen, SaveFill, At, IntactInv
  <2>2. proc \in [Procs -> {None} \cup Process] /\ proc[p] \in Process
    BY <2>1 DEF TypeInv, ProcOK, Running
  <2>3. CASE SaveOpen(p)
    <3>1. proc' = [proc EXCEPT ![p] = [proc[p] EXCEPT !.pc = "fill"]]
      BY <2>2, <2>3 DEF SaveOpen, Go
    <3>2. file' = Torn /\ file' # Garbled
      BY <2>3, InventoryAssumption DEF SaveOpen
    <3> QED BY <2>1, <3>1, <3>2, IntactTurn
  <2>4. CASE SaveFill(p)
    <3> DEFINE r == [proc[p] EXCEPT !.pc = proc[p].then]
    <3>1. proc' = [proc EXCEPT ![p] = r]
      BY <2>2, <2>4 DEF SaveFill, Go
    <3>2. file' = proc[p].cfg /\ proc[p].cfg # Garbled
      <4>1. file = Torn
        BY <1>3, <2>1, <2>4 DEF IntactInv, SaveFill, At
      <4> QED BY <2>2, <2>4, <4>1, RecordParts, InventoryAssumption DEF SaveFill
    <3>3. r.pc # "fill"
      BY <2>2 DEF Process
    <3> HIDE DEF r
    <3> QED BY <2>1, <3>1, <3>2, <3>3, IntactTurn
  <2> QED BY <1>3, <2>3, <2>4
<1>4. CASE UNCHANGED vars
  BY <1>4 DEF vars, IntactInv, Running, Alone, Idle
<1>5. ASSUME NEW p \in Procs, Step(p) PROVE IntactInv'
  <2>1. CASE overlapped'
    BY <2>1 DEF IntactInv
  <2>2. CASE ~overlapped' /\ \E c \in Command : Start(p, c)
    BY <1>1, <2>2
  <2>3. CASE ~overlapped' /\ ~\E c \in Command : Start(p, c)
    <3>1. Running(p)
      BY <1>5, <2>3 DEF Step, Add, AddFromExport, Remove, Use, Auth, Connect, GetLegacy,
         Migrate, ImportEntry, ImportNext, ImportDone, SaveOpen, SaveFill, StorePassword,
         ForgetPassword, ForgetLegacyPassword, EndSaved, OpenFails, FillFails, StoreFails,
         ForgetFails, Killed, At
    <3>2. overlapped' = overlapped
      BY <1>5, <2>3 DEF Step, Add, AddFromExport, Remove, Use, Auth, Connect, GetLegacy,
         Migrate, ImportEntry, ImportNext, ImportDone, SaveOpen, SaveFill, StorePassword,
         ForgetPassword, ForgetLegacyPassword, EndSaved, OpenFails, FillFails, StoreFails,
         ForgetFails, Killed, HalfDone, history
    <3> QED BY <1>2, <1>3, <1>5, <2>3, <3>1, <3>2
  <2> QED BY <2>1, <2>2, <2>3
<1> QED BY <1>4, <1>5 DEF Next

\* What a configuration says of a device.
View(cfg, n) == IF n \in Known(cfg) THEN cfg.devs[n] ELSE None

\* It says what the commands reported, but for the names ns and those cut short.
Agree(cfg, ns) == \A n \in Names \ (cut \cup ns) : devices[n] = View(cfg, n)

\* The device a command has put into its copy, or taken out, and not yet reported.
Unreported(r) ==
    IF \/ r.cmd.verb = "add" /\ Stage(r) = "store"
       \/ r.cmd.verb = "rsc" /\ Stage(r) = "end"
       \/ r.cmd.verb = "remove" /\ Stage(r) \in {"forget", "forgetold"}
       \/ r.cmd.verb = "import" /\ Stage(r) \in {"store", "next"}
    THEN {r.name} ELSE {}

\* The device an add is about to take back.
TakenBack(r) == IF r.cmd.verb = "add" /\ Stage(r) = "end" THEN {r.name} ELSE {}

\* A device that was not in the inventory when the command found it.
Added(r) ==
    \/ r.cmd.verb = "add" /\ Stage(r) = "store"
    \/ r.cmd.verb = "import" /\ ~r.cmd.force /\ Stage(r) \in {"store", "next"}

Told(r) ==
    /\ Agree(r.cfg, Unreported(r))
    /\ r.pc = "open" => Agree(Loaded, TakenBack(r))
    /\ r.pc \notin {"open", "fill"} => Loaded = r.cfg
    /\ Added(r) /\ r.name \notin cut => devices[r.name] = None

SerialInv ==
    ~overlapped =>
        /\ Quiet => Agree(Loaded, {})
        /\ \A p \in Procs : Running(p) => Told(proc[p]) /\ Alone(p)

LEMMA SameFile == ASSUME UNCHANGED file PROVE Loaded' = Loaded
BY DEF Loaded, Parsed

\* What SerialInv says when p takes a step.
LEMMA Serial ==
    ASSUME TypeInv, SerialInv, ~overlapped, NEW p \in Procs, Running(p)
    PROVE  /\ proc[p] \in Process /\ Sound(proc[p]) /\ Told(proc[p]) /\ Alone(p)
           /\ proc[p].cfg \in Config /\ Known(proc[p].cfg) \subseteq Names
BY RunningRecord, RecordParts, ConfigParts DEF TypeInv, SerialInv

LEMMA SerialEnds ==
    ASSUME TypeInv, SerialInv, ~overlapped, NEW p \in Procs, Running(p), End(p),
           Agree(Loaded, {})'
    PROVE  SerialInv'
<1>1. \A q \in Procs : Idle(q)'
  <2>1. Alone(p) /\ proc \in [Procs -> {None} \cup Process]
    BY Serial DEF TypeInv, ProcOK
  <2> QED BY <2>1 DEF Alone, Idle, End
<1>2. \A q \in Procs : ~Running(q)'
  BY <1>1 DEF Idle, Running
<1> QED BY <1>2 DEF SerialInv

LEMMA SerialGoes ==
    ASSUME TypeInv, NEW p \in Procs, Alone(p), NEW r \in Process,
           proc' = [proc EXCEPT ![p] = r], Told(proc[p])'
    PROVE  SerialInv'
<1>1. proc \in [Procs -> {None} \cup Process]
  BY DEF TypeInv, ProcOK
<1>2. proc'[p] = r /\ \A q \in Procs \ {p} : proc'[q] = proc[q]
  BY <1>1, Turn
<1>3. \A q \in Procs \ {p} : Idle(q)'
  BY <1>2 DEF Alone, Idle
<1>4. ~Quiet'
  BY <1>2, ProcessAssumption DEF Quiet, Idle
<1>5. Alone(p)'
  BY <1>3 DEF Alone
<1>6. \A q \in Procs : Running(q)' => q = p
  BY <1>3 DEF Idle, Running
<1> QED BY <1>4, <1>5, <1>6 DEF SerialInv

\* A command decides to save cfg.
LEMMA SerialSaves ==
    ASSUME TypeInv, SerialInv, ~overlapped, NEW p \in Procs, Running(p),
           NEW cfg \in Config, NEW name \in Names, NEW then \in Afters,
           SaveAs(p, cfg, name, then),
           UNCHANGED <<file, devices, cut>>,
           Agree(cfg, Unreported(Saving(proc[p], cfg, name, then))),
           Agree(Loaded, TakenBack(Saving(proc[p], cfg, name, then))),
           Added(Saving(proc[p], cfg, name, then)) /\ name \notin cut
             => devices[name] = None
    PROVE  SerialInv'
<1> DEFINE s == Saving(proc[p], cfg, name, then)
<1>1. proc[p] \in Process /\ Alone(p) /\ proc \in [Procs -> {None} \cup Process]
  BY Serial DEF TypeInv, ProcOK
<1>2. /\ s \in Process
      /\ s.cfg = cfg /\ s.name = name /\ s.pc = "open"
  BY <1>1, SavingParts
<1>3. proc' = [proc EXCEPT ![p] = s]
  BY <1>1 DEF SaveAs, Saving
<1>4. Agree(cfg, Unreported(s)) /\ Agree(Loaded, TakenBack(s))
  OBVIOUS
<1>5. Added(s) /\ name \notin cut => devices[name] = None
  OBVIOUS
<1> HIDE DEF s
<1>6. proc'[p] = s
  BY <1>1, <1>3
<1>7. Agree(proc[p].cfg, Unreported(proc[p]))'
  BY <1>2, <1>4, <1>6 DEF Agree, View, Known, Unreported, Stage
<1>8. Agree(Loaded, TakenBack(proc[p]))'
  BY <1>4, <1>6, SameFile DEF Agree, View, Known, TakenBack, Stage
<1>9. Added(proc[p])' <=> Added(s)
  BY <1>6 DEF Added, Stage
<1>10. Told(proc[p])'
  BY <1>2, <1>5, <1>6, <1>7, <1>8, <1>9 DEF Told
<1> QED BY <1>1, <1>2, <1>3, <1>10, SerialGoes

LEMMA SerialInit == Init => SerialInv
BY DEF Init, SerialInv, Agree, View, Running

LEMMA SerialStart ==
    ASSUME TypeInv, IntactInv, SerialInv, NEW p \in Procs, NEW c \in Command, Start(p, c)
    PROVE  SerialInv'
<1> SUFFICES ASSUME ~overlapped' PROVE SerialInv'
  BY DEF SerialInv
<1> DEFINE r == [cmd |-> c, cfg |-> Loaded, name |-> None, found |-> None, entry |-> 1,
                 pc |-> IF file = Missing THEN "open" ELSE "decide", then |-> "decide"]
<1>1. Quiet /\ ~overlapped /\ file # Garbled
  BY DEF Start, IntactInv
<1>2. Agree(Loaded, {}) /\ Alone(p)
  BY <1>1 DEF SerialInv, Quiet, Alone
<1>3. Loaded \in Config /\ 1 \in 1 .. Len(Book) + 1
  BY <1>1, LoadedConfig, BookLength DEF TypeInv
<1>4. /\ r \in Process /\ r.cfg = Loaded /\ r.pc \in {"open", "decide"}
      /\ Stage(r) = "decide"
  BY <1>3 DEF Process, Stage
<1>5. proc' = [proc EXCEPT ![p] = r] /\ UNCHANGED <<file, devices, cut>>
  BY <1>1 DEF Start
<1> HIDE DEF r
<1>6. proc'[p] = r
  BY <1>5 DEF TypeInv, ProcOK
<1>7. Loaded' = Loaded
  BY <1>5, SameFile
<1>8. Unreported(proc[p])' = {} /\ TakenBack(proc[p])' = {} /\ ~Added(proc[p])'
  BY <1>4, <1>6 DEF Unreported, TakenBack, Added, Stage
<1>9. Agree(proc[p].cfg, {})' /\ Agree(Loaded, {})'
  BY <1>2, <1>4, <1>5, <1>6, <1>7 DEF Agree, View, Known
<1>10. Told(proc[p])'
  BY <1>4, <1>6, <1>7, <1>8, <1>9 DEF Told
<1> QED BY <1>2, <1>4, <1>5, <1>10, SerialGoes

\* A command that has decided nothing yet works on what the file says.
LEMMA Decides ==
    ASSUME TypeInv, SerialInv, ~overlapped, NEW p \in Procs, At(p, "decide")
    PROVE  /\ Running(p) /\ Loaded = proc[p].cfg
           /\ Agree(proc[p].cfg, {}) /\ Agree(Loaded, {})
<1>1. Running(p) /\ proc[p].pc = "decide"
  BY DEF At
<1>2. Told(proc[p])
  BY <1>1, Serial
<1>3. Unreported(proc[p]) = {}
  BY <1>1 DEF Unreported, Stage
<1> QED BY <1>1, <1>2, <1>3 DEF Told

\* One that ends and has changed neither the file nor what is reported.
LEMMA SerialGivesUp ==
    ASSUME TypeInv, SerialInv, ~overlapped, NEW p \in Procs, Running(p), End(p),
           Agree(Loaded, {}), UNCHANGED <<file, devices, cut>>
    PROVE  SerialInv'
<1>1. Agree(Loaded, {})'
  BY SameFile DEF Agree, View, Known
<1> QED BY <1>1, SerialEnds

LEMMA SerialAdd ==
    ASSUME TypeInv, SerialInv, ~overlapped, NEW p \in Procs, Add(p) \/ AddFromExport(p)
    PROVE  SerialInv'
<1> DEFINE c == proc[p].cmd
           n == c.name
           cfg == PutDevice(proc[p].cfg, n, [host |-> c.host, id |-> None])
           then == IF c.verb = "add" THEN "store" ELSE "end"
           s == Saving(proc[p], cfg, n, then)
<1>1. At(p, "decide") /\ c.verb \in {"add", "rsc"}
  BY DEF Add, AddFromExport
<1>2. Running(p) /\ Loaded = proc[p].cfg /\ Agree(proc[p].cfg, {}) /\ Agree(Loaded, {})
  BY <1>1, Decides
<1>3. proc[p] \in Process /\ proc[p].cfg \in Config
  BY <1>2, Serial
<1>4. n \in Names /\ c.host \in Hosts
  BY <1>1, <1>3, RecordParts, CommandParts
<1>5. UNCHANGED <<file, devices, cut>>
  BY DEF Add, AddFromExport, history
<1>6. CASE End(p)
  BY <1>2, <1>5, <1>6, SerialGivesUp
<1>7. CASE n \notin Known(proc[p].cfg) /\ SaveAs(p, cfg, n, then)
  <2>1. /\ cfg \in Config
        /\ Known(cfg) = Known(proc[p].cfg) \cup {n}
        /\ \A m \in Known(proc[p].cfg) \ {n} : cfg.devs[m] = proc[p].cfg.devs[m]
    BY <1>3, <1>4, NewDevice, PutConfig
  <2>2. then \in Afters /\ (c.verb = "add" => then = "store") /\ (c.verb = "rsc" => then = "end")
    BY <1>1 DEF Afters
  <2>3. s.cmd = c /\ s.name = n /\ Stage(s) = then
    <3> HIDE DEF cfg, then
    <3> QED BY <1>3, <1>4, <2>1, <2>2, SavingParts
  <2>4. Unreported(s) = {n} /\ TakenBack(s) = {}
    <3> HIDE DEF s, then, n
    <3> QED BY <1>1, <2>2, <2>3 DEF Unreported, TakenBack
  <2>5. Agree(cfg, {n})
    <3> HIDE DEF cfg
    <3> QED BY <1>2, <2>1 DEF Agree, View
  <2>6. n \notin cut => devices[n] = None
    BY <1>2, <1>4, <1>7 DEF Agree, View
  <2> HIDE DEF cfg, then
  <2> QED BY <1>2, <1>4, <1>5, <1>7, <2>1, <2>2, <2>4, <2>5, <2>6, SerialSaves
<1> QED BY <1>1, <1>6, <1>7 DEF Add, AddFromExport

LEMMA SerialRemove ==
    ASSUME TypeInv, SerialInv, ~overlapped, NEW p \in Procs, Remove(p)
    PROVE  SerialInv'
<1> DEFINE n == Lookup(proc[p].cfg, proc[p].cmd.query)
           cfg == RemoveDevice(proc[p].cfg, n)
           s == Saving(proc[p], cfg, n, "forget")
<1>1. At(p, "decide") /\ proc[p].cmd.verb = "remove"
  BY DEF Remove
<1>2. Running(p) /\ Agree(proc[p].cfg, {}) /\ Agree(Loaded, {})
  BY <1>1, Decides
<1>3. proc[p] \in Process /\ proc[p].cfg \in Config /\ Known(proc[p].cfg) \subseteq Names
  BY <1>2, Serial
<1>4. UNCHANGED <<file, devices, cut>>
  BY DEF Remove, history
<1>5. CASE End(p)
  BY <1>2, <1>4, <1>5, SerialGivesUp
<1>6. CASE n # None /\ SaveAs(p, cfg, n, "forget")
  <2>1. n \in Names
    BY <1>3, <1>6, LookupKnown
  <2>2. /\ cfg \in Config
        /\ Known(cfg) = Known(proc[p].cfg) \ {n}
        /\ \A m \in Known(proc[p].cfg) \ {n} : cfg.devs[m] = proc[p].cfg.devs[m]
    BY <1>3, <2>1, RemoveConfig
  <2>3. s.cmd = proc[p].cmd /\ s.name = n /\ Stage(s) = "forget"
    <3>1. "forget" \in Afters
      BY DEF Afters
    <3> HIDE DEF cfg, n
    <3> QED BY <1>3, <2>1, <2>2, <3>1, SavingParts
  <2>4. Unreported(s) = {n} /\ TakenBack(s) = {} /\ ~Added(s)
    <3> HIDE DEF s, n
    <3> QED BY <1>1, <2>3 DEF Unreported, TakenBack, Added
  <2>5. Agree(cfg, {n})
    <3> HIDE DEF cfg, n
    <3> QED BY <1>2, <2>2 DEF Agree, View
  <2> HIDE DEF cfg, n
  <2> QED BY <1>2, <1>4, <1>6, <2>1, <2>2, <2>4, <2>5, SerialSaves DEF Afters
<1> QED BY <1>5, <1>6 DEF Remove

LEMMA SerialUse ==
    ASSUME TypeInv, SerialInv, ~overlapped, NEW p \in Procs, Use(p)
    PROVE  SerialInv'
<1> DEFINE n == Lookup(proc[p].cfg, proc[p].cmd.query)
           cfg == [proc[p].cfg EXCEPT !.default = n]
           s == Saving(proc[p], cfg, n, "end")
<1>1. At(p, "decide") /\ proc[p].cmd.verb = "use"
  BY DEF Use
<1>2. Running(p) /\ Agree(proc[p].cfg, {}) /\ Agree(Loaded, {})
  BY <1>1, Decides
<1>3. proc[p] \in Process /\ proc[p].cfg \in Config /\ Known(proc[p].cfg) \subseteq Names
  BY <1>2, Serial
<1>4. UNCHANGED <<file, devices, cut>>
  BY DEF Use, history
<1>5. CASE End(p)
  BY <1>2, <1>4, <1>5, SerialGivesUp
<1>6. CASE n # None /\ SaveAs(p, cfg, n, "end")
  <2>1. n \in Names /\ n \in Known(proc[p].cfg)
    BY <1>3, <1>6, LookupKnown
  <2>2. cfg \in Config /\ cfg.devs = proc[p].cfg.devs
    BY <1>3, <2>1, DefaultConfig
  <2>3. s.cmd = proc[p].cmd /\ s.name = n /\ Stage(s) = "end"
    <3>1. "end" \in Afters
      BY DEF Afters
    <3> HIDE DEF cfg, n
    <3> QED BY <1>3, <2>1, <2>2, <3>1, SavingParts
  <2>4. Unreported(s) = {} /\ TakenBack(s) = {} /\ ~Added(s)
    <3> HIDE DEF s, n
    <3> QED BY <1>1, <2>3 DEF Unreported, TakenBack, Added
  <2>5. Agree(cfg, {})
    <3> HIDE DEF cfg, n
    <3> QED BY <1>2, <2>2 DEF Agree, View, Known
  <2> HIDE DEF cfg, n
  <2> QED BY <1>2, <1>4, <1>6, <2>1, <2>2, <2>4, <2>5, SerialSaves DEF Afters
<1> QED BY <1>5, <1>6 DEF Use

\* A command that goes on as r, with the copy it has and nothing to report.
LEMMA SerialContinues ==
    ASSUME TypeInv, SerialInv, ~overlapped, NEW p \in Procs, Running(p),
           NEW r \in Process, proc' = [proc EXCEPT ![p] = r],
           r.pc \notin {"open", "fill"}, Unreported(r) = {}, ~Added(r),
           Agree(r.cfg, {}), Loaded = r.cfg, UNCHANGED <<file, devices, cut>>
    PROVE  SerialInv'
<1>1. Alone(p) /\ proc'[p] = r
  BY Serial DEF TypeInv, ProcOK
<1>2. Agree(proc[p].cfg, Unreported(proc[p]))' /\ ~Added(proc[p])'
  BY <1>1 DEF Agree, View, Known, Unreported, Added, Stage
<1>3. Loaded' = proc'[p].cfg
  BY <1>1, SameFile
<1>4. Told(proc[p])'
  BY <1>1, <1>2, <1>3 DEF Told
<1> QED BY <1>1, <1>4, SerialGoes

LEMMA SerialAuth ==
    ASSUME TypeInv, SerialInv, ~overlapped, NEW p \in Procs, Auth(p)
    PROVE  SerialInv'
<1> DEFINE n == Lookup(proc[p].cfg, proc[p].cmd.query)
           r == [proc[p] EXCEPT !.name = n, !.pc = "store"]
<1>1. At(p, "decide") /\ proc[p].cmd.verb = "auth"
  BY DEF Auth
<1>2. /\ Running(p) /\ Agree(proc[p].cfg, {}) /\ Agree(Loaded, {})
      /\ Loaded = proc[p].cfg
  BY <1>1, Decides
<1>3. proc[p] \in Process /\ Known(proc[p].cfg) \subseteq Names
  BY <1>2, Serial
<1>4. UNCHANGED <<file, devices, cut>> /\ proc \in [Procs -> {None} \cup Process]
  BY DEF Auth, history, TypeInv, ProcOK
<1>5. CASE n = None
  <2>1. End(p)
    BY <1>4, <1>5 DEF Auth, End
  <2> QED BY <1>2, <1>4, <2>1, SerialGivesUp
<1>6. CASE n # None
  <2>1. n \in Names
    BY <1>3, <1>6, LookupKnown
  <2>2. proc' = [proc EXCEPT ![p] = r]
    BY <1>4, <1>6 DEF Auth
  <2> HIDE DEF n
  <2>3. r \in Process /\ r.cmd = proc[p].cmd /\ r.cfg = proc[p].cfg /\ r.pc = "store"
    BY <1>3, <2>1 DEF Process
  <2> HIDE DEF r
  <2>4. Unreported(r) = {} /\ ~Added(r)
    BY <1>1, <2>3 DEF Unreported, Added
  <2> QED BY <1>2, <1>4, <2>2, <2>3, <2>4, SerialContinues
<1> QED BY <1>5, <1>6

LEMMA SerialImportDone ==
    ASSUME TypeInv, SerialInv, ~overlapped, NEW p \in Procs, ImportDone(p)
    PROVE  SerialInv'
<1>1. At(p, "decide") /\ End(p) /\ UNCHANGED <<file, devices, cut>>
  BY DEF ImportDone, history
<1> QED BY <1>1, Decides, SerialGivesUp

LEMMA SerialConnect ==
    ASSUME TypeInv, SerialInv, ~overlapped, NEW p \in Procs,
           Connect(p) \/ GetLegacy(p) \/ Migrate(p)
    PROVE  SerialInv'
<1>1. Running(p) /\ proc[p].pc \in {"decide", "getold", "migrate"}
  BY DEF Connect, GetLegacy, Migrate, At
<1>2. proc[p] \in Process /\ Known(proc[p].cfg) \subseteq Names /\ Sound(proc[p])
  BY <1>1, Serial
<1>3. proc[p].cmd.verb = "connect"
  BY <1>1, <1>2 DEF Connect, GetLegacy, Migrate, At, Sound
<1>4. /\ Agree(proc[p].cfg, {}) /\ Agree(Loaded, {})
      /\ Loaded = proc[p].cfg
  <2>1. Told(proc[p])
    BY <1>1, Serial
  <2>2. Unreported(proc[p]) = {}
    BY <1>3 DEF Unreported
  <2> QED BY <1>1, <2>1, <2>2 DEF Told
<1>5. UNCHANGED <<file, devices, cut>> /\ proc \in [Procs -> {None} \cup Process]
  BY DEF Connect, GetLegacy, Migrate, history, TypeInv, ProcOK
<1>6. CASE End(p)
  BY <1>1, <1>4, <1>5, <1>6, SerialGivesUp
<1>7. ASSUME NEW r \in Process, proc' = [proc EXCEPT ![p] = r], r.cmd = proc[p].cmd,
             r.cfg = proc[p].cfg, r.pc \in {"getold", "migrate"}
      PROVE  SerialInv'
  <2>1. Unreported(r) = {} /\ ~Added(r)
    BY <1>3, <1>7 DEF Unreported, Added
  <2> QED BY <1>1, <1>4, <1>5, <1>7, <2>1, SerialContinues
<1>8. CASE Connect(p) /\ ~End(p)
  <2> DEFINE n == Resolve(proc[p].cfg, proc[p].cmd.query)
             r == [proc[p] EXCEPT !.name = n, !.pc = "getold"]
  <2>1. n \in Names \cup {None}
    BY <1>2, LookupKnown DEF Resolve
  <2>2. proc' = [proc EXCEPT ![p] = r]
    BY <1>5, <1>8 DEF Connect, End
  <2> HIDE DEF n
  <2>3. r \in Process /\ r.cmd = proc[p].cmd /\ r.cfg = proc[p].cfg /\ r.pc = "getold"
    BY <1>2, <2>1 DEF Process
  <2> HIDE DEF r
  <2> QED BY <1>7, <2>2, <2>3
<1>9. CASE GetLegacy(p) /\ ~End(p)
  <2> DEFINE found == oldRing[proc[p].name]
             r == [proc[p] EXCEPT !.found = found, !.pc = "migrate"]
  <2>1. proc[p].name \in Names
    BY <1>2, <1>9 DEF Sound, GetLegacy, At
  <2>2. found \in Passwords \cup {None}
    BY <2>1 DEF TypeInv, RingsOK
  <2>3. proc' = [proc EXCEPT ![p] = r]
    BY <1>5, <1>9 DEF GetLegacy, End
  <2> HIDE DEF found
  <2>4. r \in Process /\ r.cmd = proc[p].cmd /\ r.cfg = proc[p].cfg /\ r.pc = "migrate"
    BY <1>2, <2>2 DEF Process
  <2> HIDE DEF r
  <2> QED BY <1>7, <2>3, <2>4
<1> QED BY <1>6, <1>8, <1>9 DEF Migrate

LEMMA SerialImportEntry ==
    ASSUME TypeInv, SerialInv, ~overlapped, NEW p \in Procs, ImportEntry(p)
    PROVE  SerialInv'
<1> DEFINE k == proc[p].entry
           e == Book[k]
           as == ImportAs(proc[p].cfg, e, proc[p].cmd.force)
           n == as.name
           id == IF as.action = "update" THEN proc[p].cfg.devs[as.name].id ELSE None
           dev == [host |-> e.host, id |-> id]
           cfg == PutDevice(proc[p].cfg, n, dev)
           then == IF proc[p].cmd.withPasswords /\ e.password # None THEN "store" ELSE "next"
           s == Saving(proc[p], cfg, n, then)
<1>1. At(p, "decide") /\ proc[p].cmd.verb = "import" /\ k <= Len(Book)
  BY DEF ImportEntry
<1>2. /\ Running(p) /\ Loaded = proc[p].cfg
      /\ Agree(proc[p].cfg, {}) /\ Agree(Loaded, {})
  BY <1>1, Decides
<1>3. proc[p] \in Process /\ proc[p].cfg \in Config /\ k \in 1 .. Len(Book)
  BY <1>1, <1>2, Serial, RecordParts, BookLength
<1>4. /\ n \in Names
      /\ as.action = "update" => n \in Known(proc[p].cfg)
      /\ ~proc[p].cmd.force /\ as.action # "skip" => n \notin Known(proc[p].cfg)
  BY <1>3, BookParts DEF ImportAs
<1>5. UNCHANGED <<file, devices, cut>>
  BY DEF ImportEntry, history
<1>6. CASE NextEntry(p)
  <2> DEFINE r == [proc[p] EXCEPT !.entry = @ + 1, !.pc = "decide"]
  <2>1. proc' = [proc EXCEPT ![p] = r]
    BY <1>6 DEF NextEntry, TypeInv, ProcOK
  <2>2. k + 1 \in 1 .. Len(Book) + 1
    BY <1>3, BookLength
  <2>3. r \in Process /\ r.cfg = proc[p].cfg /\ r.pc = "decide"
    BY <1>3, <2>2 DEF Process
  <2> HIDE DEF r
  <2>4. Unreported(r) = {} /\ ~Added(r)
    BY <2>3 DEF Unreported, Added, Stage
  <2> QED BY <1>2, <1>5, <2>1, <2>3, <2>4, SerialContinues
<1>7. CASE as.action # "skip" /\ SaveAs(p, cfg, n, then)
  <2>1. dev \in Device
    <3>1. proc[p].cfg.devs \in [Known(proc[p].cfg) -> Device]
      BY <1>3, ConfigParts
    <3>2. id \in Names \cup {None}
      <4>1. CASE as.action = "update"
        <5>1. proc[p].cfg.devs[as.name] \in Device
          BY <1>4, <3>1, <4>1
        <5>2. proc[p].cfg.devs[as.name].id \in Names \cup {None}
          BY <5>1 DEF Device
        <5> HIDE DEF as
        <5> QED BY <4>1, <5>2
      <4>2. CASE as.action # "update"
        BY <4>2
      <4> QED BY <4>1, <4>2
    <3> QED BY <1>3, <3>2, BookParts, NewDevice
  <2>2. /\ cfg \in Config
        /\ Known(cfg) = Known(proc[p].cfg) \cup {n}
        /\ \A m \in Known(proc[p].cfg) \ {n} : cfg.devs[m] = proc[p].cfg.devs[m]
    <3> HIDE DEF n, dev
    <3> QED BY <1>3, <1>4, <2>1, PutConfig
  <2>3. then \in Afters /\ then \in {"store", "next"}
    BY DEF Afters
  <2>4. s.cmd = proc[p].cmd /\ s.name = n /\ Stage(s) = then
    <3> HIDE DEF cfg, then, n
    <3> QED BY <1>3, <1>4, <2>2, <2>3, SavingParts
  <2>5. Unreported(s) = {n} /\ TakenBack(s) = {}
    <3> HIDE DEF s, then, n
    <3> QED BY <1>1, <2>3, <2>4 DEF Unreported, TakenBack
  <2>6. Agree(cfg, {n})
    <3> HIDE DEF cfg, n
    <3> QED BY <1>2, <2>2 DEF Agree, View
  <2>7. Added(s) /\ n \notin cut => devices[n] = None
    <3>1. Added(s) => n \notin Known(proc[p].cfg)
      <4> HIDE DEF s, n, then, as
      <4> QED BY <1>1, <1>4, <1>7, <2>4 DEF Added
    <3> HIDE DEF n, s
    <3> QED BY <1>2, <1>4, <3>1 DEF Agree, View
  <2> HIDE DEF cfg, then, n
  <2> QED BY <1>2, <1>4, <1>5, <1>7, <2>2, <2>3, <2>5, <2>6, <2>7, SerialSaves
<1> QED BY <1>6, <1>7 DEF ImportEntry

LEMMA SerialImportNext ==
    ASSUME TypeInv, SerialInv, ~overlapped, NEW p \in Procs, ImportNext(p)
    PROVE  SerialInv'
<1> DEFINE n == proc[p].name
           r == [proc[p] EXCEPT !.entry = @ + 1, !.pc = "decide"]
<1>1. Running(p) /\ proc[p].pc = "next" /\ NextEntry(p) /\ UNCHANGED <<file, cut>>
  BY DEF ImportNext, At
<1>2. /\ proc[p] \in Process /\ Told(proc[p]) /\ Alone(p)
      /\ Sound(proc[p]) /\ Known(proc[p].cfg) \subseteq Names
  BY <1>1, Serial
<1>3. n \in Known(proc[p].cfg) /\ proc[p].cmd.verb = "import" /\ proc[p].entry <= Len(Book)
  BY <1>1, <1>2 DEF Sound, Stage
<1>4. Agree(proc[p].cfg, {n}) /\ Loaded = proc[p].cfg
  BY <1>1, <1>2, <1>3 DEF Told, Unreported, Stage
<1>5. proc' = [proc EXCEPT ![p] = r]
  BY <1>1 DEF NextEntry, TypeInv, ProcOK
<1>6. r \in Process /\ r.cfg = proc[p].cfg /\ r.pc = "decide"
  <2>1. proc[p].entry + 1 \in 1 .. Len(Book) + 1
    BY <1>2, <1>3, RecordParts, BookLength
  <2> QED BY <1>2, <2>1 DEF Process
<1> HIDE DEF r
<1>7. proc'[p] = r
  BY <1>5 DEF TypeInv, ProcOK
<1>8. Agree(proc[p].cfg, {})'
  <2>1. devices' = [devices EXCEPT ![n] = proc[p].cfg.devs[n]]
    BY DEF ImportNext
  <2>2. devices \in [Names -> Device \cup {None}]
    BY DEF TypeInv, HistoryOK
  <2> HIDE DEF n
  <2> QED BY <1>1, <1>2, <1>3, <1>4, <1>6, <1>7, <2>1, <2>2 DEF Agree, View, Known
<1>9. Unreported(proc[p])' = {} /\ ~Added(proc[p])'
  BY <1>6, <1>7 DEF Unreported, Added, Stage
<1>10. Told(proc[p])'
  BY <1>1, <1>4, <1>6, <1>7, <1>8, <1>9, SameFile DEF Told
<1> QED BY <1>2, <1>5, <1>6, <1>10, SerialGoes

LEMMA SerialSaveOpen ==
    ASSUME TypeInv, SerialInv, ~overlapped, NEW p \in Procs, SaveOpen(p)
    PROVE  SerialInv'
<1> DEFINE r == [proc[p] EXCEPT !.pc = "fill"]
<1>1. Running(p) /\ proc[p].pc = "open" /\ UNCHANGED <<devices, cut>>
  BY DEF SaveOpen, At, history
<1>2. proc[p] \in Process /\ Told(proc[p]) /\ Alone(p)
  BY <1>1, Serial
<1>3. proc' = [proc EXCEPT ![p] = r]
  BY DEF SaveOpen, Go, TypeInv, ProcOK
<1>4. /\ r \in Process /\ r.pc = "fill" /\ r.cmd = proc[p].cmd /\ r.cfg = proc[p].cfg
      /\ r.name = proc[p].name /\ Stage(r) = Stage(proc[p])
  BY <1>1, <1>2 DEF Process, Stage
<1> HIDE DEF r
<1>5. proc'[p] = r
  BY <1>3 DEF TypeInv, ProcOK
<1>6. Stage(proc[p])' = Stage(proc[p])
  BY <1>4, <1>5 DEF Stage
<1>7. Unreported(proc[p])' = Unreported(proc[p]) /\ (Added(proc[p])' <=> Added(proc[p]))
  BY <1>4, <1>5, <1>6 DEF Unreported, Added
<1>8. Agree(proc[p].cfg, Unreported(proc[p]))'
  BY <1>1, <1>2, <1>4, <1>5, <1>7 DEF Told, Agree, View, Known
<1>9. Told(proc[p])'
  BY <1>1, <1>2, <1>4, <1>5, <1>7, <1>8 DEF Told
<1> QED BY <1>2, <1>3, <1>4, <1>9, SerialGoes

LEMMA SerialSaveFill ==
    ASSUME TypeInv, IntactInv, SerialInv, ~overlapped, NEW p \in Procs, SaveFill(p)
    PROVE  SerialInv'
<1> DEFINE r == [proc[p] EXCEPT !.pc = proc[p].then]
<1>1. /\ Running(p) /\ proc[p].pc = "fill" /\ file' = proc[p].cfg
      /\ UNCHANGED <<devices, cut>>
  BY DEF SaveFill, At, history, IntactInv
<1>2. proc[p] \in Process /\ Told(proc[p]) /\ Alone(p) /\ proc[p].cfg \in Config
  BY <1>1, Serial
<1>3. proc' = [proc EXCEPT ![p] = r]
  BY DEF SaveFill, Go, TypeInv, ProcOK
<1>4. /\ r \in Process /\ r.pc \notin {"open", "fill"} /\ r.cmd = proc[p].cmd
      /\ r.cfg = proc[p].cfg /\ r.name = proc[p].name /\ Stage(r) = Stage(proc[p])
  BY <1>1, <1>2 DEF Process, Stage
<1> HIDE DEF r
<1>5. proc'[p] = r
  BY <1>3 DEF TypeInv, ProcOK
<1>6. Stage(proc[p])' = Stage(proc[p])
  BY <1>4, <1>5 DEF Stage
<1>7. Unreported(proc[p])' = Unreported(proc[p]) /\ (Added(proc[p])' <=> Added(proc[p]))
  BY <1>4, <1>5, <1>6 DEF Unreported, Added
<1>8. Agree(proc[p].cfg, Unreported(proc[p]))'
  BY <1>1, <1>2, <1>4, <1>5, <1>7 DEF Told, Agree, View, Known
<1>9. Loaded' = proc[p].cfg
  BY <1>1, <1>2, InventoryAssumption DEF Loaded, Parsed
<1>10. Told(proc[p])'
  BY <1>1, <1>2, <1>4, <1>5, <1>7, <1>8, <1>9 DEF Told
<1> QED BY <1>2, <1>3, <1>4, <1>10, SerialGoes

\* What is to be said of the device n, and is said now.
LEMMA Reported ==
    ASSUME TypeInv, NEW cfg, NEW n \in Names, Agree(cfg, {n}), Loaded = cfg,
           UNCHANGED <<file, cut>>,
           devices' = [devices EXCEPT ![n] = View(cfg, n)]
    PROVE  Agree(Loaded, {})'
<1>1. Loaded' = cfg
  BY SameFile
<1>2. ASSUME NEW m \in Names \ cut PROVE devices'[m] = View(cfg, m)
  BY <1>2 DEF TypeInv, HistoryOK, Agree
<1> QED BY <1>1, <1>2 DEF Agree, View, Known

LEMMA SerialStorePassword ==
    ASSUME TypeInv, SerialInv, ~overlapped, NEW p \in Procs, StorePassword(p)
    PROVE  SerialInv'
<1> DEFINE n == proc[p].name
           c == proc[p].cmd
<1>1. Running(p) /\ proc[p].pc = "store" /\ UNCHANGED <<file, cut>>
  BY DEF StorePassword, At
<1>2. /\ proc[p] \in Process /\ Told(proc[p]) /\ Alone(p) /\ Sound(proc[p])
      /\ Loaded = proc[p].cfg
  BY <1>1, Serial DEF Told
<1>3. /\ n \in Names /\ c.verb \in {"add", "auth", "import"}
      /\ c.verb # "auth" => n \in Known(proc[p].cfg)
  BY <1>1, <1>2 DEF Sound, Stage
<1>4. CASE c.verb = "add"
  <2>1. Agree(proc[p].cfg, {n})
    BY <1>1, <1>2, <1>4 DEF Told, Unreported, Stage
  <2>2. devices' = [devices EXCEPT ![n] = View(proc[p].cfg, n)] /\ End(p)
    BY <1>3, <1>4 DEF StorePassword, View
  <2>3. Agree(Loaded, {})'
    BY <1>1, <1>2, <1>3, <2>1, <2>2, Reported
  <2> QED BY <1>1, <2>2, <2>3, SerialEnds
<1>5. CASE c.verb = "auth"
  <2>1. Agree(Loaded, {})
    BY <1>1, <1>2, <1>5 DEF Told, Unreported
  <2>2. End(p) /\ UNCHANGED devices
    BY <1>5 DEF StorePassword
  <2> QED BY <1>1, <2>1, <2>2, SerialGivesUp
<1>6. CASE c.verb = "import"
  <2> DEFINE r == [proc[p] EXCEPT !.pc = "next"]
  <2>1. proc' = [proc EXCEPT ![p] = r] /\ UNCHANGED devices
    BY <1>6 DEF StorePassword, Go, TypeInv, ProcOK
  <2>2. /\ r \in Process /\ r.pc = "next" /\ r.cmd = c /\ r.cfg = proc[p].cfg
        /\ r.name = n
    BY <1>2 DEF Process
  <2> HIDE DEF r
  <2>3. proc'[p] = r
    BY <2>1 DEF TypeInv, ProcOK
  <2>4. Unreported(proc[p])' = Unreported(proc[p]) /\ (Added(proc[p])' <=> Added(proc[p]))
    BY <1>1, <1>6, <2>2, <2>3 DEF Unreported, Added, Stage
  <2>5. Agree(proc[p].cfg, Unreported(proc[p]))'
    BY <1>1, <1>2, <2>1, <2>2, <2>3, <2>4 DEF Told, Agree, View, Known
  <2>6. Told(proc[p])'
    BY <1>1, <1>2, <2>1, <2>2, <2>3, <2>4, <2>5, SameFile DEF Told
  <2> QED BY <1>2, <2>1, <2>2, <2>6, SerialGoes
<1> QED BY <1>3, <1>4, <1>5, <1>6

\* A removal between its two deletes.
LEMMA SerialForgetsOn ==
    ASSUME TypeInv, SerialInv, ~overlapped, NEW p \in Procs, At(p, "forget"),
           Go(p, "forgetold"), UNCHANGED <<file, devices>>, cut \subseteq cut'
    PROVE  SerialInv'
<1> DEFINE r == [proc[p] EXCEPT !.pc = "forgetold"]
<1>1. Running(p) /\ proc[p].pc = "forget"
  BY DEF At
<1>2. proc[p] \in Process /\ Told(proc[p]) /\ Alone(p) /\ Sound(proc[p])
  BY <1>1, Serial
<1>3. proc' = [proc EXCEPT ![p] = r]
  BY DEF Go, TypeInv, ProcOK
<1>4. /\ r \in Process /\ r.pc = "forgetold" /\ r.cmd = proc[p].cmd /\ r.cfg = proc[p].cfg
      /\ r.name = proc[p].name
  BY <1>1, <1>2 DEF Process
<1> HIDE DEF r
<1>5. proc'[p] = r
  BY <1>3 DEF TypeInv, ProcOK
<1>6. Unreported(proc[p])' = Unreported(proc[p]) /\ ~Added(proc[p])'
  BY <1>1, <1>2, <1>4, <1>5 DEF Unreported, Added, Stage, Sound
<1>7. Agree(proc[p].cfg, Unreported(proc[p]))'
  BY <1>2, <1>4, <1>5, <1>6 DEF Told, Agree, View, Known
<1>8. Told(proc[p])'
  BY <1>1, <1>2, <1>4, <1>5, <1>6, <1>7, SameFile DEF Told
<1> QED BY <1>2, <1>3, <1>4, <1>8, SerialGoes

LEMMA SerialForgetPassword ==
    ASSUME TypeInv, SerialInv, ~overlapped, NEW p \in Procs,
           ForgetPassword(p) \/ ForgetLegacyPassword(p)
    PROVE  SerialInv'
<1>1. CASE ForgetPassword(p)
  BY <1>1, SerialForgetsOn DEF ForgetPassword
<1>2. CASE ForgetLegacyPassword(p)
  <2> DEFINE n == proc[p].name
  <2>1. Running(p) /\ proc[p].pc = "forgetold" /\ End(p) /\ UNCHANGED <<file, cut>>
    BY <1>2 DEF ForgetLegacyPassword, At
  <2>2. Told(proc[p]) /\ Sound(proc[p])
    BY <2>1, Serial
  <2>3. n \in Names \ Known(proc[p].cfg) /\ proc[p].cmd.verb = "remove"
    BY <2>1, <2>2 DEF Sound, Stage
  <2>4. Agree(proc[p].cfg, {n}) /\ Loaded = proc[p].cfg
    BY <2>1, <2>2, <2>3 DEF Told, Unreported, Stage
  <2>5. devices' = [devices EXCEPT ![n] = View(proc[p].cfg, n)]
    BY <1>2, <2>3 DEF ForgetLegacyPassword, View
  <2>6. Agree(Loaded, {})'
    BY <2>1, <2>3, <2>4, <2>5, Reported
  <2> QED BY <2>1, <2>6, SerialEnds
<1> QED BY <1>1, <1>2

LEMMA SerialEndSaved ==
    ASSUME TypeInv, SerialInv, ~overlapped, NEW p \in Procs, EndSaved(p)
    PROVE  SerialInv'
<1> DEFINE n == proc[p].name
<1>1. Running(p) /\ proc[p].pc = "end" /\ End(p) /\ UNCHANGED <<file, cut>>
  BY DEF EndSaved, At
<1>2. Told(proc[p]) /\ Sound(proc[p]) /\ Loaded = proc[p].cfg
  BY <1>1, Serial DEF Told
<1>3. /\ n \in Names /\ proc[p].cmd.verb \in {"add", "rsc", "use"}
      /\ proc[p].cmd.verb = "rsc" => n \in Known(proc[p].cfg)
  BY <1>1, <1>2 DEF Sound, Stage
<1>4. CASE proc[p].cmd.verb = "rsc"
  <2>1. Agree(proc[p].cfg, {n})
    BY <1>1, <1>2, <1>4 DEF Told, Unreported, Stage
  <2>2. devices' = [devices EXCEPT ![n] = View(proc[p].cfg, n)]
    BY <1>3, <1>4 DEF EndSaved, View
  <2>3. Agree(Loaded, {})'
    BY <1>1, <1>2, <1>3, <2>1, <2>2, Reported
  <2> QED BY <1>1, <2>3, SerialEnds
<1>5. CASE proc[p].cmd.verb # "rsc"
  <2>1. Agree(Loaded, {})
    BY <1>1, <1>2, <1>3, <1>5 DEF Told, Unreported, Stage
  <2>2. UNCHANGED devices
    BY <1>5 DEF EndSaved
  <2> QED BY <1>1, <2>1, <2>2, SerialGivesUp
<1> QED BY <1>4, <1>5

\* A fault that ends a command, with what it leaves half-done set aside.
LEMMA SerialCut ==
    ASSUME TypeInv, SerialInv, ~overlapped, NEW p \in Procs, Running(p), End(p),
           NEW ns \in SUBSET Names, HalfDone(ns), Agree(Loaded, ns) \/ ns = Names,
           UNCHANGED file
    PROVE  SerialInv'
<1>1. cut' = cut \cup ns /\ devices' = devices
  BY DEF HalfDone
<1>2. Agree(Loaded, {})'
  BY <1>1, SameFile DEF Agree, View, Known
<1> QED BY <1>2, SerialEnds

LEMMA SerialOpenFails ==
    ASSUME TypeInv, SerialInv, ~overlapped, NEW p \in Procs, OpenFails(p)
    PROVE  SerialInv'
<1> DEFINE r == proc[p]
           again == r.then = "decide" /\ r.cfg # Empty
           back == r.then = "end" /\ r.cmd.verb = "add"
           ns == IF back THEN {r.name} ELSE IF again THEN Names ELSE {}
<1>1. Running(p) /\ r.pc = "open" /\ HalfDone(ns) /\ UNCHANGED file
  BY DEF OpenFails, At
<1>2. r \in Process /\ Told(r) /\ Alone(p) /\ Sound(r)
  BY <1>1, Serial
<1>3. back => r.name \in Names
  BY <1>1, <1>2 DEF Sound, Stage
<1>4. CASE again
  <2> DEFINE s == [r EXCEPT !.cfg = Empty]
  <2>1. proc' = [proc EXCEPT ![p] = s] /\ proc \in [Procs -> {None} \cup Process]
    BY <1>4 DEF OpenFails, TypeInv, ProcOK
  <2>2. s \in Process /\ s.pc = "open" /\ Stage(s) = "decide"
    BY <1>1, <1>2, <1>4, EmptyConfig DEF Process, Stage
  <2> HIDE DEF s
  <2>3. proc'[p] = s
    BY <2>1
  <2>4. cut' = cut \cup Names
    BY <1>1, <1>4 DEF HalfDone
  <2>5. Agree(proc[p].cfg, Unreported(proc[p]))' /\ Agree(Loaded, TakenBack(proc[p]))'
    BY <2>4 DEF Agree
  <2>6. ~Added(proc[p])'
    BY <2>2, <2>3 DEF Added, Stage
  <2>7. Told(proc[p])'
    BY <2>2, <2>3, <2>5, <2>6 DEF Told
  <2> QED BY <1>2, <2>1, <2>2, <2>7, SerialGoes
<1>5. CASE ~again
  <2>1. End(p)
    BY <1>5 DEF OpenFails
  <2>2. TakenBack(r) = ns
    BY <1>1, <1>5 DEF TakenBack, Stage
  <2>3. Agree(Loaded, ns) /\ ns \in SUBSET Names
    BY <1>1, <1>2, <1>3, <2>2 DEF Told
  <2> HIDE DEF ns
  <2> QED BY <1>1, <2>1, <2>3, SerialCut
<1> QED BY <1>4, <1>5

LEMMA SerialFillFails ==
    ASSUME TypeInv, SerialInv, ~overlapped, NEW p \in Procs, FillFails(p)
    PROVE  SerialInv'
<1>1. Running(p) /\ End(p) /\ HalfDone(Names) /\ UNCHANGED file
  BY DEF FillFails, At
<1> QED BY <1>1, SerialCut

LEMMA SerialStoreFails ==
    ASSUME TypeInv, SerialInv, ~overlapped, NEW p \in Procs, StoreFails(p)
    PROVE  SerialInv'
<1> DEFINE r == proc[p]
           n == r.name
           cfg == RemoveDevice(r.cfg, n)
           ns == IF r.cmd.verb = "import" THEN {n} ELSE {}
           s == Saving(r, cfg, n, "end")
<1>1. Running(p) /\ r.pc = "store" /\ HalfDone(ns) /\ UNCHANGED file
  BY DEF StoreFails, At
<1>2. /\ r \in Process /\ Told(r) /\ Alone(p) /\ Sound(r) /\ r.cfg \in Config
      /\ Loaded = r.cfg
  BY <1>1, Serial DEF Told
<1>3. n \in Names /\ r.cmd.verb \in {"add", "auth", "import"}
  BY <1>1, <1>2 DEF Sound, Stage
<1>4. CASE r.cmd.verb = "add"
  <2>1. UNCHANGED <<devices, cut>>
    BY <1>1, <1>4 DEF HalfDone
  <2>2. Agree(r.cfg, {n}) /\ (n \notin cut => devices[n] = None)
    BY <1>1, <1>2, <1>4 DEF Told, Unreported, Added, Stage
  <2>3. /\ cfg \in Config
        /\ Known(cfg) = Known(r.cfg) \ {n}
        /\ \A m \in Known(r.cfg) \ {n} : cfg.devs[m] = r.cfg.devs[m]
    BY <1>2, <1>3, RemoveConfig
  <2>4. s.cmd = r.cmd /\ s.name = n /\ Stage(s) = "end"
    <3>1. "end" \in Afters
      BY DEF Afters
    <3> HIDE DEF cfg, n
    <3> QED BY <1>2, <1>3, <2>3, <3>1, SavingParts
  <2>5. Unreported(s) = {} /\ TakenBack(s) = {n} /\ ~Added(s)
    <3> HIDE DEF s, n
    <3> QED BY <1>4, <2>4 DEF Unreported, TakenBack, Added
  <2>6. Agree(cfg, {})
    <3> HIDE DEF cfg, n
    <3> QED BY <2>2, <2>3 DEF Agree, View
  <2>7. SaveAs(p, cfg, n, "end") /\ "end" \in Afters
    BY <1>4 DEF StoreFails, Afters
  <2> HIDE DEF cfg, n
  <2> QED BY <1>1, <1>2, <1>3, <2>1, <2>2, <2>3, <2>5, <2>6, <2>7, SerialSaves
<1>5. CASE r.cmd.verb # "add"
  <2>1. End(p)
    BY <1>5 DEF StoreFails
  <2>2. Unreported(r) = ns
    BY <1>1, <1>3, <1>5 DEF Unreported, Stage
  <2>3. Agree(Loaded, ns) /\ ns \in SUBSET Names
    BY <1>2, <1>3, <2>2 DEF Told
  <2> HIDE DEF ns
  <2> QED BY <1>1, <2>1, <2>3, SerialCut
<1> QED BY <1>4, <1>5

LEMMA SerialForgetFails ==
    ASSUME TypeInv, SerialInv, ~overlapped, NEW p \in Procs, ForgetFails(p)
    PROVE  SerialInv'
<1> DEFINE n == proc[p].name
<1>1. Running(p) /\ proc[p].pc \in {"forget", "forgetold"} /\ HalfDone({n}) /\ UNCHANGED file
  BY DEF ForgetFails, At
<1>2. Told(proc[p]) /\ Sound(proc[p])
  BY <1>1, Serial
<1>3. n \in Names /\ Agree(Loaded, {n})
  BY <1>1, <1>2 DEF Told, Unreported, Sound, Stage
<1>4. CASE End(p)
  <2> HIDE DEF n
  <2> QED BY <1>1, <1>3, <1>4, SerialCut
<1>5. CASE At(p, "forget") /\ Go(p, "forgetold")
  BY <1>1, <1>5, SerialForgetsOn DEF HalfDone
<1> QED BY <1>4, <1>5 DEF ForgetFails

LEMMA SerialKilled ==
    ASSUME TypeInv, SerialInv, ~overlapped, NEW p \in Procs, Killed(p)
    PROVE  SerialInv'
<1> DEFINE r == proc[p]
           hit == \/ r.pc \in {"store", "forget", "forgetold", "next"}
                  \/ r.then = "end" /\ r.cmd.verb \in {"add", "rsc"}
           ns == IF hit THEN {r.name} ELSE {}
<1>1. Running(p) /\ r.pc # "fill" /\ End(p) /\ HalfDone(ns) /\ UNCHANGED file
  BY DEF Killed
<1>2. r \in Process /\ Told(r) /\ Sound(r) /\ Known(r.cfg) \subseteq Names
  BY <1>1, Serial
<1>3. hit => r.name \in Names
  BY <1>2 DEF Sound, Stage
<1>4. CASE r.pc = "open"
  <2>1. TakenBack(r) \subseteq ns
    BY <1>4 DEF TakenBack, Stage
  <2>2. Agree(Loaded, TakenBack(r))
    BY <1>2, <1>4 DEF Told
  <2>3. Agree(Loaded, ns)
    <3> HIDE DEF ns
    <3> QED BY <2>1, <2>2 DEF Agree
  <2>4. ns \in SUBSET Names
    BY <1>3
  <2> HIDE DEF ns
  <2> QED BY <1>1, <2>3, <2>4, SerialCut
<1>5. CASE r.pc # "open"
  <2>1. Unreported(r) \subseteq ns
    BY <1>1, <1>2, <1>5 DEF Unreported, Stage, Sound
  <2>2. Agree(Loaded, Unreported(r))
    BY <1>1, <1>2, <1>5 DEF Told
  <2>3. Agree(Loaded, ns)
    <3> HIDE DEF ns
    <3> QED BY <2>1, <2>2 DEF Agree
  <2>4. ns \in SUBSET Names
    BY <1>3
  <2> HIDE DEF ns
  <2> QED BY <1>1, <2>3, <2>4, SerialCut
<1> QED BY <1>4, <1>5

LEMMA SerialStep == TypeInv /\ IntactInv /\ SerialInv /\ [Next]_vars => SerialInv'
<1> SUFFICES ASSUME TypeInv, IntactInv, SerialInv, [Next]_vars PROVE SerialInv'
  OBVIOUS
<1>1. ASSUME NEW p \in Procs, Step(p) PROVE SerialInv'
  <2>1. CASE \E c \in Command : Start(p, c)
    BY <2>1, SerialStart
  <2>2. CASE ~\E c \in Command : Start(p, c)
    <3>1. overlapped' = overlapped
      BY <1>1, <2>2 DEF Step, Add, AddFromExport, Remove, Use, Auth, Connect, GetLegacy,
         Migrate, ImportEntry, ImportNext, ImportDone, SaveOpen, SaveFill, StorePassword,
         ForgetPassword, ForgetLegacyPassword, EndSaved, OpenFails, FillFails, StoreFails,
         ForgetFails, Killed, HalfDone, history
    <3>2. CASE overlapped
      BY <3>1, <3>2 DEF SerialInv
    <3>3. CASE ~overlapped
      <4>1. CASE \/ Add(p) \/ AddFromExport(p) \/ Remove(p) \/ Use(p) \/ Auth(p)
                 \/ Connect(p) \/ GetLegacy(p) \/ Migrate(p)
        BY <3>3, <4>1, SerialAdd, SerialRemove, SerialUse, SerialAuth, SerialConnect
      <4>2. CASE ImportEntry(p) \/ ImportNext(p) \/ ImportDone(p)
        BY <3>3, <4>2, SerialImportEntry, SerialImportNext, SerialImportDone
      <4>3. CASE SaveOpen(p) \/ SaveFill(p)
        BY <3>3, <4>3, SerialSaveOpen, SerialSaveFill
      <4>4. CASE \/ StorePassword(p) \/ ForgetPassword(p) \/ ForgetLegacyPassword(p)
                 \/ EndSaved(p)
        BY <3>3, <4>4, SerialStorePassword, SerialForgetPassword, SerialEndSaved
      <4>5. CASE \/ OpenFails(p) \/ FillFails(p) \/ StoreFails(p)
                 \/ ForgetFails(p) \/ Killed(p)
        BY <3>3, <4>5, SerialOpenFails, SerialFillFails, SerialStoreFails,
           SerialForgetFails, SerialKilled
      <4> QED BY <1>1, <2>2, <4>1, <4>2, <4>3, <4>4, <4>5 DEF Step
    <3> QED BY <3>2, <3>3
  <2> QED BY <2>1, <2>2
<1>2. CASE UNCHANGED vars
  BY <1>2, SameFile DEF vars, SerialInv, Quiet, Idle, Running, Agree, View, Known, Told,
     Unreported, TakenBack, Added, Stage, Alone
<1> QED BY <1>1, <1>2 DEF Next

-----------------------------------------------------------------------------
(* Passwords, and the theorems.                                              *)

\* What a connection will store under the new name, or has still to read, is the
\* password of its device; a removal half-way has deleted the entry that counts.
PasswordOK(n) ==
    /\ secrets[n] = IF Removing(n) THEN ring[n] ELSE Password(n)
    /\ Reading(n) => ring[n] \in {None, oldRing[n]}
    /\ \A q \in Procs : At(q, "migrate") /\ proc[q].name = n =>
          oldRing[n] = proc[q].found /\ ring[n] \in {None, oldRing[n]}

PasswordInv == \A n \in Names \ (cut \cup stale) : PasswordOK(n)

LEMMA PasswordInit == Init => PasswordInv
BY DEF Init, PasswordInv, PasswordOK, Password, Removing, Reading, At, Running

LEMMA ProcTyped == TypeInv => proc \in [Procs -> {None} \cup Process]
BY DEF TypeInv, ProcOK

\* A step that changes nothing in the keyring, nor at whom it counts for n.
LEMMA SamePassword ==
    ASSUME TypeInv, NEW n \in Names, PasswordOK(n), NEW p \in Procs, NEW r,
           proc' = [proc EXCEPT ![p] = r],
           ring'[n] = ring[n], oldRing'[n] = oldRing[n], secrets'[n] = secrets[n],
           \/ r = None \/ r.pc \notin Halfway \/ r.name # n
           \/ r.pc = "fill" \/ (r.pc = "getold" /\ ring[n] = None),
           At(p, "forgetold") => proc[p].name # n
    PROVE  PasswordOK(n)'
<1>1. Removing(n)' <=> Removing(n)
  <2>1. ~(At(p, "forgetold")' /\ proc'[p].name = n)
    BY Turn, ProcTyped DEF At, Running, Halfway
  <2> QED BY <2>1, Turn, ProcTyped DEF At, Running, Removing
<1>2. Reading(n)' => Reading(n) \/ ring[n] = None
  BY Turn, ProcTyped DEF At, Running, Reading, Halfway
<1>3. \A q \in Procs : At(q, "migrate")' /\ proc'[q].name = n =>
          At(q, "migrate") /\ proc'[q] = proc[q]
  BY Turn, ProcTyped DEF At, Running, Halfway
<1> QED BY <1>1, <1>2, <1>3 DEF PasswordOK, Password

LEMMA PasswordStep == TypeInv /\ PasswordInv /\ [Next]_vars => PasswordInv'
<1> SUFFICES ASSUME TypeInv, PasswordInv, [Next]_vars PROVE PasswordInv'
  OBVIOUS
<1>1. /\ ring \in [Names -> Passwords \cup {None}]
      /\ oldRing \in [Names -> Passwords \cup {None}]
      /\ secrets \in [Names -> Passwords \cup {None}]
      /\ proc \in [Procs -> {None} \cup Process]
  BY DEF TypeInv, RingsOK, HistoryOK, ProcOK
<1>2. ASSUME NEW p \in Procs, NEW c \in Command, Start(p, c) PROVE PasswordInv'
  <2> DEFINE r == [cmd |-> c, cfg |-> Loaded, name |-> None, found |-> None, entry |-> 1,
                   pc |-> IF file = Missing THEN "open" ELSE "decide", then |-> "decide"]
  <2>1. UNCHANGED <<ring, oldRing, secrets, cut, stale>> /\ ~Running(p)
    BY <1>2 DEF Start, Idle, Running
  <2>2. PICK s : proc' = [proc EXCEPT ![p] = s] /\ (s = None \/ s.pc \notin Halfway)
    <3>1. CASE file = Garbled
      <4>1. proc' = [proc EXCEPT ![p] = None]
        BY <1>1, <1>2, <2>1, <3>1 DEF Start, Running
      <4> QED BY <4>1
    <3>2. CASE file # Garbled
      <4>1. proc' = [proc EXCEPT ![p] = r] /\ r.pc \in {"open", "decide"}
        BY <1>2, <3>2 DEF Start
      <4> HIDE DEF r
      <4> QED BY <4>1 DEF Halfway
    <3> QED BY <3>1, <3>2
  <2>3. ~At(p, "forgetold")
    BY <2>1 DEF At
  <2> QED BY <2>1, <2>2, <2>3, SamePassword DEF PasswordInv
<1>3. ASSUME NEW p \in Procs, Connect(p) PROVE PasswordInv'
  <2> DEFINE n == Resolve(proc[p].cfg, proc[p].cmd.query)
             r == [proc[p] EXCEPT !.name = n, !.pc = "getold"]
  <2>1. /\ UNCHANGED <<ring, oldRing, secrets, cut, stale>> /\ ~At(p, "forgetold")
        /\ proc[p] \in Process
    BY <1>1, <1>3 DEF Connect, At, Running, history
  <2>2. PICK s : /\ proc' = [proc EXCEPT ![p] = s]
                 /\ s = None \/ (s = r /\ ring[n] = None)
    <3>1. CASE n = None \/ ring[n] # None
      BY <1>1, <1>3, <3>1 DEF Connect
    <3>2. CASE ~(n = None \/ ring[n] # None)
      BY <1>1, <1>3, <3>2 DEF Connect
    <3> QED BY <3>1, <3>2
  <2>3. r.pc = "getold" /\ r.name = n
    BY <2>1 DEF Process
  <2>4. ASSUME NEW m \in Names, PasswordOK(m) PROVE PasswordOK(m)'
    <3>1. s = None \/ s.name # m \/ (s.pc = "getold" /\ ring[m] = None)
      <4> HIDE DEF r, n
      <4> QED BY <2>2, <2>3
    <3> HIDE DEF r, n
    <3> QED BY <2>1, <2>2, <2>4, <3>1, SamePassword
  <2> QED BY <2>1, <2>4 DEF PasswordInv
<1>4. ASSUME NEW p \in Procs, GetLegacy(p) PROVE PasswordInv'
  <2> DEFINE n == proc[p].name
             found == oldRing[n]
             r == [proc[p] EXCEPT !.found = found, !.pc = "migrate"]
  <2>1. /\ UNCHANGED <<ring, oldRing, secrets, cut, stale>> /\ At(p, "getold")
        /\ proc[p] \in Process /\ ~At(p, "forgetold") /\ ~At(p, "migrate")
    BY <1>1, <1>4 DEF GetLegacy, At, Running, history
  <2>2. CASE found = None
    <3>1. proc' = [proc EXCEPT ![p] = None]
      BY <1>1, <1>4, <2>2 DEF GetLegacy
    <3> QED BY <2>1, <3>1, SamePassword DEF PasswordInv
  <2>3. CASE found # None
    <3>1. proc' = [proc EXCEPT ![p] = r]
      BY <1>1, <1>4, <2>3 DEF GetLegacy
    <3>2. r.pc = "migrate" /\ r.name = n /\ r.found = found /\ r # None
      <4>1. Reading(n)
        BY <2>1, <2>3 DEF Reading
      <4>2. found \in Passwords
        <5>1. n \in Names
          BY <2>1, RunningRecord DEF TypeInv, Sound, At
        <5> QED BY <1>1, <2>3, <5>1
      <4>3. r \in Process
        BY <2>1, <4>2 DEF Process
      <4> QED BY <2>1, <4>3, ProcessAssumption DEF Process
    <3> HIDE DEF r
    <3>3. ASSUME NEW m \in Names, PasswordOK(m) PROVE PasswordOK(m)'
      <4>1. CASE m # n
        BY <2>1, <3>1, <3>2, <3>3, <4>1, SamePassword
      <4>2. CASE m = n
        <5>1. Reading(m)
          BY <4>2, <2>1, <2>3 DEF Reading
        <5>2. ring[m] \in {None, oldRing[m]}
          BY <3>3, <4>2, <5>1 DEF PasswordOK
        <5>3. Removing(m)' <=> Removing(m)
          BY <4>2, <2>1, <3>1, <3>2, Turn, ProcTyped DEF At, Running, Removing
        <5>4. \A q \in Procs : At(q, "migrate")' /\ proc'[q].name = m =>
                 oldRing[m] = proc'[q].found
          BY <2>1, <3>1, <3>2, <3>3, <4>2, Turn, ProcTyped DEF At, Running, PasswordOK
        <5> QED BY <2>1, <3>3, <4>2, <5>2, <5>3, <5>4 DEF PasswordOK, Password
      <4> QED BY <4>1, <4>2
    <3> QED BY <2>1, <3>3 DEF PasswordInv
  <2> QED BY <2>2, <2>3
<1>5. ASSUME NEW p \in Procs, Migrate(p) PROVE PasswordInv'
  <2> DEFINE n == proc[p].name
             found == proc[p].found
  <2>1. At(p, "migrate") /\ ~At(p, "forgetold") /\ proc' = [proc EXCEPT ![p] = None]
    BY <1>5 DEF Migrate, At, End
  <2>2. n \in Names /\ found \in Passwords
    BY <2>1, RunningRecord DEF TypeInv, Sound, At
  <2>3. /\ ring' = [ring EXCEPT ![n] = found] /\ UNCHANGED <<oldRing, secrets, cut>>
        /\ stale \subseteq stale' /\ (Removing(n) => n \in stale')
    BY <1>5 DEF Migrate, Store, Stale
  <2> HIDE DEF n, found
  <2>4. ASSUME NEW m \in Names \ (cut' \cup stale'), PasswordOK(m) PROVE PasswordOK(m)'
    <3>1. CASE m # n
      BY <1>1, <2>1, <2>3, <2>4, <3>1, SamePassword
    <3>2. CASE m = n
      <4>1. ~Removing(m) /\ ~Removing(m)'
        BY <2>1, <2>3, <2>4, <3>2, Turn, ProcTyped DEF At, Running, Removing
      <4>2. oldRing[m] = found /\ ring[m] \in {None, found}
        BY <2>1, <2>4, <3>2 DEF PasswordOK, n, found
      <4>3. secrets[m] = found
        BY <2>2, <2>4, <3>2, <4>1, <4>2, InventoryAssumption DEF PasswordOK, Password
      <4>4. ring'[m] = found /\ oldRing'[m] = found /\ secrets'[m] = found /\ found # None
        BY <3>2, <1>1, <2>2, <2>3, <4>2, <4>3, InventoryAssumption
      <4>5. \A q \in Procs : At(q, "migrate")' /\ proc'[q].name = m => proc'[q].found = found
        BY <2>1, <2>4, <3>2, <4>2, Turn, ProcTyped DEF At, Running, PasswordOK
      <4> QED BY <3>2, <4>1, <4>4, <4>5 DEF PasswordOK, Password
    <3> QED BY <3>1, <3>2
  <2> QED BY <2>3, <2>4 DEF PasswordInv
<1>6. ASSUME NEW p \in Procs, StorePassword(p) PROVE PasswordInv'
  <2> DEFINE n == proc[p].name
             pw == IF proc[p].cmd.verb = "import" THEN Book[proc[p].entry].password
                   ELSE proc[p].cmd.password
  <2>1. Running(p) /\ proc[p].pc = "store" /\ ~At(p, "forgetold")
    BY <1>6 DEF StorePassword, At
  <2>2. n \in Names /\ pw \in Passwords
    BY <2>1, RunningRecord, StoredPassword DEF TypeInv
  <2>3. /\ ring' = [ring EXCEPT ![n] = pw] /\ oldRing' = oldRing
        /\ secrets' = [secrets EXCEPT ![n] = pw] /\ cut' = cut
        /\ stale \subseteq stale' /\ (Migrating(n) \/ Reading(n) => n \in stale')
    BY <1>6 DEF StorePassword, Store, Stale
  <2>4. PICK r : proc' = [proc EXCEPT ![p] = r] /\ (r = None \/ r.pc \notin Halfway)
    BY <1>6, <2>1, StepResumes DEF Step, Resumes, SaveOpen, Connect, GetLegacy, ForgetPassword,
       ForgetFails, At
  <2> HIDE DEF n, pw
  <2>5. ASSUME NEW m \in Names \ (cut' \cup stale'), PasswordOK(m) PROVE PasswordOK(m)'
    <3>1. CASE m # n
      BY <1>1, <2>1, <2>3, <2>4, <2>5, <3>1, SamePassword
    <3>2. CASE m = n
      <4>1. ring'[m] = pw /\ secrets'[m] = pw /\ pw # None
        BY <3>2, <1>1, <2>2, <2>3, InventoryAssumption
      <4>2. ~Reading(m)'
        BY <2>3, <2>4, <2>5, <3>2, Turn, ProcTyped DEF At, Running, Reading, Halfway
      <4>3. \A q \in Procs : ~(At(q, "migrate")' /\ proc'[q].name = m)
        BY <2>3, <2>4, <2>5, <3>2, Turn, ProcTyped DEF At, Running, Migrating, Halfway
      <4> QED BY <3>2, <4>1, <4>2, <4>3 DEF PasswordOK, Password
    <3> QED BY <3>1, <3>2
  <2> QED BY <2>3, <2>5 DEF PasswordInv
<1>7. ASSUME NEW p \in Procs, ForgetPassword(p) PROVE PasswordInv'
  <2> DEFINE n == proc[p].name
             r == [proc[p] EXCEPT !.pc = "forgetold"]
  <2>1. At(p, "forget") /\ proc[p] \in Process /\ ~At(p, "forgetold")
    BY <1>1, <1>7 DEF ForgetPassword, At, Running
  <2>2. proc' = [proc EXCEPT ![p] = r]
    BY <1>1, <1>7 DEF ForgetPassword, Go
  <2>3. /\ r.pc = "forgetold" /\ r.name = n /\ r \in Process /\ r # None
    BY <2>1, ProcessAssumption DEF Process
  <2>4. /\ ring' = [ring EXCEPT ![n] = None] /\ oldRing' = oldRing
        /\ secrets' = [secrets EXCEPT ![n] = None] /\ UNCHANGED <<cut, stale>>
    BY <1>7 DEF ForgetPassword, ForgetNew
  <2> HIDE DEF n, r
  <2>5. ASSUME NEW m \in Names, PasswordOK(m) PROVE PasswordOK(m)'
    <3>1. CASE m # n
      BY <1>1, <2>1, <2>2, <2>3, <2>4, <2>5, <3>1, SamePassword
    <3>2. CASE m = n
      <4>1. ring'[m] = None /\ secrets'[m] = None
        BY <1>1, <2>4, <3>2
      <4>2. Removing(m)'
        BY <3>2, <2>2, <2>3, Turn, ProcTyped DEF At, Running, Removing
      <4>3. \A q \in Procs : At(q, "migrate")' /\ proc'[q].name = m => oldRing[m] = proc'[q].found
        BY <2>2, <2>3, <2>5, <3>2, Turn, ProcTyped DEF At, Running, PasswordOK
      <4> QED BY <2>4, <3>2, <4>1, <4>2, <4>3 DEF PasswordOK
    <3> QED BY <3>1, <3>2
  <2> QED BY <2>4, <2>5 DEF PasswordInv
<1>8. ASSUME NEW p \in Procs, ForgetLegacyPassword(p) PROVE PasswordInv'
  <2> DEFINE n == proc[p].name
  <2>1. At(p, "forgetold") /\ proc' = [proc EXCEPT ![p] = None]
    BY <1>8 DEF ForgetLegacyPassword, End
  <2>2. /\ oldRing' = [oldRing EXCEPT ![n] = None] /\ UNCHANGED <<ring, secrets, cut>>
        /\ stale \subseteq stale' /\ (Migrating(n) => n \in stale')
    BY <1>8 DEF ForgetLegacyPassword, ForgetLegacy, Stale
  <2>3. ASSUME NEW m \in Names \ (cut' \cup stale'), PasswordOK(m) PROVE PasswordOK(m)'
    <3>1. CASE m # n
      <4> HIDE DEF n
      <4> QED BY <1>1, <2>1, <2>2, <2>3, <3>1, SamePassword DEF n
    <3>2. CASE m = n
      <4>1. Removing(m)
        BY <3>2, <2>1 DEF Removing
      <4>2. secrets[m] = ring[m]
        BY <2>3, <3>2, <4>1 DEF PasswordOK
      <4>3. \A q \in Procs : ~(At(q, "migrate")' /\ proc'[q].name = m)
        BY <2>1, <2>2, <2>3, <3>2, Turn, ProcTyped DEF At, Running, Migrating
      <4> HIDE DEF n
      <4>4. oldRing'[m] = None
        BY <1>1, <2>2, <3>2
      <4>5. ~Reading(m)'
        BY <3>2, <4>4 DEF Reading
      <4> QED BY <2>2, <3>2, <4>2, <4>3, <4>4, <4>5 DEF PasswordOK, Password
    <3> QED BY <3>1, <3>2
  <2> QED BY <2>2, <2>3 DEF PasswordInv
<1>9. ASSUME NEW p \in Procs, ForgetFails(p) \/ Killed(p) PROVE PasswordInv'
  <2> DEFINE r == [proc[p] EXCEPT !.pc = "forgetold"]
  <2>1. /\ UNCHANGED <<ring, oldRing, secrets, stale>> /\ cut \subseteq cut'
        /\ At(p, "forgetold") => proc[p].name \in cut'
    BY <1>9 DEF ForgetFails, Killed, HalfDone, At
  <2>2. \/ proc' = [proc EXCEPT ![p] = None]
        \/ proc' = [proc EXCEPT ![p] = r] /\ proc[p].name \in cut' /\ proc[p] \in Process
    BY <1>1, <1>9 DEF ForgetFails, Killed, HalfDone, Go, End, At, Running
  <2>3. PICK s : proc' = [proc EXCEPT ![p] = s] /\ (s = None \/ s.name \in cut')
    <3>1. CASE proc' = [proc EXCEPT ![p] = None]
      BY <3>1
    <3>2. CASE proc' = [proc EXCEPT ![p] = r] /\ proc[p].name \in cut' /\ proc[p] \in Process
      <4>1. r.name = proc[p].name
        BY <3>2 DEF Process
      <4> HIDE DEF r
      <4> QED BY <3>2, <4>1
    <3> QED BY <2>2, <3>1, <3>2
  <2>4. ASSUME NEW m \in Names \ (cut' \cup stale'), PasswordOK(m) PROVE PasswordOK(m)'
    BY <2>1, <2>3, <2>4, SamePassword
  <2> QED BY <2>1, <2>4 DEF PasswordInv
<1>10. ASSUME NEW p \in Procs,
              \/ Add(p) \/ AddFromExport(p) \/ Remove(p) \/ Use(p) \/ Auth(p)
              \/ ImportEntry(p) \/ ImportNext(p) \/ ImportDone(p)
              \/ SaveFill(p) \/ EndSaved(p) \/ OpenFails(p) \/ FillFails(p) \/ StoreFails(p)
       PROVE  PasswordInv'
  <2>1. UNCHANGED <<ring, oldRing, secrets, stale>> /\ cut \subseteq cut'
    BY <1>10 DEF Add, AddFromExport, Remove, Use, Auth, ImportEntry, ImportNext, ImportDone,
       SaveFill, EndSaved, OpenFails, FillFails, StoreFails, HalfDone, history
  <2>2. /\ Running(p)
        /\ proc[p].pc \in {"decide", "next", "open", "fill", "store", "end"}
    BY <1>10 DEF Add, AddFromExport, Remove, Use, Auth, ImportEntry, ImportNext, ImportDone,
       SaveFill, EndSaved, OpenFails, FillFails, StoreFails, At
  <2>3. CASE ~SaveOpen(p) /\ ~Connect(p) /\ ~GetLegacy(p) /\ ~ForgetPassword(p) /\ ~ForgetFails(p)
    <3>1. PICK r : proc' = [proc EXCEPT ![p] = r] /\ (r = None \/ r.pc \notin Halfway)
      BY <1>10, <2>2, <2>3, StepResumes DEF Step, Resumes
    <3> QED BY <2>1, <2>2, <3>1, SamePassword DEF PasswordInv, At
  <2>4. CASE Connect(p)
    BY <1>3, <2>4
  <2>5. ~GetLegacy(p) /\ ~ForgetPassword(p) /\ ~ForgetFails(p)
    BY <2>2 DEF GetLegacy, ForgetPassword, ForgetFails, At
  <2>6. CASE SaveOpen(p)
    <3>1. [proc[p] EXCEPT !.pc = "fill"].pc = "fill" /\ proc' = [proc EXCEPT ![p] = [proc[p] EXCEPT !.pc = "fill"]]
      BY <1>1, <2>2, <2>6 DEF SaveOpen, Go, Process, Running
    <3> QED BY <2>1, <2>2, <3>1, SamePassword DEF PasswordInv, At
  <2> QED BY <2>3, <2>4, <2>5, <2>6
<1>11. ASSUME NEW p \in Procs, SaveOpen(p) PROVE PasswordInv'
  <2>1. UNCHANGED <<ring, oldRing, secrets, cut, stale>> /\ ~At(p, "forgetold") /\ Running(p)
    BY <1>11 DEF SaveOpen, At, history
  <2> DEFINE r == [proc[p] EXCEPT !.pc = "fill"]
  <2>2. proc' = [proc EXCEPT ![p] = r] /\ r.pc = "fill"
    BY <1>1, <1>11, <2>1 DEF SaveOpen, Go, Process, Running
  <2> HIDE DEF r
  <2> QED BY <2>1, <2>2, SamePassword DEF PasswordInv
<1>12. CASE UNCHANGED vars
  BY <1>12 DEF vars, PasswordInv, PasswordOK, Password, Removing, Reading, At, Running
<1> QED BY <1>2, <1>3, <1>4, <1>5, <1>6, <1>7, <1>8, <1>9, <1>10, <1>11, <1>12 DEF Next, Step

IInv == TypeInv /\ IntactInv /\ SerialInv /\ PasswordInv

LEMMA Invariant == Spec => []IInv
<1>1. Init => IInv
  BY TypeInit, IntactInit, SerialInit, PasswordInit DEF IInv
<1>2. IInv /\ [Next]_vars => IInv'
  BY TypeStep, IntactStep, SerialStep, PasswordStep DEF IInv
<1> QED BY <1>1, <1>2, PTL DEF Spec

\* Between commands that do not overlap, config.toml holds exactly what they
\* reported, whatever failed or was killed at whichever system call, except for the
\* device a command was cut short on.  (newDeviceAddCmd, Inventory.Add, Config.Save.)
THEOREM InventoryReported == Spec => []InventoryAsReported
<1>1. IInv => InventoryAsReported
  BY DEF IInv, SerialInv, InventoryAsReported, Agree, View
<1> QED BY <1>1, Invariant, PTL

\* The password a connection would use is the one last stored for the device, and none
\* for a device that was removed, for every name but those a command was cut short on
\* and those whose migration from routeros-cli met a set or a removal.
\* (KeyringStore.Get, Set and Delete, newDeviceRemoveCmd.)
THEOREM PasswordsReported == Spec => []PasswordsAsReported
<1>1. IInv => PasswordsAsReported
  BY DEF IInv, PasswordInv, PasswordOK, PasswordsAsReported
<1> QED BY <1>1, Invariant, PTL

\* An import without --force changes no device that is there, for every address
\* book, also with entries of one name.  (runWinboxImport.)
THEOREM ImportKeeps == Spec => ImportKeepsDevices
<1> DEFINE Keeps(p) ==
        SaveFill(p) /\ proc[p].cmd.verb = "import" /\ ~proc[p].cmd.force /\ ~overlapped
        => \A n \in Names \ cut :
              devices[n] # None => n \in Known(file') /\ file'.devs[n] = devices[n]
<1>1. ASSUME IInv, NEW p \in Procs PROVE Keeps(p)
  <2> SUFFICES ASSUME SaveFill(p), proc[p].cmd.verb = "import", ~proc[p].cmd.force,
                      ~overlapped, NEW n \in Names \ cut, devices[n] # None
               PROVE  n \in Known(file') /\ file'.devs[n] = devices[n]
    OBVIOUS
  <2>1. Running(p) /\ proc[p].pc = "fill" /\ file' = proc[p].cfg
    BY <1>1 DEF SaveFill, At, IInv, IntactInv
  <2>2. Told(proc[p])
    BY <1>1, <2>1, Serial DEF IInv
  <2>3. n \notin Unreported(proc[p])
    BY <2>2 DEF Told, Unreported, Added
  <2>4. devices[n] = View(proc[p].cfg, n)
    BY <2>2, <2>3 DEF Told, Agree
  <2> QED BY <2>1, <2>4 DEF View
<1>2. IInv => [\A p \in Procs : Keeps(p)]_vars
  BY <1>1
<1> QED BY <1>2, Invariant, PTL DEF ImportKeepsDevices
=============================================================================
