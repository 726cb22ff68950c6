------------------------------- MODULE Gates -------------------------------
(***************************************************************************)
(* What must hold before a write is let through: App.enforceGuardrails of   *)
(* cmd/root.go and the checks of internal/guardrails it calls, in their      *)
(* order, over the state they read: the wall clock, the maintenance windows  *)
(* of the device, its safe session, and the file in which `ros doctor'       *)
(* leaves the time of its last success.  Files are named after the device,   *)
(* outlive it unless `device remove' deletes them, and two names may share    *)
(* one.  Module SessionStore has the session files in detail; here a session *)
(* is begun, written to and ended in one step.                               *)
(*                                                                          *)
(* Time is counted in minutes from the start of a week.  A day has DayLength *)
(* of them, an hour HourLength, and a week WeekLength days, the first of     *)
(* them Sunday.                                                             *)
(***************************************************************************)
EXTENDS Integers, FiniteSets, Sequences

CONSTANTS
    Devices,      \* names an inventory entry may have
    Keys,         \* file names
    Key,          \* [Devices -> Keys]: sanitizeStateDevice, sanitize
    DeviceConfig, \* [Devices -> device options of config.toml]
    Paths,        \* API paths of the writes, as sequences of words
    BuiltinDeniedPrefixes,
    Options,      \* how an invocation is made, see Invocation below
    MaxAge,       \* DefaultDoctorMaxAge
    DefaultCap,   \* DefaultMaxSessionChangesProd
    HourLength, DayLength, WeekLength,
    Horizon,      \* bound on the clock
    MaxLives,     \* bound on how often a device is added
    MaxWrites,    \* bound on the writes of a session
    Torn,         \* an empty file, or half of one
    None          \* no file, no session, no window, no hint

VARIABLES
    now,      \* the clock
    doctor,   \* [Keys -> None, Torn or the stamp of a success]
    sess,     \* [Keys -> None or the active session]
    known,    \* the devices in the inventory
    lives,    \* history: how often each device was added
    kept      \* history: keys whose files a `device remove' failed to delete

vars == <<now, doctor, sess, known, lives, kept>>

\* An invocation: the profile of ROS_PROFILE, ROS_STRICT, read-only, break-glass
\* (--force, --skip-doctor-gate) and the two ROS_SKIP_* variables.
Profiles == {"operator", "agent", "agent-strict"}

Invocation ==
    [profile : Profiles, strict : BOOLEAN, readOnly : BOOLEAN,
     force : BOOLEAN, skipDoctor : BOOLEAN, skipWindow : BOOLEAN]

GatesAssumption ==
    /\ Key \in [Devices -> Keys]
    /\ MaxAge \in Nat /\ DefaultCap \in Nat \ {0}
    /\ HourLength \in Nat \ {0} /\ DayLength \in Nat \ {0} /\ WeekLength \in Nat \ {0}
    /\ Horizon \in Nat /\ MaxLives \in Nat /\ MaxWrites \in Nat
    /\ None # Torn /\ None \notin Int
    /\ \A d \in Devices : DeviceConfig[d].cap \in Int
    /\ Options \subseteq Invocation

ASSUME GatesAssumption

Opt(d) == DeviceConfig[d]

-----------------------------------------------------------------------------
(* Maintenance windows.                                                     *)
(*                                                                          *)
(* A spec of config.toml is a weekly one, with day tokens and two clock      *)
(* times, or an absolute one, with two instants.                            *)

\* What config.toml can hold: instants, or day tokens and clock times, which need
\* not be times of a day.
AbsoluteSpecs == [kind : {"absolute"}, start : Int, end : Int]
DayTokens == [from : 0 .. WeekLength - 1, to : 0 .. WeekLength - 1]
ClockTimes == [h : Int, m : Int]
IsWeekly(spec) ==
    /\ spec.kind = "weekly"
    /\ \A tok \in spec.days : tok \in DayTokens
    /\ spec.start \in ClockTimes /\ spec.end \in ClockTimes

WindowsAssumption ==
    \A d \in Devices : \A spec \in Opt(d).windows : spec \in AbsoluteSpecs \/ IsWeekly(spec)

ASSUME WindowsAssumption

\* parseHHMM: minutes since midnight, or None.
HHMM(t) ==
    IF t.h \in 0 .. (DayLength \div HourLength) - 1 /\ t.m \in 0 .. HourLength - 1
    THEN t.h * HourLength + t.m ELSE None

\* One token of parseWeekdays, a day or a range that may pass the end of the week.
TokenDays(tok) ==
    {(tok.from + i) % WeekLength : i \in 0 .. (tok.to - tok.from) % WeekLength}

Invalid == [kind |-> "invalid"]

ParseAbsolute(spec) == IF spec.end > spec.start THEN spec ELSE Invalid

\* Both ways to write a weekly window.
ParseWeekly(spec) ==
    LET days == UNION {TokenDays(tok) : tok \in spec.days}
        start == HHMM(spec.start)
        end == HHMM(spec.end)
    IN IF days = {} \/ None \in {start, end} THEN Invalid
       ELSE [kind |-> "weekly", days |-> days, start |-> start, end |-> end]

\* ParseMaintenanceWindow.
Parse(spec) ==
    IF spec.kind = "absolute" THEN ParseAbsolute(spec) ELSE ParseWeekly(spec)

Day(t) == (t \div DayLength) % WeekLength
Minute(t) == t % DayLength

PrevDay(d) == IF d = 0 THEN WeekLength - 1 ELSE d - 1

\* Mutant: the morning of a night shift is looked for on the listed day.
WeeklyContainsSameDay(w, t) ==
    IF w.start = w.end THEN Day(t) \in w.days
    ELSE IF w.end > w.start
         THEN Day(t) \in w.days /\ Minute(t) >= w.start /\ Minute(t) <= w.end
         ELSE Day(t) \in w.days /\ (Minute(t) >= w.start \/ Minute(t) <= w.end)

WeeklyContains(w, t) ==
    IF w.start = w.end THEN Day(t) \in w.days
    ELSE IF w.end > w.start
         THEN Day(t) \in w.days /\ Minute(t) >= w.start /\ Minute(t) <= w.end
         ELSE \/ Day(t) \in w.days /\ Minute(t) >= w.start
              \/ PrevDay(Day(t)) \in w.days /\ Minute(t) <= w.end

AbsoluteContains(w, t) == t >= w.start /\ t < w.end

Contains(w, t) ==
    IF w.kind = "absolute" THEN AbsoluteContains(w, t) ELSE WeeklyContains(w, t)

\* Mutant: the same day next week is not looked at.
UpcomingThisWeek(w, t) ==
    {s \in {(t \div DayLength + i) * DayLength + w.start : i \in 0 .. WeekLength - 1} :
        Day(s) \in w.days /\ s > t}

\* The starts a weekly window looks at: today's if it is ahead, and those of
\* the next WeekLength days.
Upcoming(w, t) ==
    {s \in {(t \div DayLength + i) * DayLength + w.start : i \in 0 .. WeekLength} :
        Day(s) \in w.days /\ s > t}

Earliest(ts) == IF ts = {} THEN None ELSE CHOOSE t \in ts : \A u \in ts : t <= u

AbsoluteNextStart(w, t) == IF t < w.start THEN w.start ELSE None

NextStart(w, t) ==
    IF w.kind = "absolute" THEN AbsoluteNextStart(w, t) ELSE Earliest(Upcoming(w, t))

\* nextWindowHint: the earliest of the next starts.
Hint(windows, t) == Earliest({NextStart(w, t) : w \in windows} \ {None})

Windows == [d \in Devices |-> {Parse(spec) : spec \in Opt(d).windows}]

\* CheckMaintenanceWindow: one spec that does not parse refuses every write.
InWindow(d, t) ==
    \/ Windows[d] = {}
    \/ Invalid \notin Windows[d] /\ \E w \in Windows[d] : Contains(w, t)

-----------------------------------------------------------------------------
(* The other gates. *)

EnvClass(d, strict) == IF strict THEN "prod" ELSE Opt(d).env

EffectiveStrict(o) == o.strict \/ o.profile = "agent-strict"

Env(d, o) == EnvClass(d, EffectiveStrict(o))

ProfileNeedsSession(o) == o.profile \in {"agent", "agent-strict"}

NeedsSession(d, o) == ProfileNeedsSession(o) \/ Env(d, o) \in {"prod", "staging"}

\* Mutant: production devices forgotten.
NeedsBackupIfAsked(d, env) == Opt(d).requireBackup

NeedsBackup(d, env) == Opt(d).requireBackup \/ env = "prod"

\* EffectiveMaxSessionChanges; 0 is no limit.
Cap(d, env) ==
    IF Opt(d).cap > 0 THEN Opt(d).cap ELSE IF env = "prod" THEN DefaultCap ELSE 0

\* Mutant: one change too many.
WithinCapAndOne(n, cap) == cap = 0 \/ n <= cap

WithinCap(n, cap) == cap = 0 \/ n < cap

Under(path, prefixes) ==
    \E p \in prefixes : Len(p) <= Len(path) /\ SubSeq(path, 1, Len(p)) = p

\* CheckWritePath.  An allowlist that holds only blanks allows nothing.
PathAllowed(d, path) ==
    /\ path # <<>>
    /\ ~Under(path, BuiltinDeniedPrefixes \cup Opt(d).denied)
    /\ Opt(d).allowed # None => Under(path, Opt(d).allowed)

HasSafe(d) == sess[Key[d]] # None /\ sess[Key[d]].safe

Stamped(k) == doctor[k] \notin {None, Torn}

\* doctorStale.  A stamp from the future is never stale.
DoctorStale(d) == ~Stamped(Key[d]) \/ now - doctor[Key[d]].at > MaxAge

\* CheckDoctorGate and EvaluateDoctorGate; staging only warns.
DoctorRefuses(d, o) ==
    Env(d, o) = "prod" /\ DoctorStale(d) /\ ~(o.force \/ o.skipDoctor)

\* ensureWritableForce and enforceGuardrails: the first check that refuses.
Gate(d, path, o) ==
    IF o.readOnly THEN "read_only"
    ELSE IF NeedsSession(d, o) /\ ~HasSafe(d) THEN "session"
    ELSE IF HasSafe(d) /\ ~WithinCap(sess[Key[d]].changes, Cap(d, Env(d, o))) THEN "max_changes"
    ELSE IF ~PathAllowed(d, path) THEN "path"
    ELSE IF ~(o.force \/ o.skipWindow \/ InWindow(d, now)) THEN "maintenance"
    ELSE IF DoctorRefuses(d, o) THEN "doctor"
    ELSE "ok"

-----------------------------------------------------------------------------
(* The operations. *)

Init ==
    /\ now = 0
    /\ doctor = [k \in Keys |-> None]
    /\ sess = [k \in Keys |-> None]
    /\ known = {}
    /\ lives = [d \in Devices |-> 0]
    /\ kept = {}

Tick ==
    /\ now < Horizon
    /\ now' = now + 1
    /\ UNCHANGED <<doctor, sess, known, lives, kept>>

\* The clock of the workstation is corrected.
SetBack ==
    /\ now > 0
    /\ now' = now - 1
    /\ UNCHANGED <<doctor, sess, known, lives, kept>>

AddDevice(d) ==
    /\ d \notin known /\ lives[d] < MaxLives
    /\ known' = known \cup {d}
    /\ lives' = [lives EXCEPT ![d] = @ + 1]
    /\ UNCHANGED <<now, doctor, sess, kept>>

\* Mutant: the doctor state of a removed device stays.
RemoveDeviceKeepsState(d, force, doctorGone, sessGone) ==
    /\ d \in known
    /\ force \/ sess[Key[d]] = None
    /\ known' = known \ {d}
    /\ sess' = IF sessGone THEN [sess EXCEPT ![Key[d]] = None] ELSE sess
    /\ kept' = IF sessGone THEN kept ELSE kept \cup {Key[d]}
    /\ UNCHANGED <<now, lives, doctor>>

\* device remove: refused while a session is active, unless --force.  The state
\* files go after the entry, best effort: doctorGone and sessGone say which did.
RemoveDevice(d, force, doctorGone, sessGone) ==
    /\ d \in known
    /\ force \/ sess[Key[d]] = None
    /\ known' = known \ {d}
    /\ doctor' = IF doctorGone THEN [doctor EXCEPT ![Key[d]] = None] ELSE doctor
    /\ sess' = IF sessGone THEN [sess EXCEPT ![Key[d]] = None] ELSE sess
    /\ kept' = IF doctorGone /\ sessGone THEN kept ELSE kept \cup {Key[d]}
    /\ UNCHANGED <<now, lives>>

\* The sections of a hygiene audit, of which two stand for the rest: one that
\* cannot be read fails the audit unless it is optional.
MandatorySections == {"services"}
OptionalSections == {"netwatch"}

Collected(unreadable) == unreadable \cap MandatorySections = {}

\* ros doctor, or audit --profile hygiene: what the sections say does not matter.

Doctor(d, unreadable) ==
    /\ d \in known
    /\ Collected(unreadable)
    /\ doctor' = [doctor EXCEPT ![Key[d]] = [at |-> now, by |-> d, life |-> lives[d]]]
    /\ UNCHANGED <<now, sess, known, lives, kept>>

\* RecordDoctorAt dies, or fails, between the truncation and the write.
DoctorTorn(d) ==
    /\ d \in known
    /\ doctor' = [doctor EXCEPT ![Key[d]] = Torn]
    /\ UNCHANGED <<now, sess, known, lives, kept>>

\* session begin: a backup first where one is required, or --force-no-backup.
BeginSession(d, safe, noBackup, strict) ==
    /\ d \in known
    /\ sess[Key[d]] = None
    /\ sess' = [sess EXCEPT ![Key[d]] =
                  [safe |-> safe, by |-> d, life |-> lives[d], changes |-> 0,
                   backup |-> safe /\ ~noBackup /\ NeedsBackup(d, EnvClass(d, strict)),
                   noted |-> safe /\ noBackup /\ NeedsBackup(d, EnvClass(d, strict))]]
    /\ UNCHANGED <<now, doctor, known, lives, kept>>

\* session commit or rollback.
EndSession(d) ==
    /\ d \in known
    /\ sess[Key[d]] # None
    /\ sess' = [sess EXCEPT ![Key[d]] = None]
    /\ UNCHANGED <<now, doctor, known, lives, kept>>

\* A write that is let through, and journaled if the session is a safe one.
\* recordSafeChange checks cap and path again.
Write(d, path, o) ==
    /\ d \in known
    /\ Gate(d, path, o) = "ok"
    /\ HasSafe(d)
    /\ sess[Key[d]].changes < MaxWrites
    /\ sess' = [sess EXCEPT ![Key[d]].changes = @ + 1]
    /\ UNCHANGED <<now, doctor, known, lives, kept>>

Next ==
    \/ Tick
    \/ SetBack
    \/ \E d \in Devices :
        \/ AddDevice(d)
        \/ \E force, doctorGone, sessGone \in BOOLEAN :
              RemoveDevice(d, force, doctorGone, sessGone)
        \/ \E unreadable \in SUBSET (MandatorySections \cup OptionalSections) :
              Doctor(d, unreadable)
        \/ DoctorTorn(d)
        \/ \E safe, noBackup, strict \in BOOLEAN : BeginSession(d, safe, noBackup, strict)
        \/ EndSession(d)
        \/ \E path \in Paths, o \in Options : Write(d, path, o)

Spec == Init /\ [][Next]_vars

-----------------------------------------------------------------------------
(* Properties. *)

\* No other device has ever used the files of d.
Alone(d) == \A e \in Devices \ {d} : Key[e] = Key[d] => lives[e] = 0

\* The variables keep their types, and a session is within max_session_changes
\* of its device, whatever the environment of its writes was.
GatesTypeOK ==
    /\ now \in 0 .. Horizon
    /\ doctor \in [Keys -> {None, Torn} \cup
                      [at : 0 .. Horizon, by : Devices, life : 0 .. MaxLives]]
    /\ sess \in [Keys -> {None} \cup
                    [safe : BOOLEAN, by : Devices, life : 0 .. MaxLives,
                     changes : 0 .. MaxWrites, backup : BOOLEAN, noted : BOOLEAN]]
    /\ known \subseteq Devices
    /\ lives \in [Devices -> 0 .. MaxLives]
    /\ kept \subseteq Keys
    /\ \A d \in known :
          Alone(d) /\ HasSafe(d) /\ Opt(d).cap > 0 => sess[Key[d]].changes <= Opt(d).cap

NoBreakGlass(o) == ~o.force /\ ~o.skipDoctor

\* A production write let through without break-glass was vouched for by a
\* doctor run on this device, since it was last added, and not longer ago than
\* MaxAge by the clock -- unless another device shares its state file or
\* `device remove' failed to delete it.  (doctor.go, RemoveDoctorState.)
OwnDoctor ==
    \A d \in known, path \in Paths, o \in Options :
        /\ Alone(d) /\ Key[d] \notin kept
        /\ Env(d, o) = "prod" /\ NoBreakGlass(o)
        /\ Gate(d, path, o) = "ok"
        => /\ Stamped(Key[d])
           /\ doctor[Key[d]].by = d
           /\ doctor[Key[d]].life = lives[d]
           /\ now <= doctor[Key[d]].at + MaxAge

\* A write let through on a device of class prod is journaled in a safe session
\* of this device, begun since it was last added, that a backup or a note in
\* the session precedes -- whatever profile the write runs under, and with the
\* same exceptions.  (cmd/session.go, runSessionBegin.)
OwnSession ==
    \A d \in known, path \in Paths, o \in Options :
        /\ Alone(d) /\ Key[d] \notin kept
        /\ Opt(d).env = "prod"
        /\ Gate(d, path, o) = "ok"
        => /\ HasSafe(d)
           /\ sess[Key[d]].by = d
           /\ sess[Key[d]].life = lives[d]
           /\ sess[Key[d]].backup \/ sess[Key[d]].noted

AllWindows == (UNION {Windows[d] : d \in Devices}) \ {Invalid}

\* Reference: a weekly window is one interval per listed day, closed at both
\* ends, that may run past midnight and past the end of the week; equal times
\* are the whole day.
WindowIsInterval ==
    \A w \in AllWindows : w.kind = "weekly" =>
        LET from(d) == IF w.start = w.end THEN d * DayLength ELSE d * DayLength + w.start
            length == IF w.start = w.end THEN DayLength - 1
                      ELSE (w.end - w.start) % DayLength
        IN Contains(w, now)
           <=> \E d \in w.days : (now - from(d)) % (DayLength * WeekLength) <= length

WindowSets == {Windows[d] : d \in Devices} \cup {{w} : w \in AllWindows}

Open(windows, t) == \E w \in windows : Contains(w, t)

\* The hint of a refusal is the next moment at which some window is open, and
\* there is none only if no window opens any more.  A whole-day window that is
\* written with a time other than midnight is hinted at too late.
HintIsNext ==
    \A ws \in WindowSets :
        LET hint == Hint(ws, now)
            soon == now .. (now + DayLength * (WeekLength + 1))
        IN /\ ws # {} /\ Invalid \notin ws /\ ~Open(ws, now)
           /\ \A w \in ws : w.start # w.end
           => IF hint = None THEN \A t \in soon : ~Open(ws, t)
              ELSE Open(ws, hint) /\ \A t \in now .. hint - 1 : ~Open(ws, t)
=============================================================================
