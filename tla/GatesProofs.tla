---------------------------- MODULE GatesProofs ----------------------------
(* Proofs about Gates, for every value of its constants.                   *)
EXTENDS Gates, WellFoundedInduction, TLAPS

Stamp == [at : 0 .. Horizon, by : Devices, life : 0 .. MaxLives]

SessionState ==
    [safe : BOOLEAN, by : Devices, life : 0 .. MaxLives,
     changes : 0 .. MaxWrites, backup : BOOLEAN, noted : BOOLEAN]

(***************************************************************************)
(* The inductive invariant.  A name may be removed and added again, and a    *)
(* file may outlive it: so the claims are made of every device, not only of  *)
(* those in the inventory, and they name who wrote the file and in which of  *)
(* its lives.                                                               *)
(***************************************************************************)

Typed ==
    /\ now \in 0 .. Horizon
    /\ doctor \in [Keys -> {None, Torn} \cup Stamp]
    /\ sess \in [Keys -> {None} \cup SessionState]
    /\ known \subseteq Devices
    /\ lives \in [Devices -> 0 .. MaxLives]
    /\ kept \subseteq Keys

\* What is in the inventory was added.
Lived == \A d \in known : lives[d] > 0

\* The session of a device that has its file to itself is within its cap.
Capped(d) ==
    Alone(d) /\ HasSafe(d) /\ Opt(d).cap > 0 => sess[Key[d]].changes <= Opt(d).cap

\* A doctor stamp under the name of such a device is its own, and, if removals did
\* their work, of the life it is in.
OwnStamp(d) ==
    Alone(d) /\ Stamped(Key[d]) =>
        /\ doctor[Key[d]].by = d
        /\ Key[d] \notin kept => d \in known /\ doctor[Key[d]].life = lives[d]

\* So is its session, which a backup or a note precedes if it is safe and the
\* device is of class prod.
OwnFile(d) ==
    Alone(d) /\ sess[Key[d]] # None =>
        /\ sess[Key[d]].by = d
        /\ sess[Key[d]].safe /\ Opt(d).env = "prod"
              => sess[Key[d]].backup \/ sess[Key[d]].noted
        /\ Key[d] \notin kept => d \in known /\ sess[Key[d]].life = lives[d]

IInv ==
    /\ Typed
    /\ Lived
    /\ \A d \in Devices : Capped(d)
    /\ \A d \in Devices : OwnStamp(d)
    /\ \A d \in Devices : OwnFile(d)

-----------------------------------------------------------------------------

\* Whoever has a file to itself shares it with no device of the inventory.
LEMMA OnlyUser ==
    ASSUME Lived, NEW d \in Devices, NEW e \in known, known \subseteq Devices,
           Alone(d), Key[e] = Key[d]
    PROVE  e = d
BY DEF Lived, Alone

LEMMA InitIInv == ASSUME Init PROVE IInv
<1>1. Typed
  BY GatesAssumption DEF Init, Typed, GatesAssumption
<1>2. Lived
  BY DEF Init, Lived
<1>3. ASSUME NEW d \in Devices PROVE Capped(d) /\ OwnStamp(d) /\ OwnFile(d)
  <2>1. Key[d] \in Keys
    BY GatesAssumption DEF GatesAssumption
  <2>2. doctor[Key[d]] = None /\ sess[Key[d]] = None
    BY <2>1 DEF Init
  <2> QED BY <2>2 DEF Capped, OwnStamp, OwnFile, HasSafe, Stamped
<1> QED BY <1>1, <1>2, <1>3 DEF IInv

\* A step that leaves the files and the inventory as they are keeps all but the type.
LEMMA ClockStep ==
    ASSUME IInv, now' \in 0 .. Horizon, UNCHANGED <<doctor, sess, known, lives, kept>>
    PROVE  IInv'
<1>1. Typed'
  BY DEF IInv, Typed
<1>2. Lived'
  BY DEF IInv, Lived
<1>3. ASSUME NEW d \in Devices PROVE Capped(d)' /\ OwnStamp(d)' /\ OwnFile(d)'
  BY DEF IInv, Capped, OwnStamp, OwnFile, Alone, HasSafe, Stamped, Opt
<1> QED BY <1>1, <1>2, <1>3 DEF IInv

LEMMA AddDeviceStep ==
    ASSUME IInv, NEW e \in Devices, AddDevice(e)
    PROVE  IInv'
<1>0. Typed /\ Lived /\ lives[e] \in Nat /\ MaxLives \in Nat
  BY GatesAssumption DEF IInv, Typed, GatesAssumption
<1>1. Typed'
  BY <1>0 DEF AddDevice, Typed
<1>2. Lived'
  BY <1>0 DEF AddDevice, Lived, Typed
<1>3. ASSUME NEW d \in Devices PROVE Capped(d)' /\ OwnStamp(d)' /\ OwnFile(d)'
  <2>1. Capped(d) /\ OwnStamp(d) /\ OwnFile(d)
    BY DEF IInv
  <2>2. Alone(d)' => Alone(d) /\ (Key[e] = Key[d] => e = d)
    BY <1>0 DEF Alone, AddDevice, Typed
  <2>3. d # e => lives'[d] = lives[d] /\ (d \in known' <=> d \in known)
    BY <1>0 DEF AddDevice, Typed
  <2>4. UNCHANGED <<doctor, sess, kept>> /\ known \subseteq known' /\ e \notin known
    BY DEF AddDevice
  <2>5. Capped(d)'
    BY <2>1, <2>2, <2>4 DEF Capped, HasSafe, Opt
  <2>6. OwnStamp(d)'
    BY <2>1, <2>2, <2>3, <2>4 DEF OwnStamp, Stamped
  <2>7. OwnFile(d)'
    BY <2>1, <2>2, <2>3, <2>4 DEF OwnFile, Opt
  <2> QED BY <2>5, <2>6, <2>7
<1> QED BY <1>1, <1>2, <1>3 DEF IInv

LEMMA RemoveDeviceStep ==
    ASSUME IInv, NEW e \in Devices, NEW force \in BOOLEAN, NEW doctorGone \in BOOLEAN,
           NEW sessGone \in BOOLEAN, RemoveDevice(e, force, doctorGone, sessGone)
    PROVE  IInv'
<1>0. Typed /\ Lived /\ e \in known /\ known \subseteq Devices
  BY DEF IInv, Typed, RemoveDevice
<1>1. Typed'
  BY <1>0, GatesAssumption DEF RemoveDevice, Typed, GatesAssumption
<1>2. Lived'
  BY <1>0 DEF RemoveDevice, Lived
<1>3. ASSUME NEW d \in Devices PROVE Capped(d)' /\ OwnStamp(d)' /\ OwnFile(d)'
  <2>0. Key[d] \in Keys /\ Key[e] \in Keys
    BY GatesAssumption DEF GatesAssumption
  <2>1. Capped(d) /\ OwnStamp(d) /\ OwnFile(d)
    BY DEF IInv
  <2>2. Alone(d)' => Alone(d) /\ (Key[e] = Key[d] => e = d)
    BY <1>0, OnlyUser DEF Alone, RemoveDevice
  <2>3. d # e => (d \in known' <=> d \in known)
    BY DEF RemoveDevice
  <2>4. lives' = lives /\ kept \subseteq kept'
    BY DEF RemoveDevice
  <2>5. /\ doctor'[Key[d]] \in {doctor[Key[d]], None}
        /\ Key[e] = Key[d] => doctor'[Key[d]] = None \/ Key[d] \in kept'
    BY <1>0, <2>0 DEF RemoveDevice, Typed
  <2>6. /\ sess'[Key[d]] \in {sess[Key[d]], None}
        /\ Key[e] = Key[d] => sess'[Key[d]] = None \/ Key[d] \in kept'
    BY <1>0, <2>0 DEF RemoveDevice, Typed
  <2>7. Capped(d)'
    BY <2>1, <2>2, <2>6 DEF Capped, HasSafe, Opt
  <2>8. OwnStamp(d)'
    BY <2>1, <2>2, <2>3, <2>4, <2>5 DEF OwnStamp, Stamped
  <2>9. OwnFile(d)'
    BY <2>1, <2>2, <2>3, <2>4, <2>6 DEF OwnFile, Opt
  <2> QED BY <2>7, <2>8, <2>9
<1> QED BY <1>1, <1>2, <1>3 DEF IInv

\* A device writes its state file: a stamp of its own, or half of one.
LEMMA StampStep ==
    ASSUME IInv, NEW e \in known, NEW s \in {Torn} \cup Stamp,
           s # Torn => s.by = e /\ s.life = lives[e],
           doctor' = [doctor EXCEPT ![Key[e]] = s],
           UNCHANGED <<now, sess, known, lives, kept>>
    PROVE  IInv'
<1>0. Typed /\ Lived /\ e \in Devices /\ known \subseteq Devices
  BY DEF IInv, Typed
<1>1. Typed'
  BY <1>0, GatesAssumption DEF Typed, GatesAssumption
<1>2. Lived'
  BY <1>0 DEF Lived
<1>3. ASSUME NEW d \in Devices PROVE Capped(d)' /\ OwnStamp(d)' /\ OwnFile(d)'
  <2>0. Key[d] \in Keys /\ Key[e] \in Keys
    BY <1>0, GatesAssumption DEF GatesAssumption
  <2>1. Capped(d) /\ OwnStamp(d) /\ OwnFile(d)
    BY DEF IInv
  <2>2. Alone(d)' <=> Alone(d)
    BY DEF Alone
  <2>3. Alone(d) => (Key[e] = Key[d] => e = d)
    BY <1>0, OnlyUser
  <2>4. doctor'[Key[d]] = IF Key[e] = Key[d] THEN s ELSE doctor[Key[d]]
    BY <1>0, <2>0 DEF Typed
  <2>5. Capped(d)' /\ OwnFile(d)'
    BY <2>1, <2>2 DEF Capped, OwnFile, HasSafe, Opt
  <2>6. OwnStamp(d)'
    BY <2>1, <2>2, <2>3, <2>4 DEF OwnStamp, Stamped
  <2> QED BY <2>5, <2>6
<1> QED BY <1>1, <1>2, <1>3 DEF IInv

LEMMA DoctorStep ==
    ASSUME IInv, NEW e \in Devices, NEW unreadable, Doctor(e, unreadable)
    PROVE  IInv'
<1> DEFINE s == [at |-> now, by |-> e, life |-> lives[e]]
<1>1. s \in Stamp /\ s.by = e /\ s.life = lives[e]
  BY DEF IInv, Typed, Stamp
<1>2. e \in known /\ doctor' = [doctor EXCEPT ![Key[e]] = s]
      /\ UNCHANGED <<now, sess, known, lives, kept>>
  BY DEF Doctor
<1> HIDE DEF s
<1> QED BY <1>1, <1>2, StampStep

LEMMA DoctorTornStep ==
    ASSUME IInv, NEW e \in Devices, DoctorTorn(e)
    PROVE  IInv'
BY StampStep DEF DoctorTorn

\* A device writes its session file: its own session, within its cap, or none.
LEMMA SessionStep ==
    ASSUME IInv, NEW e \in known, NEW s \in {None} \cup SessionState,
           s # None /\ Alone(e) =>
              /\ s.by = e /\ (Key[e] \notin kept => s.life = lives[e])
              /\ s.safe /\ Opt(e).env = "prod" => s.backup \/ s.noted
              /\ s.safe /\ Opt(e).cap > 0 => s.changes <= Opt(e).cap,
           sess' = [sess EXCEPT ![Key[e]] = s],
           UNCHANGED <<now, doctor, known, lives, kept>>
    PROVE  IInv'
<1>0. Typed /\ Lived /\ e \in Devices /\ known \subseteq Devices
  BY DEF IInv, Typed
<1>1. Typed'
  BY <1>0, GatesAssumption DEF Typed, GatesAssumption
<1>2. Lived'
  BY <1>0 DEF Lived
<1>3. ASSUME NEW d \in Devices PROVE Capped(d)' /\ OwnStamp(d)' /\ OwnFile(d)'
  <2>0. Key[d] \in Keys /\ Key[e] \in Keys
    BY <1>0, GatesAssumption DEF GatesAssumption
  <2>1. Capped(d) /\ OwnStamp(d) /\ OwnFile(d)
    BY DEF IInv
  <2>2. Alone(d)' <=> Alone(d)
    BY DEF Alone
  <2>3. Alone(d) => (Key[e] = Key[d] => e = d)
    BY <1>0, OnlyUser
  <2>4. sess'[Key[d]] = IF Key[e] = Key[d] THEN s ELSE sess[Key[d]]
    BY <1>0, <2>0 DEF Typed
  <2>5. OwnStamp(d)'
    BY <2>1, <2>2 DEF OwnStamp, Stamped
  <2>6. Capped(d)'
    BY <2>1, <2>2, <2>3, <2>4 DEF Capped, HasSafe, Opt
  <2>7. OwnFile(d)'
    BY <2>1, <2>2, <2>3, <2>4 DEF OwnFile, Opt
  <2> QED BY <2>5, <2>6, <2>7
<1> QED BY <1>1, <1>2, <1>3 DEF IInv

\* A backup or a note precedes a safe session of a production device.
LEMMA BackedUp ==
    ASSUME NEW d \in Devices, NEW strict \in BOOLEAN, Opt(d).env = "prod"
    PROVE  NeedsBackup(d, EnvClass(d, strict))
BY DEF NeedsBackup, EnvClass

LEMMA BeginSessionStep ==
    ASSUME IInv, NEW e \in Devices, NEW safe \in BOOLEAN, NEW noBackup \in BOOLEAN,
           NEW strict \in BOOLEAN, BeginSession(e, safe, noBackup, strict)
    PROVE  IInv'
<1> DEFINE needs == NeedsBackup(e, EnvClass(e, strict))
           backup == safe /\ ~noBackup /\ needs
           noted == safe /\ noBackup /\ needs
           s == [safe |-> safe, by |-> e, life |-> lives[e], changes |-> 0,
                 backup |-> backup, noted |-> noted]
<1>1. e \in known /\ sess' = [sess EXCEPT ![Key[e]] = s]
      /\ UNCHANGED <<now, doctor, known, lives, kept>>
  BY DEF BeginSession
<1>2. backup \in BOOLEAN /\ noted \in BOOLEAN
  OBVIOUS
<1>3. safe /\ Opt(e).env = "prod" => backup \/ noted
  BY BackedUp
<1> HIDE DEF needs, backup, noted
<1>4. s \in SessionState
  BY <1>2, GatesAssumption DEF IInv, Typed, SessionState, GatesAssumption
<1>5. /\ s.by = e /\ s.life = lives[e] /\ s.changes = 0
      /\ s.safe = safe /\ s.backup = backup /\ s.noted = noted
  OBVIOUS
<1>6. Opt(e).cap \in Int
  BY GatesAssumption DEF GatesAssumption, Opt
<1>7. Alone(e) /\ s.safe /\ Opt(e).cap > 0 => s.changes <= Opt(e).cap
  BY <1>5, <1>6
<1>8. s.safe /\ Opt(e).env = "prod" => s.backup \/ s.noted
  BY <1>3, <1>5
<1> HIDE DEF s
<1> QED BY <1>1, <1>4, <1>5, <1>7, <1>8, SessionStep

LEMMA EndSessionStep ==
    ASSUME IInv, NEW e \in Devices, EndSession(e)
    PROVE  IInv'
BY SessionStep DEF EndSession

\* A write the gate lets through in a safe session finds room under the cap.
LEMMA RoomLeft ==
    ASSUME NEW d \in Devices, NEW path, NEW o, Gate(d, path, o) = "ok", HasSafe(d),
           sess[Key[d]].changes \in Nat, Opt(d).cap > 0
    PROVE  sess[Key[d]].changes < Opt(d).cap
<1>1. WithinCap(sess[Key[d]].changes, Cap(d, Env(d, o)))
  BY DEF Gate
<1>2. Opt(d).cap \in Int
  BY GatesAssumption DEF GatesAssumption, Opt
<1> QED BY <1>1, <1>2 DEF WithinCap, Cap

LEMMA WriteStep ==
    ASSUME IInv, NEW e \in Devices, NEW path, NEW o, Write(e, path, o)
    PROVE  IInv'
<1> DEFINE old == sess[Key[e]]
           s == [old EXCEPT !.changes = @ + 1]
<1>1. e \in known /\ HasSafe(e) /\ Gate(e, path, o) = "ok" /\ old.changes < MaxWrites
  BY DEF Write
<1>2. Key[e] \in Keys /\ MaxWrites \in Nat /\ Opt(e).cap \in Int
  BY GatesAssumption DEF GatesAssumption, Opt
<1>3. old \in SessionState /\ old # None
  BY <1>1, <1>2 DEF HasSafe, IInv, Typed
<1>4. s \in SessionState /\ s.changes = old.changes + 1
  BY <1>1, <1>2, <1>3 DEF SessionState
<1>5. /\ s.safe = old.safe /\ s.by = old.by /\ s.life = old.life
      /\ s.backup = old.backup /\ s.noted = old.noted
  BY <1>3 DEF SessionState
<1>6. sess' = [sess EXCEPT ![Key[e]] = s] /\ UNCHANGED <<now, doctor, known, lives, kept>>
  BY <1>2 DEF Write
<1>7. Opt(e).cap > 0 => s.changes <= Opt(e).cap
  BY <1>1, <1>2, <1>3, <1>4, RoomLeft DEF SessionState
<1>8. Capped(e) /\ OwnFile(e)
  BY DEF IInv
<1>9. Alone(e) =>
         /\ s.by = e /\ (Key[e] \notin kept => s.life = lives[e])
         /\ s.safe /\ Opt(e).env = "prod" => s.backup \/ s.noted
  BY <1>3, <1>5, <1>8 DEF OwnFile
<1> HIDE DEF s
<1> QED BY <1>1, <1>4, <1>6, <1>7, <1>9, SessionStep

LEMMA StepIInv == ASSUME IInv, [Next]_vars PROVE IInv'
<1>0. now \in Int /\ now >= 0 /\ now <= Horizon /\ Horizon \in Nat
  BY GatesAssumption DEF IInv, Typed, GatesAssumption
<1>1. CASE Tick
  <2>1. now' \in 0 .. Horizon
    BY <1>0, <1>1 DEF Tick
  <2> QED BY <1>1, <2>1, ClockStep DEF Tick
<1>2. CASE SetBack
  <2>1. now' \in 0 .. Horizon
    BY <1>0, <1>2 DEF SetBack
  <2> QED BY <1>2, <2>1, ClockStep DEF SetBack
<1>3. CASE \E d \in Devices : AddDevice(d)
  BY <1>3, AddDeviceStep
<1>4. CASE \E d \in Devices : \E force, doctorGone, sessGone \in BOOLEAN :
              RemoveDevice(d, force, doctorGone, sessGone)
  BY <1>4, RemoveDeviceStep
<1>5. CASE \E d \in Devices :
              \E unreadable \in SUBSET (MandatorySections \cup OptionalSections) :
                 Doctor(d, unreadable)
  BY <1>5, DoctorStep
<1>6. CASE \E d \in Devices : DoctorTorn(d)
  BY <1>6, DoctorTornStep
<1>7. CASE \E d \in Devices : \E safe, noBackup, strict \in BOOLEAN :
              BeginSession(d, safe, noBackup, strict)
  BY <1>7, BeginSessionStep
<1>8. CASE \E d \in Devices : EndSession(d)
  BY <1>8, EndSessionStep
<1>9. CASE \E d \in Devices : \E path \in Paths, o \in Options : Write(d, path, o)
  BY <1>9, WriteStep
<1>10. CASE UNCHANGED vars
  BY <1>0, <1>10, ClockStep DEF vars
<1> QED BY <1>1, <1>2, <1>3, <1>4, <1>5, <1>6, <1>7, <1>8, <1>9, <1>10 DEF Next

\* In every behaviour a file that one device has to itself was written by it, and,
\* unless a removal failed to delete it, in the life the device is in.
THEOREM Invariant == Spec => []IInv
<1>1. Init => IInv
  BY InitIInv
<1>2. IInv /\ [Next]_vars => IInv'
  BY StepIInv
<1> QED BY <1>1, <1>2, PTL DEF Spec

-----------------------------------------------------------------------------
(* What it implies. *)

\* The variables keep their types, and the session of a device that has its file to
\* itself is within max_session_changes of the device, whatever profile and
\* environment each of its writes ran under.
THEOREM GatesTypeCorrect == Spec => []GatesTypeOK
<1>1. IInv => GatesTypeOK
  BY DEF IInv, Typed, Capped, GatesTypeOK, Stamp, SessionState
<1> QED BY <1>1, Invariant, PTL

\* A production write that is let through without break-glass is vouched for by a
\* doctor run of the device itself, in its present life and within the age limit.
THEOREM DoctorIsOwn == Spec => []OwnDoctor
<1>1. IInv => OwnDoctor
  <2> SUFFICES ASSUME IInv, NEW d \in known, NEW path \in Paths, NEW o \in Options,
                      Alone(d), Key[d] \notin kept,
                      Env(d, o) = "prod", NoBreakGlass(o), Gate(d, path, o) = "ok"
               PROVE  /\ Stamped(Key[d])
                      /\ doctor[Key[d]].by = d
                      /\ doctor[Key[d]].life = lives[d]
                      /\ now <= doctor[Key[d]].at + MaxAge
    BY DEF OwnDoctor
  <2>1. ~DoctorStale(d)
    BY DEF Gate, DoctorRefuses, NoBreakGlass
  <2>2. Stamped(Key[d]) /\ ~(now - doctor[Key[d]].at > MaxAge)
    BY <2>1 DEF DoctorStale
  <2>3. d \in Devices /\ Key[d] \in Keys /\ MaxAge \in Nat
    BY GatesAssumption DEF IInv, Typed, GatesAssumption
  <2>4. doctor[Key[d]] \in Stamp /\ now \in Int
    BY <2>2, <2>3 DEF IInv, Typed, Stamped
  <2>5. doctor[Key[d]].at \in Int
    BY <2>4 DEF Stamp
  <2>6. now <= doctor[Key[d]].at + MaxAge
    BY <2>2, <2>3, <2>4, <2>5
  <2>7. OwnStamp(d)
    BY <2>3 DEF IInv
  <2> QED BY <2>2, <2>6, <2>7 DEF OwnStamp
<1> QED BY <1>1, Invariant, PTL

\* A write that is let through on a device of class prod goes into a safe session of
\* that device, in its present life, that a backup or a note precedes.
THEOREM SessionIsOwn == Spec => []OwnSession
<1>1. IInv => OwnSession
  <2> SUFFICES ASSUME IInv, NEW d \in known, NEW path \in Paths, NEW o \in Options,
                      Alone(d), Key[d] \notin kept,
                      Opt(d).env = "prod", Gate(d, path, o) = "ok"
               PROVE  /\ HasSafe(d)
                      /\ sess[Key[d]].by = d
                      /\ sess[Key[d]].life = lives[d]
                      /\ sess[Key[d]].backup \/ sess[Key[d]].noted
    BY DEF OwnSession
  <2>1. NeedsSession(d, o)
    BY DEF NeedsSession, Env, EnvClass
  <2>2. HasSafe(d)
    BY <2>1 DEF Gate
  <2>3. OwnFile(d)
    BY DEF IInv, Typed
  <2> QED BY <2>2, <2>3 DEF OwnFile, HasSafe
<1> QED BY <1>1, Invariant, PTL

-----------------------------------------------------------------------------
(* The maintenance windows.  What a window admits is a matter of remainders:  *)
(* of a day in minutes, and of a week in days.                               *)

LEMMA Remainder ==
    ASSUME NEW a \in Int, NEW b \in Nat \ {0}
    PROVE  a \div b \in Int /\ a % b \in 0 .. b - 1 /\ a = b * (a \div b) + (a % b)
<1>1. a \div b \in Int
  OBVIOUS
<1>2. a % b \in 0 .. b - 1
  OBVIOUS
<1>3. a % b = a - b * (a \div b)
  BY SMTT(30)
<1>4. b * (a \div b) \in Int
  BY <1>1
<1> QED BY <1>1, <1>2, <1>3, <1>4

LEMMA Multiple ==
    ASSUME NEW k \in Int, NEW b \in Nat \ {0}
    PROVE  /\ b * k \in Int
           /\ k >= 1 => b * k >= b
           /\ k <= -1 => b * k <= -b
OBVIOUS

\* There is one quotient and one remainder.
LEMMA OneRemainder ==
    ASSUME NEW a \in Int, NEW b \in Nat \ {0}, NEW k \in Int, NEW r \in 0 .. b - 1,
           a = b * k + r
    PROVE  a % b = r /\ a \div b = k
<1> DEFINE q == a \div b
           e == a % b
<1>1. q \in Int /\ e \in 0 .. b - 1 /\ a = b * q + e
  BY Remainder
<1> HIDE DEF q, e
<1>2. b * (q - k) = b * q - b * k /\ q - k \in Int
  BY <1>1
<1>3. b * q \in Int /\ b * k \in Int
  BY <1>1
<1>4. b * (q - k) = r - e
  BY <1>1, <1>2, <1>3
<1>5. ~(q - k >= 1) /\ ~(q - k <= -1)
  BY <1>1, <1>2, <1>4, Multiple
<1>6. q = k
  BY <1>1, <1>5
<1>7. e = r
  BY <1>1, <1>3, <1>6
<1> QED BY <1>6, <1>7 DEF q, e

\* A day of the week is the listed one, or the one after it.
LEMMA SameDay ==
    ASSUME NEW W \in Nat \ {0}, NEW q \in Int, NEW d \in 0 .. W - 1
    PROVE  (q - d) % W = 0 <=> q % W = d
<1>1. ASSUME (q - d) % W = 0 PROVE q % W = d
  <2>1. (q - d) \div W \in Int /\ q - d = W * ((q - d) \div W) + 0
    BY <1>1, Remainder
  <2>2. W * ((q - d) \div W) \in Int
    BY <2>1
  <2>3. q = W * ((q - d) \div W) + d
    BY <2>1, <2>2
  <2> QED BY <2>1, <2>3, OneRemainder, ZenonT(90)
<1>2. ASSUME q % W = d PROVE (q - d) % W = 0
  <2>1. q \div W \in Int /\ q = W * (q \div W) + d
    BY <1>2, Remainder
  <2>2. W * (q \div W) \in Int
    BY <2>1
  <2>3. q - d = W * (q \div W) + 0 /\ q - d \in Int
    BY <2>1, <2>2
  <2>4. 0 \in 0 .. W - 1
    OBVIOUS
  <2> QED BY <2>1, <2>3, <2>4, OneRemainder
<1> QED BY <1>1, <1>2

LEMMA DayBefore ==
    ASSUME NEW q \in Int
    PROVE  (q - 1) % WeekLength = PrevDay(q % WeekLength)
<1> DEFINE W == WeekLength
           a == q \div W
           c == q % W
<1>1. W \in Nat \ {0}
  BY GatesAssumption DEF GatesAssumption
<1>2. a \in Int /\ c \in 0 .. W - 1 /\ q = W * a + c
  BY <1>1, Remainder
<1> HIDE DEF W, a, c
<1>3. W * a \in Int /\ W * (a - 1) = W * a - W /\ a - 1 \in Int
  BY <1>1, <1>2
<1>4. CASE c = 0
  <2>1. q - 1 = W * (a - 1) + (W - 1) /\ W - 1 \in 0 .. W - 1
    BY <1>1, <1>2, <1>3, <1>4
  <2>2. (q - 1) % W = W - 1
    BY <1>1, <1>3, <2>1, OneRemainder
  <2> QED BY <1>4, <2>2 DEF PrevDay, W, c
<1>5. CASE c # 0
  <2>1. q - 1 = W * a + (c - 1) /\ c - 1 \in 0 .. W - 1
    BY <1>1, <1>2, <1>3, <1>5
  <2>2. q - 1 \in Int /\ (q - 1) = W * a + (c - 1)
    BY <2>1
  <2>3. (q - 1) % W = c - 1
    BY <1>1, <1>2, <2>1, <2>2, OneRemainder
  <2> QED BY <1>5, <2>3 DEF PrevDay, W, c
<1> QED BY <1>4, <1>5

\* Minutes of a week: whole days and minutes of a day.
LEMMA WeekRemainder ==
    ASSUME NEW D \in Nat \ {0}, NEW W \in Nat \ {0}, NEW k \in Int, NEW x \in 0 .. D - 1
    PROVE  /\ k % W \in 0 .. W - 1
           /\ (D * k + x) % (D * W) = D * (k % W) + x
<1> DEFINE p == k \div W
           r == k % W
<1>1. p \in Int /\ r \in 0 .. W - 1 /\ k = W * p + r
  BY Remainder
<1> HIDE DEF p, r
<1>2. D * k = (D * W) * p + D * r
  BY <1>1
<1>3. D * W \in Nat \ {0}
  OBVIOUS
<1>4. D * r + x \in 0 .. (D * W) - 1
  <2>1. D * (W - r) = D * W - D * r /\ D * (W - r) >= D /\ D * r \in Nat /\ D * W \in Nat
    <3>1. W - r \in Int /\ W - r >= 1
      BY <1>1
    <3>2. D * (W - r) >= D
      BY <3>1, Multiple
    <3>3. D * (W - r) = D * W - D * r
      BY <1>1
    <3>4. D * r \in Nat /\ D * W \in Nat
      BY <1>1
    <3> QED BY <3>2, <3>3, <3>4
  <2> QED BY <2>1
<1>5. (D * W) * p \in Int /\ D * r \in Int /\ D * k \in Int
  BY <1>1
<1>6. D * k + x = (D * W) * p + (D * r + x) /\ D * k + x \in Int
  BY <1>2, <1>5
<1>7. (D * k + x) % (D * W) = D * r + x
  BY <1>1, <1>3, <1>4, <1>6, OneRemainder, ZenonT(90)
<1> QED BY <1>1, <1>7 DEF r

\* So an interval shorter than a day that begins x minutes before is met on one
\* day only.
LEMMA Within ==
    ASSUME NEW D \in Nat \ {0}, NEW W \in Nat \ {0}, NEW k \in Int, NEW x \in 0 .. D - 1,
           NEW length \in 0 .. D - 1
    PROVE  (D * k + x) % (D * W) <= length <=> k % W = 0 /\ x <= length
<1> DEFINE r == k % W
<1>1. r \in 0 .. W - 1 /\ (D * k + x) % (D * W) = D * r + x
  BY WeekRemainder
<1> HIDE DEF r
<1>2. CASE r = 0
  BY <1>1, <1>2 DEF r
<1>3. CASE r # 0
  <2>1. D * r >= D /\ D * r \in Int
    BY <1>1, <1>3, Multiple
  <2> QED BY <1>1, <1>3, <2>1 DEF r
<1> QED BY <1>2, <1>3

WeeklyWindow(w) ==
    /\ w.kind = "weekly"
    /\ w.days \subseteq 0 .. WeekLength - 1
    /\ w.start \in 0 .. DayLength - 1 /\ w.end \in 0 .. DayLength - 1

LEMMA ClockTime ==
    ASSUME NEW t \in ClockTimes, HHMM(t) # None PROVE HHMM(t) \in 0 .. DayLength - 1
<1> DEFINE D == DayLength
           H == HourLength
           q == D \div H
           e == D % H
<1>1. /\ D \in Nat \ {0} /\ H \in Nat \ {0}
      /\ q \in Int /\ e \in 0 .. H - 1 /\ D = H * q + e
  BY GatesAssumption, Remainder DEF GatesAssumption
<1>2. t.h \in 0 .. q - 1 /\ t.m \in 0 .. H - 1 /\ HHMM(t) = t.h * H + t.m
  BY DEF HHMM
<1> HIDE DEF D, H, q, e
<1>3. q - t.h \in Int /\ q - t.h >= 1
  BY <1>1, <1>2
<1>4. H * (q - t.h) >= H
  BY <1>1, <1>3, Multiple
<1>5. H * (q - t.h) = H * q - t.h * H /\ t.h * H \in Nat /\ H * q \in Int
  BY <1>1, <1>2
<1>6. t.h * H + t.m \in 0 .. D - 1
  BY <1>1, <1>2, <1>4, <1>5
<1> QED BY <1>2, <1>6 DEF D

LEMMA ParsedWeekly ==
    ASSUME NEW d \in Devices, NEW w \in Windows[d] \ {Invalid}, w.kind = "weekly"
    PROVE  WeeklyWindow(w) /\ w.days # {}
<1>1. PICK spec \in Opt(d).windows : w = Parse(spec)
  BY DEF Windows
<1>2. CASE spec \in AbsoluteSpecs
  <2>1. w = spec
    BY <1>1, <1>2 DEF Parse, ParseAbsolute, AbsoluteSpecs
  <2> QED BY <1>2, <2>1 DEF AbsoluteSpecs
<1>3. CASE IsWeekly(spec)
  <2> DEFINE days == UNION {TokenDays(tok) : tok \in spec.days}
  <2>1. spec.kind = "weekly" /\ spec.start \in ClockTimes /\ spec.end \in ClockTimes
    BY <1>3 DEF IsWeekly
  <2>2. w = ParseWeekly(spec)
    BY <1>1, <2>1 DEF Parse
  <2>3. ~(days = {} \/ None \in {HHMM(spec.start), HHMM(spec.end)})
    BY <2>2 DEF ParseWeekly
  <2>4. w = [kind |-> "weekly", days |-> days, start |-> HHMM(spec.start),
             end |-> HHMM(spec.end)]
    BY <2>2, <2>3 DEF ParseWeekly
  <2>5. ASSUME NEW tok \in spec.days, NEW x \in TokenDays(tok) PROVE x \in 0 .. WeekLength - 1
    <3>1. /\ WeekLength \in Nat \ {0}
          /\ tok.from \in Int /\ tok.to \in Int /\ tok.to - tok.from \in Int
      BY <1>3, GatesAssumption DEF IsWeekly, DayTokens, GatesAssumption
    <3>2. (tok.to - tok.from) % WeekLength \in 0 .. WeekLength - 1
      BY <3>1, Remainder
    <3>3. PICK i \in 0 .. (tok.to - tok.from) % WeekLength : x = (tok.from + i) % WeekLength
      BY DEF TokenDays
    <3>4. tok.from + i \in Int
      BY <3>1, <3>2, <3>3
    <3> QED BY <3>1, <3>3, <3>4, Remainder
  <2>6. days \subseteq 0 .. WeekLength - 1
    BY <2>5
  <2>7. HHMM(spec.start) \in 0 .. DayLength - 1 /\ HHMM(spec.end) \in 0 .. DayLength - 1
    BY <2>1, <2>3, ClockTime
  <2> HIDE DEF days
  <2> QED BY <2>3, <2>4, <2>6, <2>7 DEF WeeklyWindow
<1> QED BY <1>1, <1>2, <1>3, WindowsAssumption DEF WindowsAssumption

\* How far into the interval of day d a moment is.
LEMMA Ahead ==
    ASSUME NEW t \in Int, NEW d \in 0 .. WeekLength - 1, NEW s \in 0 .. DayLength - 1,
           NEW length \in 0 .. DayLength - 1
    PROVE  (t - (d * DayLength + s)) % (DayLength * WeekLength) <= length
           <=> \/ Day(t) = d /\ Minute(t) >= s /\ Minute(t) - s <= length
               \/ PrevDay(Day(t)) = d /\ Minute(t) < s /\ DayLength + Minute(t) - s <= length
<1> DEFINE D == DayLength
           W == WeekLength
           q == t \div D
           m == t % D
<1>1. /\ D \in Nat \ {0} /\ W \in Nat \ {0}
      /\ q \in Int /\ m \in 0 .. D - 1 /\ t = D * q + m
  BY GatesAssumption, Remainder DEF GatesAssumption
<1>2. Day(t) = q % W /\ Minute(t) = m /\ PrevDay(Day(t)) = (q - 1) % W
  BY <1>1, DayBefore DEF Day, Minute
<1>3. d \in 0 .. W - 1 /\ s \in 0 .. D - 1 /\ length \in 0 .. D - 1
  OBVIOUS
<1> HIDE DEF D, W, q, m
<1>4. /\ q - d \in Int /\ q - 1 \in Int /\ q - 1 - d \in Int
      /\ D * q \in Int /\ d * D \in Int
      /\ D * (q - d) = D * q - d * D
      /\ D * (q - 1 - d) = D * q - d * D - D
  BY <1>1, <1>3
<1>5. CASE m >= s
  <2>1. m - s \in 0 .. D - 1 /\ t - (d * D + s) = D * (q - d) + (m - s)
    BY <1>1, <1>3, <1>4, <1>5
  <2>2. (D * (q - d) + (m - s)) % (D * W) <= length <=> (q - d) % W = 0 /\ m - s <= length
    BY <1>1, <1>3, <1>4, <2>1, Within
  <2>3. (q - d) % W = 0 <=> q % W = d
    BY <1>1, <1>3, SameDay, ZenonT(90)
  <2>4. ~(m < s)
    BY <1>1, <1>3, <1>5
  <2> QED BY <1>2, <1>5, <2>1, <2>2, <2>3, <2>4 DEF D, W
<1>6. CASE m < s
  <2>1. D + m - s \in 0 .. D - 1 /\ t - (d * D + s) = D * (q - 1 - d) + (D + m - s)
    BY <1>1, <1>3, <1>4, <1>6
  <2>2. (D * (q - 1 - d) + (D + m - s)) % (D * W) <= length
        <=> (q - 1 - d) % W = 0 /\ D + m - s <= length
    BY <1>1, <1>3, <1>4, <2>1, Within
  <2>3. (q - 1 - d) % W = 0 <=> (q - 1) % W = d
    BY <1>1, <1>3, <1>4, SameDay, ZenonT(90)
  <2>4. ~(m >= s)
    BY <1>1, <1>3, <1>6
  <2> QED BY <1>2, <1>6, <2>1, <2>2, <2>3, <2>4 DEF D, W
<1> QED BY <1>1, <1>3, <1>5, <1>6

LEMMA WeeklyInterval ==
    ASSUME NEW t \in Int, NEW w, WeeklyWindow(w)
    PROVE  LET from(d) == IF w.start = w.end THEN d * DayLength ELSE d * DayLength + w.start
               length == IF w.start = w.end THEN DayLength - 1
                         ELSE (w.end - w.start) % DayLength
           IN  Contains(w, t)
               <=> \E d \in w.days : (t - from(d)) % (DayLength * WeekLength) <= length
<1> DEFINE D == DayLength
           m == Minute(t)
           s == w.start
           e == w.end
           dist(d, x) == (t - (d * D + x)) % (DayLength * WeekLength)
<1>1. /\ D \in Nat \ {0} /\ m \in 0 .. D - 1 /\ s \in 0 .. D - 1 /\ e \in 0 .. D - 1
      /\ w.days \subseteq 0 .. WeekLength - 1 /\ 0 \in 0 .. D - 1 /\ D - 1 \in 0 .. D - 1
  BY GatesAssumption, Remainder DEF GatesAssumption, WeeklyWindow, Minute
<1>2. Contains(w, t) <=> WeeklyContains(w, t)
  BY DEF Contains, WeeklyWindow
<1>3. \A d \in w.days : d \in Int /\ d * D \in Int /\ d * D + 0 = d * D
  BY <1>1, GatesAssumption DEF GatesAssumption
<1> HIDE DEF D, m, s, e
<1>4. CASE s = e
  <2>1. \A d \in w.days : dist(d, 0) <= D - 1 <=> Day(t) = d
    <3> TAKE d \in w.days
    <3>1. dist(d, 0) <= D - 1 <=> \/ Day(t) = d /\ m >= 0 /\ m - 0 <= D - 1
                                  \/ PrevDay(Day(t)) = d /\ m < 0 /\ D + m - 0 <= D - 1
      BY <1>1, Ahead DEF D, m
    <3>2. m >= 0 /\ m - 0 <= D - 1 /\ ~(m < 0)
      BY <1>1
    <3> QED BY <3>1, <3>2
  <2>2. \A d \in w.days : t - (d * D + 0) = t - d * D
    BY <1>3
  <2>3. WeeklyContains(w, t) <=> Day(t) \in w.days
    BY <1>4 DEF WeeklyContains, s, e
  <2> QED BY <1>2, <1>4, <2>1, <2>2, <2>3 DEF D, s, e
<1>5. CASE s # e
  <2> DEFINE length == (e - s) % D
  <2>1. length \in 0 .. D - 1 /\ length = (IF e > s THEN e - s ELSE D + e - s)
    <3>1. e - s \in Int /\ D * 0 = 0 /\ D * (-1) = -D
      BY <1>1
    <3>2. CASE e > s
      <4>1. e - s = D * 0 + (e - s) /\ e - s \in 0 .. D - 1
        BY <1>1, <3>1, <3>2
      <4>2. (e - s) % D = e - s
        BY <1>1, <3>1, <4>1, OneRemainder
      <4> QED BY <3>2, <4>1, <4>2
    <3>3. CASE ~(e > s)
      <4>1. e - s = D * (-1) + (D + e - s) /\ D + e - s \in 0 .. D - 1
        BY <1>1, <1>5, <3>1, <3>3
      <4>2. (e - s) % D = D + e - s
        BY <1>1, <3>1, <4>1, OneRemainder
      <4> QED BY <3>3, <4>1, <4>2
    <3> QED BY <3>2, <3>3
  <2> HIDE DEF length
  <2>2. \A d \in w.days :
           dist(d, s) <= length
           <=> \/ Day(t) = d /\ m >= s /\ m - s <= length
               \/ PrevDay(Day(t)) = d /\ m < s /\ D + m - s <= length
    BY <1>1, <2>1, Ahead, ZenonT(90) DEF D, m
  <2>3. CASE e > s
    <3>1. /\ m >= s /\ m - s <= length <=> m >= s /\ m <= e
          /\ ~(m < s /\ D + m - s <= length)
      BY <1>1, <2>1, <2>3
    <3>2. WeeklyContains(w, t) <=> Day(t) \in w.days /\ m >= s /\ m <= e
      BY <1>5, <2>3 DEF WeeklyContains, s, e, m
    <3> QED BY <1>2, <1>5, <2>2, <3>1, <3>2 DEF D, s, e, length
  <2>4. CASE ~(e > s)
    <3>1. /\ m >= s /\ m - s <= length <=> m >= s
          /\ m < s /\ D + m - s <= length <=> m <= e
      BY <1>1, <1>5, <2>1, <2>4
    <3>2. WeeklyContains(w, t) <=> \/ Day(t) \in w.days /\ m >= s
                                   \/ PrevDay(Day(t)) \in w.days /\ m <= e
      BY <1>5, <2>4 DEF WeeklyContains, s, e, m
    <3> QED BY <1>2, <1>5, <2>2, <3>1, <3>2 DEF D, s, e, length
  <2> QED BY <2>3, <2>4
<1> QED BY <1>4, <1>5

\* A weekly window of a device admits exactly one interval for each listed day,
\* closed at both ends and possibly past midnight and the end of the week.
\* (maintenance.go, parseWeekdays and Contains.)
THEOREM WindowsAreIntervals == Spec => []WindowIsInterval
<1>1. IInv => WindowIsInterval
  <2> SUFFICES ASSUME IInv, NEW w \in AllWindows, w.kind = "weekly"
               PROVE  WeeklyWindow(w)
    BY WeeklyInterval DEF IInv, Typed, WindowIsInterval
  <2>1. PICK d \in Devices : w \in Windows[d]
    BY DEF AllWindows
  <2>2. w # Invalid
    BY DEF AllWindows
  <2> QED BY <2>1, <2>2, ParsedWeekly
<1> QED BY <1>1, Invariant, PTL

-----------------------------------------------------------------------------
(* The hint.                                                                 *)

LEMMA EarliestIsLeast ==
    ASSUME NEW ts, ts \subseteq Nat, ts # {}
    PROVE  Earliest(ts) \in ts /\ \A u \in ts : Earliest(ts) <= u
<1> DEFINE R == OpToRel(<, Nat)
<1>1. \A x, y \in Nat : <<y, x>> \in R <=> y < x
  BY DEF OpToRel
<1>2. IsWellFoundedOn(R, Nat)
  BY NatLessThanWellFounded
<1> HIDE DEF R
<1>3. PICK x \in ts : \A y \in ts : ~(<<y, x>> \in R)
  BY <1>2, WFMin
<1>4. ASSUME NEW y \in ts PROVE x <= y
  <2>1. x \in Nat /\ y \in Nat
    BY <1>3
  <2>2. ~(y < x)
    BY <1>1, <1>3, <2>1
  <2> QED BY <2>1, <2>2
<1> QED BY <1>3, <1>4 DEF Earliest

\* The days from now on.
LEMMA Now ==
    ASSUME NEW t \in Nat
    PROVE  /\ t \div DayLength \in Nat /\ Minute(t) \in 0 .. DayLength - 1
           /\ DayLength * (t \div DayLength) \in Nat
           /\ t = DayLength * (t \div DayLength) + Minute(t)
           /\ Day(t) = (t \div DayLength) % WeekLength
           /\ DayLength \in Nat \ {0} /\ WeekLength \in Nat \ {0}
<1> DEFINE q == t \div DayLength
           m == t % DayLength
<1>1. DayLength \in Nat \ {0} /\ WeekLength \in Nat \ {0}
  BY GatesAssumption DEF GatesAssumption
<1>2. q \in Int /\ m \in 0 .. DayLength - 1 /\ t = DayLength * q + m
  BY <1>1, Remainder
<1> HIDE DEF q, m
<1>3. ~(q <= -1)
  BY <1>1, <1>2, Multiple
<1>4. q \in Nat /\ DayLength * q \in Nat
  BY <1>1, <1>2, <1>3
<1> QED BY <1>1, <1>2, <1>4 DEF q, m, Day, Minute

LEMMA Moment ==
    ASSUME NEW k \in Nat, NEW m \in 0 .. DayLength - 1
    PROVE  LET s == k * DayLength + m
           IN  /\ s \in Nat /\ s \div DayLength = k
               /\ Day(s) = k % WeekLength /\ Minute(s) = m
<1>1. DayLength \in Nat \ {0}
  BY GatesAssumption DEF GatesAssumption
<1> DEFINE s == k * DayLength + m
<1>2. s \in Nat /\ s = DayLength * k + m
  BY <1>1
<1> HIDE DEF s
<1>3. s % DayLength = m /\ s \div DayLength = k
  BY <1>1, <1>2, OneRemainder
<1> QED BY <1>2, <1>3 DEF Day, Minute, s

LEMMA Later ==
    ASSUME NEW a \in Int, NEW b \in Int, a <= b
    PROVE  /\ a * DayLength \in Int /\ b * DayLength \in Int
           /\ a * DayLength <= b * DayLength
           /\ a < b => a * DayLength + DayLength <= b * DayLength
<1>1. DayLength \in Nat \ {0} /\ b - a \in Nat
  BY GatesAssumption DEF GatesAssumption
<1>2. (b - a) * DayLength = b * DayLength - a * DayLength
  BY <1>1
<1>3. /\ DayLength * (b - a) = (b - a) * DayLength
      /\ a * DayLength \in Int /\ b * DayLength \in Int
  BY <1>1
<1>4. a < b => (b - a) * DayLength >= DayLength
  BY <1>1, <1>3, Multiple
<1>5. (b - a) * DayLength >= 0
  BY <1>1
<1> QED BY <1>1, <1>2, <1>3, <1>4, <1>5

LEMMA UpcomingStarts ==
    ASSUME NEW w, WeeklyWindow(w), NEW t \in Nat, NEW s \in Upcoming(w, t)
    PROVE  s \in Nat /\ s > t /\ Day(s) \in w.days /\ Minute(s) = w.start
<1>1. PICK i \in 0 .. WeekLength : s = (t \div DayLength + i) * DayLength + w.start
  BY DEF Upcoming
<1>2. t \div DayLength \in Nat /\ WeekLength \in Nat
  BY Now
<1> DEFINE k == t \div DayLength + i
<1>3. k \in Nat
  BY <1>2
<1>4. s = k * DayLength + w.start /\ w.start \in 0 .. DayLength - 1
  BY <1>1 DEF WeeklyWindow
<1> HIDE DEF k
<1>5. s \in Nat /\ Minute(s) = w.start
  BY <1>3, <1>4, Moment
<1> QED BY <1>5 DEF Upcoming

\* Of the later weeks nothing is missed by looking at one.
LEMMA UpcomingBy ==
    ASSUME NEW w, WeeklyWindow(w), NEW t \in Nat, NEW k \in Nat,
           (t \div DayLength + k) % WeekLength \in w.days,
           (t \div DayLength + k) * DayLength + w.start > t
    PROVE  \E s \in Upcoming(w, t) : s <= (t \div DayLength + k) * DayLength + w.start
<1> DEFINE q == t \div DayLength
           W == WeekLength
           at(i) == (q + i) * DayLength + w.start
<1>0. q \in Nat /\ W \in Nat \ {0} /\ DayLength \in Nat \ {0}
  BY Now
<1>1. /\ q \in Nat /\ W \in Nat \ {0} /\ DayLength \in Nat \ {0}
      /\ w.start \in 0 .. DayLength - 1 /\ q + k \in Nat
  BY <1>0 DEF WeeklyWindow
<1>2. \A i \in 0 .. W : (q + i) % W \in w.days /\ at(i) > t => at(i) \in Upcoming(w, t)
  <2> SUFFICES ASSUME NEW i \in 0 .. W, (q + i) % W \in w.days, at(i) > t
               PROVE  at(i) \in Upcoming(w, t)
    OBVIOUS
  <2>1. q + i \in Nat
    BY <1>1
  <2>2. Day(at(i)) = (q + i) % W
    BY <1>1, <2>1, Moment
  <2> QED BY <2>2 DEF Upcoming
<1>3. CASE k <= W
  <2>1. at(k) \in Upcoming(w, t) /\ at(k) \in Int
    BY <1>1, <1>2, <1>3
  <2> QED BY <2>1
<1>4. CASE k > W
  <2> DEFINE p == k \div W
             r == k % W
  <2>1. p \in Int /\ r \in 0 .. W - 1 /\ k = W * p + r
    BY <1>1, Remainder
  <2> HIDE DEF p, r
  <2>2. PICK i \in 1 .. W : \E c \in Int : k = W * c + i
    <3>1. CASE r = 0
      <4>1. W * (p - 1) = W * p - W /\ p - 1 \in Int /\ W * p \in Int
        BY <1>1, <2>1
      <4>2. k = W * (p - 1) + W /\ W \in 1 .. W
        BY <1>1, <2>1, <3>1, <4>1
      <4> QED BY <4>1, <4>2
    <3>2. CASE r # 0
      <4>1. r \in 1 .. W /\ p \in Int /\ k = W * p + r
        BY <1>1, <2>1, <3>2
      <4> QED BY <4>1
    <3> QED BY <3>1, <3>2
  <2>3. (q + i) % W = (q + k) % W
    <3>1. PICK c \in Int : k = W * c + i
      BY <2>2
    <3> DEFINE a == (q + i) \div W
               e == (q + i) % W
    <3>2. q + i \in Int
      BY <1>1
    <3>3. a \in Int /\ e \in 0 .. W - 1 /\ q + i = W * a + e
      BY <1>1, <3>2, Remainder
    <3> HIDE DEF a, e
    <3>4. W * (a + c) = W * a + W * c /\ W * a \in Int /\ W * c \in Int /\ a + c \in Int
      BY <1>1, <3>3
    <3>5. q + k = W * (a + c) + e
      BY <1>1, <3>1, <3>3, <3>4
    <3>6. q + k \in Int
      BY <1>1
    <3>7. (q + k) % W = e
      BY <1>1, <3>3, <3>4, <3>5, <3>6, OneRemainder
    <3> QED BY <3>7 DEF e
  <2>4. at(i) > t
    <3>1. q * DayLength + DayLength <= (q + i) * DayLength
      BY <1>1, Later
    <3>2. t < q * DayLength + DayLength
      <4>1. t = DayLength * q + Minute(t) /\ Minute(t) < DayLength /\ Minute(t) \in Int
        BY Now
      <4>2. DayLength * q = q * DayLength /\ q * DayLength \in Int
        BY <1>1
      <4> QED BY <1>1, <4>1, <4>2
    <3>3. (q + i) * DayLength \in Int /\ q * DayLength \in Int
      BY <1>1
    <3> QED BY <1>1, <3>1, <3>2, <3>3
  <2>5. at(i) \in Upcoming(w, t)
    BY <1>2, <2>3, <2>4
  <2>6. at(i) <= at(k)
    <3>1. q + i \in Int /\ q + k \in Int /\ q + i <= q + k
      BY <1>1, <1>4
    <3>2. (q + i) * DayLength <= (q + k) * DayLength
      BY <3>1, Later
    <3>3. (q + i) * DayLength \in Int /\ (q + k) * DayLength \in Int
      BY <1>1, <3>1
    <3> QED BY <1>1, <3>2, <3>3
  <2> QED BY <2>5, <2>6
<1> QED BY <1>1, <1>3, <1>4

\* A weekly window that lists a day has a next start.
LEMMA UpcomingSome ==
    ASSUME NEW w, WeeklyWindow(w), w.days # {}, NEW t \in Nat
    PROVE  Upcoming(w, t) # {}
<1> DEFINE q == t \div DayLength
           W == WeekLength
           D == DayLength
<1>0. /\ q \in Nat /\ W \in Nat \ {0} /\ D \in Nat \ {0}
      /\ t = D * q + Minute(t) /\ Minute(t) \in 0 .. D - 1 /\ D * q \in Nat
  BY Now
<1>1. PICK d \in w.days : TRUE
  OBVIOUS
<1>2. d \in 0 .. W - 1 /\ d - q \in Int /\ w.start \in 0 .. D - 1
  BY <1>0 DEF WeeklyWindow
<1> DEFINE a == (d - q) \div W
           r == (d - q) % W
           k == r + W
<1>3. a \in Int /\ r \in 0 .. W - 1 /\ d - q = W * a + r
  BY <1>0, <1>2, Remainder
<1> HIDE DEF a, r
<1>4. k \in Nat /\ k >= 1 /\ q + k \in Int
  BY <1>0, <1>3
<1>5. W * (1 - a) = W - W * a /\ W * a \in Int /\ 1 - a \in Int
  BY <1>0, <1>3
<1>6. q + k = W * (1 - a) + d
  BY <1>0, <1>2, <1>3, <1>5
<1>7. (q + k) % W = d
  BY <1>0, <1>2, <1>4, <1>5, <1>6, OneRemainder
<1>8. q * D + D <= (q + k) * D /\ (q + k) * D \in Int
  BY <1>0, <1>4, Later
<1>9. D * q = q * D
  BY <1>0
<1>10. (q + k) * D + w.start > t
  BY <1>0, <1>2, <1>8, <1>9
<1> QED BY <1>1, <1>4, <1>7, <1>10, UpcomingBy

\* How long a window with two different times stays open.
Span(w) == IF w.end > w.start THEN w.end - w.start ELSE DayLength + w.end - w.start

\* Whatever the days, it is open in the spans that begin on them.
LEMMA OpenSpans ==
    ASSUME NEW w, WeeklyWindow(w), w.start # w.end, NEW t \in Nat
    PROVE  Contains(w, t) <=>
              \E k \in Int : /\ k % WeekLength \in w.days
                             /\ k * DayLength + w.start <= t
                             /\ t <= k * DayLength + w.start + Span(w)
<1> DEFINE q == t \div DayLength
           W == WeekLength
           D == DayLength
           m == Minute(t)
           s == w.start
           e == w.end
<1>1. /\ q \in Nat /\ W \in Nat \ {0} /\ D \in Nat \ {0}
      /\ t = D * q + m /\ m \in 0 .. D - 1 /\ D * q \in Nat /\ Day(t) = q % W
  BY Now
<1>2. s \in 0 .. D - 1 /\ e \in 0 .. D - 1 /\ s # e
  BY DEF WeeklyWindow
<1>3. Contains(w, t) <=> WeeklyContains(w, t)
  BY DEF Contains, WeeklyWindow
<1>4. PrevDay(Day(t)) = (q - 1) % W
  <2>1. q \in Int
    BY <1>1
  <2>2. (q - 1) % W = PrevDay(q % W)
    BY <2>1, DayBefore
  <2> QED BY <1>1, <2>2
<1>5. /\ Span(w) = (IF e > s THEN e - s ELSE D + e - s) /\ Span(w) \in 0 .. D - 1
  BY <1>1, <1>2 DEF Span
<1>6. WeeklyContains(w, t) <=>
         IF e > s THEN q % W \in w.days /\ m >= s /\ m <= e
         ELSE \/ q % W \in w.days /\ m >= s
              \/ (q - 1) % W \in w.days /\ m <= e
  BY <1>1, <1>2, <1>4 DEF WeeklyContains
<1>7. /\ q * D = D * q /\ (q - 1) * D = D * q - D
      /\ q \in Int /\ q - 1 \in Int
  BY <1>1
<1> HIDE DEF q, m
<1>8. ASSUME WeeklyContains(w, t)
      PROVE  \E k \in Int : k % W \in w.days /\ k * D + s <= t /\ t <= k * D + s + Span(w)
  <2>1. CASE q % W \in w.days /\ m >= s /\ (e > s => m <= e)
    <3>1. q * D + s <= t /\ t <= q * D + s + Span(w)
      BY <1>1, <1>2, <1>5, <1>7, <2>1
    <3> QED BY <1>7, <2>1, <3>1
  <2>2. CASE (q - 1) % W \in w.days /\ m <= e /\ ~(e > s)
    <3>1. (q - 1) * D + s <= t /\ t <= (q - 1) * D + s + Span(w)
      BY <1>1, <1>2, <1>5, <1>7, <2>2
    <3> QED BY <1>7, <2>2, <3>1
  <2> QED BY <1>6, <1>8, <2>1, <2>2
<1>9. ASSUME NEW k \in Int, k % W \in w.days, k * D + s <= t, t <= k * D + s + Span(w)
      PROVE  WeeklyContains(w, t)
  <2>1. k * D \in Int
    BY <1>1
  <2>2. ~(q < k)
    <3>1. q < k => q * D + D <= k * D
      BY <1>7, Later
    <3> QED BY <1>1, <1>2, <1>7, <1>9, <2>1, <3>1
  <2>3. ~(k < q - 1)
    <3>1. k < q - 1 => k * D + D <= (q - 1) * D
      BY <1>7, Later
    <3> QED BY <1>1, <1>2, <1>5, <1>7, <1>9, <2>1, <3>1
  <2>4. k = q \/ k = q - 1
    BY <1>7, <2>2, <2>3
  <2>5. CASE k = q
    <3>1. m >= s /\ m - s <= Span(w)
      BY <1>1, <1>2, <1>5, <1>7, <1>9, <2>5
    <3>2. e > s => m <= e
      BY <1>1, <1>2, <1>5, <3>1
    <3> QED BY <1>6, <1>9, <2>5, <3>1, <3>2
  <2>6. CASE k = q - 1
    <3>1. D + m - s <= Span(w)
      BY <1>1, <1>2, <1>5, <1>7, <1>9, <2>6
    <3>2. ~(e > s) /\ m <= e
      BY <1>1, <1>2, <1>5, <3>1
    <3> QED BY <1>6, <1>9, <2>6, <3>2
  <2> QED BY <2>4, <2>5, <2>6
<1> QED BY <1>3, <1>8, <1>9

\* A window that is closed now opens by way of the starts it looks at.
LEMMA OpensAfter ==
    ASSUME NEW w, WeeklyWindow(w), w.start # w.end, NEW n \in Nat, NEW t \in Nat, n <= t,
           ~Contains(w, n), Contains(w, t)
    PROVE  \E s \in Upcoming(w, n) : s <= t
<1> DEFINE q == n \div DayLength
           D == DayLength
<1>1. /\ q \in Nat /\ D \in Nat \ {0} /\ n = D * q + Minute(n) /\ Minute(n) \in 0 .. D - 1
      /\ w.start \in 0 .. D - 1
  BY Now DEF WeeklyWindow
<1>2. PICK k \in Int : /\ k % WeekLength \in w.days
                       /\ k * D + w.start <= t
                       /\ t <= k * D + w.start + Span(w)
  BY OpenSpans
<1>3. k * D \in Int /\ D * q = q * D /\ q * D \in Int /\ Span(w) \in Int
  BY <1>1 DEF Span, WeeklyWindow
<1>4. k * D + w.start > n
  <2>1. SUFFICES ASSUME k * D + w.start <= n PROVE FALSE
    BY <1>1, <1>3
  <2>2. n <= k * D + w.start + Span(w)
    BY <1>1, <1>2, <1>3
  <2> QED BY <1>2, <2>1, <2>2, OpenSpans
<1>5. ~(k < q)
  <2>1. k < q => k * D + D <= q * D
    BY <1>1, Later
  <2> QED BY <1>1, <1>3, <1>4, <2>1
<1>6. k - q \in Nat /\ q + (k - q) = k
  BY <1>1, <1>5
<1>7. (q + (k - q)) % WeekLength \in w.days /\ (q + (k - q)) * D + w.start > n
  BY <1>2, <1>4, <1>6
<1>8. \E s \in Upcoming(w, n) : s <= (q + (k - q)) * D + w.start
  BY <1>6, <1>7, UpcomingBy
<1>9. PICK s \in Upcoming(w, n) : s <= k * D + w.start
  BY <1>6, <1>8
<1>10. s \in Nat
  BY UpcomingStarts
<1>11. s <= t
  BY <1>1, <1>2, <1>3, <1>9, <1>10
<1> QED BY <1>11

LEMMA ParsedAbsolute ==
    ASSUME NEW d \in Devices, NEW w \in Windows[d] \ {Invalid}, w.kind # "weekly"
    PROVE  w.kind = "absolute" /\ w.start \in Int /\ w.end \in Int /\ w.start < w.end
<1>1. PICK spec \in Opt(d).windows : w = Parse(spec)
  BY DEF Windows
<1>2. CASE spec \in AbsoluteSpecs
  <2>1. w = spec /\ spec.end > spec.start
    BY <1>1, <1>2 DEF Parse, ParseAbsolute, AbsoluteSpecs
  <2> QED BY <1>2, <2>1 DEF AbsoluteSpecs
<1>3. CASE IsWeekly(spec)
  <2>1. w = ParseWeekly(spec)
    BY <1>1, <1>3 DEF Parse, IsWeekly
  <2> QED BY <2>1 DEF ParseWeekly
<1> QED BY <1>1, <1>2, <1>3, WindowsAssumption DEF WindowsAssumption

\* The next start of a closed window is when it opens, and there is one if it ever does.
LEMMA OneWindow ==
    ASSUME NEW w \in AllWindows, w.start # w.end, NEW n \in Nat, ~Contains(w, n)
    PROVE  LET x == NextStart(w, n)
           IN  /\ x # None => x \in Nat /\ x > n /\ Contains(w, x)
               /\ \A t \in Nat : n <= t /\ Contains(w, t) => x # None /\ x <= t
<1> DEFINE x == NextStart(w, n)
<1>1. PICK d \in Devices : w \in Windows[d] \ {Invalid}
  BY DEF AllWindows
<1>2. None \notin Int
  BY GatesAssumption DEF GatesAssumption
<1>3. CASE w.kind = "weekly"
  <2>1. WeeklyWindow(w) /\ w.days # {}
    BY <1>1, <1>3, ParsedWeekly
  <2>2. Upcoming(w, n) # {} /\ Upcoming(w, n) \subseteq Nat
    BY <2>1, UpcomingSome, UpcomingStarts
  <2>3. x = Earliest(Upcoming(w, n))
    BY <1>3 DEF NextStart
  <2>4. x \in Upcoming(w, n) /\ \A u \in Upcoming(w, n) : x <= u
    BY <2>2, <2>3, EarliestIsLeast
  <2> HIDE DEF x
  <2>5. x \in Nat /\ x > n /\ Day(x) \in w.days /\ Minute(x) = w.start
    BY <2>1, <2>4, UpcomingStarts
  <2>6. Contains(w, x)
    BY <1>3, <2>1, <2>5 DEF Contains, WeeklyContains, WeeklyWindow
  <2>7. ASSUME NEW t \in Nat, n <= t, Contains(w, t) PROVE x <= t
    <3>1. PICK s \in Upcoming(w, n) : s <= t
      BY <2>1, <2>7, OpensAfter
    <3>2. x <= s /\ s \in Nat
      BY <2>2, <2>4
    <3> QED BY <2>5, <3>1, <3>2
  <2> QED BY <1>2, <2>5, <2>6, <2>7 DEF x
<1>4. CASE w.kind # "weekly"
  <2>1. w.kind = "absolute" /\ w.start \in Int /\ w.end \in Int /\ w.start < w.end
    BY <1>1, <1>4, ParsedAbsolute
  <2>2. x = IF n < w.start THEN w.start ELSE None
    BY <2>1 DEF NextStart, AbsoluteNextStart
  <2>3. \A t : Contains(w, t) <=> t >= w.start /\ t < w.end
    BY <2>1 DEF Contains, AbsoluteContains
  <2> HIDE DEF x
  <2>4. CASE n < w.start
    BY <1>2, <2>1, <2>2, <2>3, <2>4 DEF x
  <2>5. CASE ~(n < w.start)
    <3>1. \A t \in Nat : n <= t => ~Contains(w, t)
      BY <2>1, <2>3, <2>5
    <3> QED BY <2>2, <2>5, <3>1 DEF x
  <2> QED BY <2>4, <2>5
<1> QED BY <1>3, <1>4

\* The hint of a refusal is the next moment at which a window is open, and there is none
\* only if no window ever opens: windows may pass midnight or the end of the week, list
\* any days, and be mixed with absolute ones.  A week is far enough to look.
THEOREM HintsAreNext == Spec => []HintIsNext
<1>1. IInv => HintIsNext
  <2> SUFFICES ASSUME IInv, NEW ws \in WindowSets, Invalid \notin ws, ~Open(ws, now),
                      \A w \in ws : w.start # w.end
               PROVE  LET hint == Hint(ws, now)
                          soon == now .. (now + DayLength * (WeekLength + 1))
                      IN IF hint = None THEN \A t \in soon : ~Open(ws, t)
                         ELSE Open(ws, hint) /\ \A t \in now .. hint - 1 : ~Open(ws, t)
    BY DEF HintIsNext
  <2> DEFINE n == now
             hs == {NextStart(w, n) : w \in ws} \ {None}
             hint == Hint(ws, n)
  <2>1. n \in Nat
    BY GatesAssumption DEF IInv, Typed, GatesAssumption
  <2>2. ws \subseteq AllWindows
    BY DEF WindowSets, AllWindows
  <2>3. ASSUME NEW w \in ws
        PROVE  LET x == NextStart(w, n)
               IN  /\ x # None => x \in Nat /\ x > n /\ Contains(w, x)
                   /\ \A t \in Nat : n <= t /\ Contains(w, t) => x # None /\ x <= t
    BY <2>1, <2>2, OneWindow DEF Open
  <2>4. hint = Earliest(hs)
    BY DEF Hint
  <2>5. hs \subseteq Nat
    BY <2>3
  <2>6. ASSUME NEW t \in Nat, n <= t, Open(ws, t) PROVE \E x \in hs : x <= t
    <3>1. PICK w \in ws : Contains(w, t)
      BY <2>6 DEF Open
    <3>2. NextStart(w, n) # None /\ NextStart(w, n) <= t
      BY <2>3, <2>6, <3>1
    <3> QED BY <3>2
  <2>7. DayLength * (WeekLength + 1) \in Nat
    BY GatesAssumption DEF GatesAssumption
  <2>8. CASE hs = {}
    <3>1. hint = None
      BY <2>4, <2>8 DEF Earliest
    <3>2. \A t \in n .. (n + DayLength * (WeekLength + 1)) : ~Open(ws, t)
      BY <2>1, <2>6, <2>7, <2>8
    <3> QED BY <3>1, <3>2
  <2>9. CASE hs # {}
    <3>1. hint \in hs /\ \A u \in hs : hint <= u
      BY <2>4, <2>5, <2>9, EarliestIsLeast
    <3>2. hint # None /\ hint \in Nat
      BY <2>5, <3>1
    <3>3. Open(ws, hint)
      BY <2>3, <3>1 DEF Open
    <3>4. ASSUME NEW t \in n .. hint - 1, Open(ws, t) PROVE FALSE
      <4>1. t \in Nat /\ n <= t /\ t < hint
        BY <2>1, <3>2
      <4>2. PICK x \in hs : x <= t
        BY <2>6, <3>4, <4>1
      <4>3. hint <= x /\ x \in Nat
        BY <2>5, <3>1
      <4> QED BY <3>2, <4>1, <4>2, <4>3
    <3> QED BY <3>2, <3>3, <3>4
  <2> QED BY <2>8, <2>9
<1> QED BY <1>1, Invariant, PTL
=============================================================================
