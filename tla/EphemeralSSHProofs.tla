------------------------- MODULE EphemeralSSHProofs -------------------------
(* Proofs about EphemeralSSH, for every value of its constants.            *)
EXTENDS EphemeralSSH, TLAPS

Flying == {"detect", "widen", "transfer", "restore"}

Xfer == [stage: Stage, saved: SSHRow, ips: SUBSET Sources, err: BOOLEAN]

(***************************************************************************)
(* Part 1.  How a step of one transfer changes the set of those in flight. *)
(***************************************************************************)

\* A transfer that goes on to another stage of a flight stays in flight.
LEMMA StaysInFlight ==
    ASSUME TypeOK, NEW t \in InFlight, NEW x \in Xfer, x.stage \in Flying,
           xfer' = [xfer EXCEPT ![t] = x]
    PROVE  InFlight' = InFlight
BY DEF TypeOK, InFlight, Flying, Xfer

\* A transfer that exits or is killed leaves the flight, the others stay.
LEMMA LeavesFlight ==
    ASSUME TypeOK, NEW t \in Transfers, NEW stage \in Stage \ Flying, Goto(t, stage)
    PROVE  InFlight' = InFlight \ {t}
BY DEF TypeOK, InFlight, Flying, Goto, Stage

\* A transfer that captures joins the flight.
LEMMA JoinsFlight ==
    ASSUME TypeOK, NEW t \in Transfers, Capture(t)
    PROVE  InFlight' = InFlight \cup {t} /\ t \notin InFlight
BY DEF TypeOK, InFlight, Capture, At, Stage

(***************************************************************************)
(* Part 2.  Typing, and that whoever overlaps or fails the allowlist that   *)
(* was there is not narrowed.  A transfer sets the row from the copy it     *)
(* captured, so the claim about the row is made of every copy too.          *)
(***************************************************************************)

\* The row lets in at least whom the row found at first let in by name.
Wide(row) ==
    /\ base.address # {} => base.address \subseteq row.address
    /\ ~base.disabled => ~row.disabled

WideInv ==
    /\ TypeOK
    /\ Wide(ssh)
    /\ \A t \in Transfers : Wide(xfer[t].saved)

\* The row a transfer sets to let its caller in is a row, and is wide.
LEMMA WidenedWide ==
    ASSUME WideInv, NEW t \in Transfers
    PROVE  Widened(t) \in SSHRow /\ Wide(Widened(t))
<1>1. xfer[t].saved \in SSHRow /\ xfer[t].ips \in SUBSET Sources /\ Wide(xfer[t].saved)
  BY DEF WideInv, TypeOK
<1> QED BY <1>1 DEF Widened, Wide, SSHRow

\* A step that gives one transfer a well-typed, wide state keeps WideInv, if what it
\* does to the row and to the history is in order.
LEMMA WideStepOf ==
    ASSUME WideInv, NEW t \in Transfers, NEW x \in Xfer, Wide(x.saved),
           xfer' = [xfer EXCEPT ![t] = x], UNCHANGED base,
           ssh' \in SSHRow, Wide(ssh'),
           first' \in InFlight' \cup {None}, joined' \in BOOLEAN, crossed' \in BOOLEAN,
           left' \subseteq Transfers
    PROVE  WideInv'
<1>1. xfer' \in [Transfers -> Xfer] /\ \A u \in Transfers : Wide(xfer'[u].saved)
  BY DEF WideInv, TypeOK, Xfer
<1>3. Wide(ssh)' /\ \A u \in Transfers : Wide(xfer[u].saved)'
  BY <1>1 DEF Wide
<1>4. TypeOK'
  BY <1>1 DEF TypeOK, WideInv, Xfer
<1> QED BY <1>3, <1>4 DEF WideInv

\* The history of an end is well-typed, whatever the end.
LEMMA LeavesTyped ==
    ASSUME TypeOK, NEW t \in InFlight, NEW how, Leaves(t, how), InFlight' = InFlight \ {t}
    PROVE  /\ first' \in InFlight' \cup {None} /\ joined' \in BOOLEAN
           /\ crossed' \in BOOLEAN /\ left' \subseteq Transfers
BY DEF TypeOK, Leaves, InFlight

\* A transfer that exits or is killed keeps its copy, hence WideInv.
LEMMA EndWide ==
    ASSUME WideInv, NEW t \in InFlight, NEW stage \in Stage \ Flying, Goto(t, stage),
           NEW how, Leaves(t, how), UNCHANGED base, ssh' \in SSHRow, Wide(ssh')
    PROVE  WideInv'
<1> DEFINE x == [xfer[t] EXCEPT !.stage = stage]
<1>1. t \in Transfers /\ xfer[t] \in Xfer /\ Wide(xfer[t].saved)
  BY DEF WideInv, TypeOK, InFlight, Xfer
<1>2. x \in Xfer /\ Wide(x.saved)
  BY <1>1 DEF Xfer, Wide
<1>3. xfer' = [xfer EXCEPT ![t] = x]
  BY DEF Goto
<1>4. InFlight' = InFlight \ {t}
  BY <1>1, LeavesFlight DEF WideInv
<1>5. /\ first' \in InFlight' \cup {None} /\ joined' \in BOOLEAN
      /\ crossed' \in BOOLEAN /\ left' \subseteq Transfers
  BY <1>4, LeavesTyped DEF WideInv
<1> HIDE DEF x
<1> QED BY <1>1, <1>2, <1>3, <1>5, WideStepOf

\* A transfer that goes on, with the copy it has, keeps WideInv.
LEMMA OnWide ==
    ASSUME WideInv, NEW t \in InFlight, NEW x \in Xfer, x.stage \in Flying,
           x.saved = xfer[t].saved, xfer' = [xfer EXCEPT ![t] = x],
           UNCHANGED <<base, history>>, ssh' \in SSHRow, Wide(ssh')
    PROVE  WideInv'
<1>1. t \in Transfers /\ Wide(x.saved)
  BY DEF WideInv, InFlight, Wide
<1>2. InFlight' = InFlight
  BY StaysInFlight DEF WideInv
<1>3. /\ first' \in InFlight' \cup {None} /\ joined' \in BOOLEAN
      /\ crossed' \in BOOLEAN /\ left' \subseteq Transfers
  BY <1>2 DEF WideInv, TypeOK, history
<1> QED BY <1>1, <1>3, WideStepOf

\* Every step of a transfer keeps WideInv.
LEMMA WideStep == WideInv /\ [Next]_vars => WideInv'
<1> SUFFICES ASSUME WideInv, [Next]_vars PROVE WideInv'
  OBVIOUS
<1>0. TypeOK /\ ssh \in SSHRow /\ Wide(ssh)
  BY DEF WideInv, TypeOK
<1>1. ASSUME NEW t \in Transfers
      PROVE  xfer[t] \in Xfer /\ xfer[t].saved \in SSHRow /\ Wide(xfer[t].saved)
  BY DEF WideInv, TypeOK, Xfer
<1>2. ASSUME NEW t \in Transfers, NEW stage \in Flying, At(t, stage) PROVE t \in InFlight
  BY <1>2 DEF InFlight, Flying, At
<1>3. CASE UNCHANGED vars
  BY <1>3 DEF WideInv, Wide, TypeOK, InFlight, vars, history
<1>4. ASSUME NEW t \in Transfers, Direct(t) PROVE WideInv'
  <2>1. PICK stage \in {"ok", "error"} : Goto(t, stage)
    BY <1>4 DEF Direct
  <2> DEFINE x == [xfer[t] EXCEPT !.stage = stage]
  <2>2. x \in Xfer /\ Wide(x.saved) /\ xfer' = [xfer EXCEPT ![t] = x]
    BY <1>1, <2>1 DEF Goto, Xfer, Stage, Wide
  <2>3. InFlight' = InFlight
    BY <1>0, <1>4, <2>1 DEF Direct, InFlight, At, Goto, TypeOK
  <2> HIDE DEF x
  <2> QED BY <1>0, <1>4, <2>2, <2>3, WideStepOf DEF Direct, history, TypeOK
<1>5. ASSUME NEW t \in Transfers, Capture(t) PROVE WideInv'
  <2> DEFINE x == [xfer[t] EXCEPT !.stage = "detect", !.saved = ssh]
  <2>1. x \in Xfer /\ Wide(x.saved) /\ xfer' = [xfer EXCEPT ![t] = x]
    BY <1>0, <1>1, <1>5 DEF Capture, Xfer, Stage, Wide
  <2>2. InFlight' = InFlight \cup {t}
    BY <1>0, <1>5, JoinsFlight
  <2> HIDE DEF x
  <2> QED BY <1>0, <1>5, <2>1, <2>2, WideStepOf DEF Capture, TypeOK
<1>6. ASSUME NEW t \in Transfers, Detect(t) PROVE WideInv'
  <2>1. PICK ips \in SUBSET Addresses[t] :
             xfer' = [xfer EXCEPT ![t].stage = "widen", ![t].ips = ips]
    BY <1>6 DEF Detect
  <2> DEFINE x == [xfer[t] EXCEPT !.stage = "widen", !.ips = ips]
  <2>2. ips \in SUBSET Sources
    BY SSHAssumption
  <2>3. x \in Xfer /\ x.stage \in Flying /\ x.saved = xfer[t].saved
    BY <1>1, <2>2 DEF Xfer, Stage, Flying
  <2>4. xfer' = [xfer EXCEPT ![t] = x] /\ t \in InFlight
    BY <1>2, <1>6, <2>1 DEF Detect, Flying
  <2> HIDE DEF x
  <2> QED BY <1>0, <1>6, <2>3, <2>4, OnWide DEF Detect
<1>7. ASSUME NEW t \in Transfers, DetectFails(t) PROVE WideInv'
  BY <1>0, <1>2, <1>7, EndWide DEF DetectFails, Flying, Stage
<1>8. ASSUME NEW t \in Transfers, Widen(t) PROVE WideInv'
  <2> DEFINE x == [xfer[t] EXCEPT !.stage = "transfer"]
  <2>1. x \in Xfer /\ x.stage \in Flying /\ x.saved = xfer[t].saved
    BY <1>1 DEF Xfer, Stage, Flying
  <2>2. xfer' = [xfer EXCEPT ![t] = x] /\ t \in InFlight
    BY <1>2, <1>8 DEF Widen, Goto, Flying
  <2>3. ssh' \in SSHRow /\ Wide(ssh')
    BY <1>8, WidenedWide DEF Widen
  <2> HIDE DEF x
  <2> QED BY <1>8, <2>1, <2>2, <2>3, OnWide DEF Widen
<1>9. ASSUME NEW t \in Transfers, WidenFails(t) PROVE WideInv'
  <2>1. t \in InFlight /\ Goto(t, "error") /\ UNCHANGED base
    BY <1>2, <1>9 DEF WidenFails, Flying
  <2>2. PICK how : Leaves(t, how)
    BY <1>9 DEF WidenFails
  <2>3. ssh' \in SSHRow /\ Wide(ssh')
    BY <1>0, <1>9, WidenedWide DEF WidenFails
  <2> QED BY <2>1, <2>2, <2>3, EndWide DEF Flying, Stage
<1>10. ASSUME NEW t \in Transfers, Fetch(t) \/ FetchFails(t) PROVE WideInv'
  <2>1. PICK err \in BOOLEAN : xfer' = [xfer EXCEPT ![t].stage = "restore", ![t].err = err]
    BY <1>10 DEF Fetch, FetchFails
  <2> DEFINE x == [xfer[t] EXCEPT !.stage = "restore", !.err = err]
  <2>2. x \in Xfer /\ x.stage \in Flying /\ x.saved = xfer[t].saved
    BY <1>1 DEF Xfer, Stage, Flying
  <2>3. xfer' = [xfer EXCEPT ![t] = x] /\ t \in InFlight
    BY <1>2, <1>10, <2>1 DEF Fetch, FetchFails, Flying
  <2> HIDE DEF x
  <2> QED BY <1>0, <1>10, <2>2, <2>3, OnWide DEF Fetch, FetchFails
<1>11. ASSUME NEW t \in Transfers, Restore(t) \/ RestoreFails(t) PROVE WideInv'
  <2>1. PICK stage \in {"ok", "error"} : Goto(t, stage)
    BY <1>11 DEF Restore, RestoreFails, Exit
  <2>2. PICK how : Leaves(t, how)
    BY <1>11 DEF Restore, RestoreFails
  <2>3. t \in InFlight /\ UNCHANGED base /\ ssh' \in SSHRow /\ Wide(ssh')
    BY <1>0, <1>1, <1>2, <1>11 DEF Restore, RestoreFails, Flying
  <2> QED BY <2>1, <2>2, <2>3, EndWide DEF Flying, Stage
<1>12. ASSUME NEW t \in Transfers, Killed(t) PROVE WideInv'
  <2>1. PICK how : Leaves(t, how)
    BY <1>12 DEF Killed
  <2> QED BY <1>0, <1>12, <2>1, EndWide DEF Killed, Flying, Stage
<1> QED BY <1>3, <1>4, <1>5, <1>6, <1>7, <1>8, <1>9, <1>10, <1>11, <1>12 DEF Next, Step

\* At the start the row is as found.
LEMMA WideInit == Init => WideInv
<1> SUFFICES ASSUME Init PROVE WideInv
  OBVIOUS
<1>1. base \in SSHRow /\ ssh = base
  BY SSHAssumption DEF Init, SSHRow
<1>2. xfer \in [Transfers -> Xfer] /\ \A t \in Transfers : xfer[t].saved = base
  BY <1>1 DEF Init, Xfer, Stage
<1> QED BY <1>1, <1>2 DEF Init, WideInv, TypeOK, Wide, Xfer

\* In every behaviour the row, the copies of it and the stages are ones the router
\* and a transfer can be in.
THEOREM SSHTypeCorrect == Spec => []TypeOK
<1>1. WideInv => TypeOK
  BY DEF WideInv
<1> QED BY <1>1, WideInit, WideStep, PTL DEF Spec

\* In every behaviour, with any number of transfers overlapping, being killed and
\* losing answers, nobody the allowlist named is shut out and an enabled service is
\* not disabled: what widens and what restores starts from a copy as wide.
THEOREM NeverNarrower == Spec => []NobodyShutOut
<1>1. WideInv => NobodyShutOut
  BY DEF WideInv, Wide, NobodyShutOut
<1> QED BY <1>1, WideInit, WideStep, PTL DEF Spec

(***************************************************************************)
(* Part 3.  LeftAsFound.  As long as nothing was left and nothing crossed,  *)
(* the first of the transfers in flight holds the row as found, and the row *)
(* is as found while that transfer is alone and has not set it.             *)
(***************************************************************************)

Untouched == {"detect", "widen"}

Orderly ==
    /\ InFlight = {} => ssh = base
    /\ InFlight # {} => first \in InFlight /\ xfer[first].saved = base
    /\ first # None /\ ~joined => InFlight = {first}
    /\ first # None /\ ~joined /\ xfer[first].stage \in Untouched => ssh = base

LeftInv == TypeOK /\ (left = {} /\ ~crossed => Orderly)

\* A transfer that ends leaves order behind: one that is not the first leaves the
\* first in flight; the first is, or was, the only one, and the row is as found.
LEMMA EndOrderly ==
    ASSUME TypeOK, LeftInv, NEW t \in InFlight, NEW stage \in Stage \ Flying,
           Goto(t, stage), UNCHANGED base,
           \/ Leaves(t, "unrestored")
           \/ Leaves(t, "untouched") /\ UNCHANGED ssh /\ xfer[t].stage \in Untouched
           \/ Leaves(t, "restored") /\ ssh' = xfer[t].saved,
           left' = {}, ~crossed'
    PROVE  Orderly'
<1>0. t \in Transfers
  BY DEF InFlight
<1>1. InFlight' = InFlight \ {t}
  BY <1>0, LeavesFlight
<1>2. \A u \in Transfers \ {t} : xfer'[u] = xfer[u]
  BY <1>0 DEF Goto, TypeOK
<1>3. left = {} /\ ~crossed
  BY DEF Leaves, TypeOK
<1>4. Orderly
  BY <1>3 DEF LeftInv
<1>5. ~Leaves(t, "unrestored")
  BY DEF Leaves
<1>6. first \in InFlight /\ xfer[first].saved = base /\ first # None
  BY <1>4, SSHAssumption DEF Orderly, InFlight
<1>7. CASE t = first
  <2>1. InFlight = {t} /\ first' = None
    BY <1>4, <1>5, <1>6, <1>7 DEF Leaves, Orderly
  <2>2. ssh' = base'
    BY <1>4, <1>5, <1>6, <1>7 DEF Leaves, Orderly
  <2>3. InFlight' = {}
    BY <1>1, <2>1
  <2> QED BY <2>1, <2>2, <2>3 DEF Orderly
<1>8. CASE t # first
  <2>1. first' = first /\ joined' = joined /\ first \in Transfers
    BY <1>5, <1>6, <1>8 DEF InFlight, TypeOK, Leaves
  <2>2. joined
    BY <1>4, <1>6, <1>8 DEF Orderly
  <2>3. first' \in InFlight' /\ xfer'[first'].saved = base'
    BY <1>1, <1>2, <1>6, <1>8, <2>1
  <2> QED BY <2>1, <2>2, <2>3 DEF Orderly
<1> QED BY <1>7, <1>8

\* A transfer that goes on keeps order: it keeps its copy, and if it is the first and
\* alone it leaves the row alone or is no longer untouched.
LEMMA OnOrderly ==
    ASSUME TypeOK, LeftInv, NEW t \in InFlight, NEW x \in Xfer, x.stage \in Flying,
           x.saved = xfer[t].saved, xfer' = [xfer EXCEPT ![t] = x],
           UNCHANGED <<base, history>>,
           x.stage \in Untouched => UNCHANGED ssh /\ xfer[t].stage \in Untouched,
           left' = {}, ~crossed'
    PROVE  Orderly'
<1>0. t \in Transfers /\ Orderly
  BY DEF InFlight, history, LeftInv
<1>1. InFlight' = InFlight
  BY StaysInFlight
<1>2. first \in InFlight /\ first \in Transfers /\ xfer[first].saved = base /\ first # None
  BY <1>0, SSHAssumption DEF Orderly, InFlight
<1>3. xfer'[first].saved = base
  BY <1>0, <1>2 DEF TypeOK
<1>4. ~joined => first = t
  BY <1>0, <1>2 DEF Orderly
<1>5. ~joined /\ xfer'[first].stage \in Untouched => ssh' = base
  BY <1>0, <1>2, <1>4 DEF Orderly, TypeOK
<1> QED BY <1>0, <1>1, <1>2, <1>3, <1>5 DEF Orderly, history

\* Every step keeps order, as long as nothing is left and nothing crossed.
LEMMA LeftStep == WideInv /\ LeftInv /\ [Next]_vars => LeftInv'
<1> SUFFICES ASSUME WideInv, LeftInv, [Next]_vars, left' = {}, ~crossed' PROVE Orderly'
  BY WideStep DEF LeftInv, WideInv
<1>0. TypeOK
  BY DEF WideInv
<1>1. ASSUME NEW t \in Transfers PROVE xfer[t] \in Xfer
  BY <1>0 DEF TypeOK, Xfer
<1>2. ASSUME NEW t \in Transfers, NEW stage \in Flying, At(t, stage) PROVE t \in InFlight
  BY <1>2 DEF InFlight, Flying, At
<1>3. CASE UNCHANGED vars
  BY <1>3 DEF LeftInv, Orderly, InFlight, vars, history
<1>4. ASSUME NEW t \in Transfers, Direct(t) PROVE Orderly'
  <2>1. PICK stage \in {"ok", "error"} : Goto(t, stage)
    BY <1>4 DEF Direct
  <2>2. InFlight' = InFlight /\ \A u \in Transfers \ {t} : xfer'[u] = xfer[u]
    BY <1>0, <1>4, <2>1 DEF Direct, InFlight, At, Goto, TypeOK
  <2>3. Orderly /\ t \notin InFlight /\ (first # None => first \in InFlight)
    BY <1>0, <1>4 DEF LeftInv, Direct, InFlight, At, history, TypeOK
  <2>4. first # None => xfer'[first] = xfer[first]
    BY <2>2, <2>3 DEF InFlight
  <2>5. InFlight # {} => first # None
    BY <2>3, SSHAssumption DEF Orderly, InFlight
  <2> QED BY <1>4, <2>2, <2>3, <2>4, <2>5 DEF Direct, Orderly, history
<1>5. ASSUME NEW t \in Transfers, Capture(t) PROVE Orderly'
  <2>1. InFlight' = InFlight \cup {t} /\ t \notin InFlight
    BY <1>0, <1>5, JoinsFlight
  <2>2. Orderly
    BY <1>5 DEF LeftInv, Capture
  <2>3. xfer'[t].saved = ssh /\ \A u \in Transfers \ {t} : xfer'[u] = xfer[u]
    BY <1>0, <1>5 DEF Capture, TypeOK
  <2>4. CASE InFlight = {}
    BY <1>5, <2>1, <2>2, <2>3, <2>4 DEF Capture, Orderly
  <2>5. CASE InFlight # {}
    <3>1. first' = first /\ joined' /\ first \in InFlight /\ xfer[first].saved = base
      BY <1>5, <2>2, <2>5 DEF Capture, Orderly
    <3>2. xfer'[first] = xfer[first]
      BY <2>1, <2>3, <3>1 DEF InFlight
    <3> QED BY <1>5, <2>1, <3>1, <3>2 DEF Capture, Orderly
  <2> QED BY <2>4, <2>5
<1>6. ASSUME NEW t \in Transfers, Detect(t) PROVE Orderly'
  <2>1. PICK ips \in SUBSET Addresses[t] :
             xfer' = [xfer EXCEPT ![t].stage = "widen", ![t].ips = ips]
    BY <1>6 DEF Detect
  <2> DEFINE x == [xfer[t] EXCEPT !.stage = "widen", !.ips = ips]
  <2>2. x \in Xfer /\ x.stage \in Flying /\ x.saved = xfer[t].saved
    BY <1>1, SSHAssumption DEF Xfer, Stage, Flying
  <2>3. xfer' = [xfer EXCEPT ![t] = x] /\ t \in InFlight
    BY <1>2, <1>6, <2>1 DEF Detect, Flying
  <2>4. UNCHANGED <<ssh, base, history>> /\ xfer[t].stage \in Untouched
    BY <1>6 DEF Detect, At, Untouched
  <2> HIDE DEF x
  <2> QED BY <1>0, <2>2, <2>3, <2>4, OnOrderly
<1>7. ASSUME NEW t \in Transfers, DetectFails(t) PROVE Orderly'
  BY <1>0, <1>2, <1>7, EndOrderly DEF DetectFails, At, Untouched, Flying, Stage
<1>8. ASSUME NEW t \in Transfers, Widen(t) PROVE Orderly'
  <2> DEFINE x == [xfer[t] EXCEPT !.stage = "transfer"]
  <2>1. x \in Xfer /\ x.stage \in Flying \ Untouched /\ x.saved = xfer[t].saved
    BY <1>1 DEF Xfer, Stage, Flying, Untouched
  <2>2. xfer' = [xfer EXCEPT ![t] = x] /\ t \in InFlight /\ UNCHANGED <<base, history>>
    BY <1>2, <1>8 DEF Widen, Goto, Flying
  <2> HIDE DEF x
  <2> QED BY <1>0, <2>1, <2>2, OnOrderly
<1>9. ASSUME NEW t \in Transfers, WidenFails(t) PROVE Orderly'
  BY <1>0, <1>2, <1>9, EndOrderly DEF WidenFails, At, Untouched, Flying, Stage
<1>10. ASSUME NEW t \in Transfers, Fetch(t) \/ FetchFails(t) PROVE Orderly'
  <2>1. PICK err \in BOOLEAN : xfer' = [xfer EXCEPT ![t].stage = "restore", ![t].err = err]
    BY <1>10 DEF Fetch, FetchFails
  <2> DEFINE x == [xfer[t] EXCEPT !.stage = "restore", !.err = err]
  <2>2. x \in Xfer /\ x.stage \in Flying \ Untouched /\ x.saved = xfer[t].saved
    BY <1>1 DEF Xfer, Stage, Flying, Untouched
  <2>3. xfer' = [xfer EXCEPT ![t] = x] /\ t \in InFlight /\ UNCHANGED <<base, history>>
    BY <1>2, <1>10, <2>1 DEF Fetch, FetchFails, Flying
  <2> HIDE DEF x
  <2> QED BY <1>0, <2>2, <2>3, OnOrderly
<1>11. ASSUME NEW t \in Transfers, Restore(t) PROVE Orderly'
  <2>1. PICK stage \in {"ok", "error"} : Goto(t, stage)
    BY <1>11 DEF Restore, Exit
  <2> QED BY <1>0, <1>2, <1>11, <2>1, EndOrderly DEF Restore, Flying, Stage
<1>12. ASSUME NEW t \in Transfers, RestoreFails(t) PROVE Orderly'
  <2>1. PICK stage \in {"ok", "error"} : Goto(t, stage)
    BY <1>12 DEF RestoreFails, Exit
  <2> QED BY <1>0, <1>2, <1>12, <2>1, EndOrderly DEF RestoreFails, Flying, Stage
<1>13. ASSUME NEW t \in Transfers, Killed(t) PROVE Orderly'
  <2>1. t \in InFlight /\ Goto(t, "killed") /\ UNCHANGED <<ssh, base>>
    BY <1>13 DEF Killed
  <2>2. \/ Leaves(t, "unrestored")
        \/ Leaves(t, "untouched") /\ xfer[t].stage \in Untouched
    BY <1>13 DEF Killed, Untouched
  <2> QED BY <1>0, <2>1, <2>2, EndOrderly DEF Flying, Stage
<1> QED BY <1>3, <1>4, <1>5, <1>6, <1>7, <1>8, <1>9, <1>10, <1>11, <1>12, <1>13
       DEF Next, Step

\* At the start nobody is in flight and the row is as found.
LEMMA LeftInit == Init => LeftInv
<1> SUFFICES ASSUME Init PROVE Orderly
  BY WideInit DEF LeftInv, WideInv
<1>1. InFlight = {}
  BY DEF Init, InFlight
<1> QED BY <1>1 DEF Init, Orderly

\* In every behaviour, transfers that overlap put the row back as they found it, if
\* none ends without restoring what it set and the first to capture ends last.
THEOREM RestoredTogether == Spec => []LeftAsFound
<1>1. LeftInv => LeftAsFound
  BY DEF LeftInv, Orderly, LeftAsFound
<1> QED BY <1>1, WideInit, WideStep, LeftInit, LeftStep, PTL DEF Spec
=============================================================================
