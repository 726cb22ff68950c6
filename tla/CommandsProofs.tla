--------------------------- MODULE CommandsProofs ---------------------------
(***************************************************************************)
(* What a command does to the router and to the journal, for any number of   *)
(* attempts, any room in the session and any behaviour of the router.        *)
(*                                                                          *)
(* The first half is about calls.  While a command runs, a lost answer can    *)
(* only be that of the call it is at (LostHere), which can no longer succeed:  *)
(* the connection is down, a listed write is handed back at once with the      *)
(* error that lost it, and whatever else is tried again fails the same way.    *)
(* That the command then leaves with that error is what ProgramsAssumption     *)
(* says of its reads and of its wrapped writes.  And a write that is about to  *)
(* be tried has not been sent (Fresh).                                        *)
(*                                                                          *)
(* The second half is about commands, and uses of them what ProgramsAssumption*)
(* says: that checks come before changes, a record after its write, and a gate  *)
(* before each change of a gated command.  The invariant counts.  What the     *)
(* router did is bounded by the instructions behind the command (Made); in a   *)
(* safe session it is what the journal holds, but for the one change that is   *)
(* made and not yet recorded (Due, Balanced), for which the gate has kept       *)
(* room (RoomKept) and what was read, or journalable, an inverse.               *)
(***************************************************************************)
EXTENDS Commands, FiniteSetTheorems, TLAPS

Request ==
    [st : {"none", "try", "sent", "back", "ok", "failed"}, sends : Nat, tries : Nat,
     last : {"none", "late", "busy", "refused", "readonly"} \cup Losses]

LostCall == [op : {"read", "write", "cleanup"}, word : ChangeWords, why : Losses]

\* The lost answer is that of the call under way, which will fail.
Pending(l) ==
    /\ At({"read", "write"}) /\ l.op = This.op /\ l.word = This.word
    /\ link = "down"
    /\ req.st \in {"try", "back", "failed"} /\ req.last \in Losses \cup {"late"}
    /\ IsMutating(l.word) => req.st # "try" /\ req.last = l.why

LostHere == Running => \A l \in unknown : l.op = "cleanup" \/ Pending(l)

Fresh ==
    (Calling /\ IsMutating(This.word)) =>
        /\ req.sends <= 1
        /\ req.st \in {"none", "try"} => req.sends = 0

IInv ==
    /\ req \in Request /\ prog \in Programs /\ unknown \subseteq LostCall
    /\ LostHere
    /\ LostAnswersAmbiguous
    /\ Fresh
    /\ ~Calling => req = NoCall

\* No answer but that of a clean-up is lost.
Quiet == \A l \in unknown : l.op = "cleanup"

-----------------------------------------------------------------------------
(* Between calls.                                                            *)

LEMMA NoCallRequest == NoCall \in Request /\ NoCall.sends = 0
<1>1. NoCall.sends = 0
  BY DEF NoCall
<1>2. NoCall \in Request
  BY DEF NoCall, Request
<1> QED BY <1>1, <1>2

\* With no call under way and no answer lost there is nothing to show.
LEMMA Settled ==
    ASSUME req = NoCall, prog \in Programs, unknown \subseteq LostCall, Quiet PROVE IInv
<1>1. req \in Request
  BY NoCallRequest
<1>2. LostHere /\ LostAnswersAmbiguous
  BY DEF Quiet, LostHere, LostAnswersAmbiguous
<1>3. req.sends = 0
  BY NoCallRequest
<1>4. Fresh
  BY <1>3 DEF Fresh
<1> QED BY <1>1, <1>2, <1>4 DEF IInv

LEMMA SettledNext ==
    ASSUME IInv, req' = NoCall, UNCHANGED <<prog, unknown>>, Quiet PROVE IInv'
<1>1. req' \in Request
  BY NoCallRequest
<1>2. LostHere' /\ LostAnswersAmbiguous'
  BY DEF Quiet, LostHere, LostAnswersAmbiguous
<1>3. req'.sends = 0
  BY NoCallRequest
<1>4. Fresh'
  BY <1>3 DEF Fresh
<1> QED BY <1>1, <1>2, <1>4 DEF IInv, NoCall

LEMMA Initially == Init => IInv
BY Settled DEF Init, Quiet

\* Only a read or a write that is failing has a lost answer.
LEMMA QuietHere ==
    ASSUME IInv, Running, ~At({"read", "write"}) \/ req.st \notin {"try", "back", "failed"}
    PROVE  Quiet
BY DEF IInv, LostHere, Pending, Quiet

\* A step of the command that is not at a call.
LEMMA Aside ==
    ASSUME IInv, Running, ~Calling, UNCHANGED <<prog, req, unknown>> PROVE IInv'
<1>1. ~At({"read", "write"})
  BY DEF Calling, At
<1> QED BY <1>1, QuietHere, SettledNext DEF IInv

\* An instruction is one thing only.
LEMMA OneOp ==
    ASSUME NEW A, NEW B, At(A), A \cap B = {} PROVE ~At(B)
BY DEF At

\* What the programs are known to call.
LEMMA Calls ==
    ASSUME IInv, Calling
    PROVE  /\ Changes(This.word) => This.op \in {"read", "write", "cleanup"}
           /\ Changes(This.word) /\ This.op = "read" => This.word = ExportFile /\ This.flag
           /\ This.op = "write" /\ This.flag => IsMutating(This.word)
<1>1. WellFormed(prog) /\ pc \in 1 .. Len(prog) /\ This = prog[pc]
  BY ProgramsAssumption DEF IInv, ProgramsAssumption, Calling, At, This
<1>2. This.op \in {"read", "waiting", "poll", "write", "cleanup", "resolve"}
  BY DEF Calling, At, This
<1>3. ASSUME Changes(This.word), This.op \in {"read", "resolve", "waiting", "poll"}
      PROVE  This = Call(ExportFile)
  BY <1>1, <1>3 DEF WellFormed, ReadsOnlyRead, OpAt, WordAt, Changes
<1>4. This.op = "write" /\ This.flag => IsMutating(This.word)
  BY <1>1 DEF WellFormed, WrapsListed, OpAt
<1>5. /\ Call(ExportFile).op = "read" /\ Call(ExportFile).word = ExportFile
      /\ Call(ExportFile).flag
  BY DEF Call, Instr
<1> QED BY <1>2, <1>3, <1>4, <1>5

LEMMA ExportRead == ~IsMutating(ExportFile)
BY DEF IsMutating, Mutating, ExportFile

-----------------------------------------------------------------------------
(* Within a call.                                                            *)

Within == Calling /\ UNCHANGED <<prog, opts, pc, action, exit>>

LEMMA SameCall ==
    ASSUME Within
    PROVE  /\ Running /\ Running' /\ Calling' /\ This' = This
           /\ At({"read", "write"})' <=> At({"read", "write"})
           /\ At({"cleanup"})' <=> At({"cleanup"})
           /\ IsMutating(This.word)' <=> IsMutating(This.word)
<1>1. Running /\ Running'
  BY DEF Within, Calling, At, Running
<1>2. Calling'
  BY DEF Within, Calling, At, Running
<1>3. This' = This
  BY DEF Within, This
<1>4. /\ At({"read", "write"})' <=> At({"read", "write"})
      /\ At({"cleanup"})' <=> At({"cleanup"})
  BY DEF Within, At, Running
<1>5. IsMutating(This.word)' <=> IsMutating(This.word)
  BY <1>3 DEF IsMutating
<1> QED BY <1>1, <1>2, <1>3, <1>4, <1>5

\* A lost answer stays pending while its call goes on failing.
LEMMA StaysPending ==
    ASSUME Within, LostHere, UNCHANGED <<unknown, link>>,
           req'.st \in {"try", "back", "failed"}, req'.last \in Losses \cup {"late"},
           IsMutating(This.word) => req'.st # "try" /\ req'.last = req.last
    PROVE  LostHere'
<1> SUFFICES ASSUME NEW l \in unknown PROVE l.op = "cleanup" \/ Pending(l)'
  BY DEF LostHere
<1>1. CASE l.op = "cleanup"
  BY <1>1
<1>2. CASE Pending(l)
  BY <1>2, SameCall DEF Pending, IsMutating
<1> QED BY <1>1, <1>2, SameCall DEF LostHere

\* The history is in order while the command runs.
LEMMA NotOver == ASSUME Running' PROVE LostAnswersAmbiguous'
BY DEF LostAnswersAmbiguous

LEMMA IssueStep == ASSUME IInv, Issue PROVE IInv'
<1>1. Within /\ unknown' = unknown
  BY DEF Issue, Within
<1>2. req.st = "none" /\ req.sends = 0
  BY DEF Issue, NoCall
<1>3. req' \in Request /\ req'.sends = 0
  BY DEF Issue, NoCall, Request
<1>4. Quiet
  BY <1>1, <1>2, SameCall, QuietHere
<1>5. LostHere' /\ LostAnswersAmbiguous'
  BY <1>1, <1>4, SameCall, NotOver DEF LostHere, Quiet
<1>6. Fresh'
  BY <1>3 DEF Fresh
<1> QED BY <1>1, <1>3, <1>5, <1>6, SameCall DEF IInv, Within

LEMMA SendStep == ASSUME IInv, Send PROVE IInv'
<1>1. Within /\ UNCHANGED <<unknown, link>> /\ req.st = "try"
  BY DEF Send, Within
<1>2. req \in Request
  BY DEF IInv
<1> DEFINE Fails == /\ req' \in Request /\ req'.st \in {"back", "failed"}
                    /\ req'.sends = req.sends
                    /\ req'.last \in Losses \cup {"late", req.last}
           Sends == /\ link = "up" /\ req' \in Request /\ req'.st = "sent"
                    /\ req'.sends = req.sends + 1
<1>3. Fails \/ Sends
  <2>1. CASE late /\ ~At({"cleanup"}) /\ req'.st = "failed"
    <3>1. PICK why \in {req.last, "late"} : req' = [req EXCEPT !.st = "failed", !.last = why]
      BY <1>2, <2>1 DEF Send, Request
    <3> QED BY <1>2, <3>1 DEF Request
  <2>2. ASSUME NEW why \in Losses, req' = [req EXCEPT !.st = "back", !.last = why]
        PROVE  Fails
    BY <1>2, <2>2 DEF Request
  <2>3. CASE link = "up" /\ req' = [req EXCEPT !.st = "sent", !.sends = req.sends + 1]
    <3>1. req.sends + 1 \in Nat
      BY <1>2 DEF Request
    <3> QED BY <1>2, <2>3, <3>1 DEF Request
  <2>4. \/ late /\ ~At({"cleanup"}) /\ req'.st = "failed"
        \/ \E why \in Losses : req' = [req EXCEPT !.st = "back", !.last = why]
        \/ link = "up" /\ req' = [req EXCEPT !.st = "sent", !.sends = req.sends + 1]
    BY <1>2 DEF Send, Request
  <2> QED BY <2>1, <2>2, <2>3, <2>4
<1>4. LostHere'
  <2>1. CASE Quiet
    BY <1>1, <2>1 DEF Quiet, LostHere
  <2>2. CASE ~Quiet
    <3>1. PICK l \in unknown : Pending(l)
      BY <1>1, <2>2, SameCall DEF Quiet, IInv, LostHere
    <3>2. link = "down" /\ ~IsMutating(This.word) /\ req.last \in Losses \cup {"late"}
      BY <1>1, <3>1 DEF Pending
    <3>3. Fails
      BY <1>3, <3>2
    <3> QED BY <1>1, <3>2, <3>3, StaysPending DEF IInv
  <2> QED BY <2>1, <2>2
<1>5. IsMutating(This.word) => req.sends = 0
  BY <1>1 DEF IInv, Fresh, Within
<1>6. Fresh'
  BY <1>1, <1>2, <1>3, <1>5, SameCall DEF Fresh
<1> QED BY <1>1, <1>3, <1>4, <1>6, SameCall, NotOver DEF IInv, Within

\* What the router answers, or the connection.
LEMMA AnswerStep ==
    ASSUME IInv, Within, req.st = "sent",
           req' \in Request, req'.st \in {"ok", "back"}, req'.sends = req.sends,
           unknown' \subseteq LostCall, Quiet => LostHere'
    PROVE  IInv'
<1>1. Quiet
  BY SameCall, QuietHere
<1>2. Fresh'
  BY SameCall DEF IInv, Fresh, Within
<1> QED BY <1>1, <1>2, SameCall, NotOver DEF IInv, Within

\* The answer to a change is lost.
LEMMA DropStep ==
    ASSUME IInv, NEW acted \in BOOLEAN, NEW why \in Losses, Drop(acted, why) PROVE IInv'
<1>1. Within /\ req.st = "sent" /\ link' = "down"
  BY DEF Drop, Within
<1>2. /\ req' \in Request /\ req'.st = "back" /\ req'.sends = req.sends
      /\ req'.last = why
  BY DEF IInv, Drop, Request
<1> DEFINE new == [op |-> This.op, word |-> This.word, why |-> why]
<1>3. CASE unknown' = unknown
  <2>1. Quiet => LostHere'
    BY <1>3 DEF Quiet, LostHere
  <2> QED BY <1>1, <1>2, <1>3, <2>1, AnswerStep DEF IInv
<1>4. CASE Changes(This.word) /\ unknown' = unknown \cup {new}
  <2>1. new \in LostCall
    BY <1>1, <1>4, Calls DEF Within, LostCall, Changes
  <2>2. ASSUME NEW l, l = new, l.op # "cleanup" PROVE Pending(l)'
    <3>0. l.op = This.op /\ l.word = This.word /\ l.why = why
      BY <2>2
    <3>1. This.op \in {"read", "write"}
      BY <1>1, <1>4, <2>2, <3>0, Calls DEF Within
    <3>2. At({"read", "write"})
      BY <1>1, <3>1, SameCall DEF Within, Calling, At, This
    <3> QED BY <1>1, <1>2, <3>0, <3>2, SameCall DEF Pending
  <2>3. Quiet => LostHere'
    BY <1>4, <2>2 DEF Quiet, LostHere
  <2> QED BY <1>1, <1>2, <1>4, <2>1, <2>3, AnswerStep DEF IInv
<1>5. unknown' = unknown \/ (Changes(This.word) /\ unknown' = unknown \cup {new})
  BY DEF Drop, Unanswered
<1> QED BY <1>3, <1>4, <1>5

LEMMA RouterStep == ASSUME IInv, Router PROVE IInv'
<1>1. ASSUME Within, UNCHANGED unknown PROVE Quiet => LostHere'
  BY <1>1 DEF Quiet, LostHere
<1>2. CASE Serve
  <2>1. req' \in Request /\ req'.st = "ok" /\ req'.sends = req.sends
    BY <1>2 DEF IInv, Serve, Request
  <2>2. Within /\ UNCHANGED unknown /\ req.st = "sent"
    BY <1>2 DEF Serve, Within
  <2> QED BY <1>1, <2>1, <2>2, AnswerStep DEF IInv
<1>3. ASSUME NEW why \in {"refused", "busy"}, Refuse(why) PROVE IInv'
  <2>1. req' \in Request /\ req'.st = "back" /\ req'.sends = req.sends
    BY <1>3 DEF IInv, Refuse, Request
  <2>2. Within /\ UNCHANGED unknown /\ req.st = "sent"
    BY <1>3 DEF Refuse, Within
  <2> QED BY <1>1, <2>1, <2>2, AnswerStep DEF IInv
<1> QED BY <1>2, <1>3, DropStep DEF Router

LEMMA RetryStep == ASSUME IInv, Retry PROVE IInv'
<1>1. Within /\ UNCHANGED <<unknown, link>> /\ req.st = "back"
  BY DEF Retry, Within
<1>2. req \in Request
  BY DEF IInv
<1>3. /\ req' \in Request /\ req'.sends = req.sends /\ req'.last = req.last
      /\ req'.st \in {"try", "failed"}
  <2>1. CASE Retries
    <3>1. req' = [req EXCEPT !.st = "try", !.tries = req.tries + 1]
      BY <2>1 DEF Retry
    <3>2. req.tries + 1 \in Nat
      BY <1>2 DEF Request
    <3> QED BY <1>2, <3>1, <3>2 DEF Request
  <2>2. CASE ~Retries
    BY <1>2, <2>2 DEF Retry, Request
  <2> QED BY <2>1, <2>2
<1>4. IsMutating(This.word) => req'.st = "failed"
  BY <1>2 DEF Retry, Retries, Request
<1>5. LostHere'
  <2>1. CASE Quiet
    BY <1>1, <2>1 DEF Quiet, LostHere
  <2>2. CASE ~Quiet
    <3>1. PICK l \in unknown : Pending(l)
      BY <1>1, <2>2, SameCall DEF Quiet, IInv, LostHere
    <3>2. req.last \in Losses \cup {"late"}
      BY <3>1 DEF Pending
    <3> QED BY <1>1, <1>3, <1>4, <3>2, StaysPending DEF IInv
  <2> QED BY <2>1, <2>2
<1>6. Fresh'
  BY <1>1, <1>3, <1>4, SameCall DEF IInv, Fresh, Within
<1> QED BY <1>1, <1>3, <1>5, <1>6, SameCall, NotOver DEF IInv, Within

LEMMA ExpireStep == ASSUME IInv, Expire PROVE IInv'
<1>1. UNCHANGED <<prog, opts, pc, link, action, exit, req, unknown>>
  BY DEF Expire, calls
<1> QED
  BY <1>1 DEF IInv, LostHere, Pending, LostAnswersAmbiguous, Fresh, Calling, At, Running, This,
              NoCall

-----------------------------------------------------------------------------
(* The steps of the command.                                                 *)

\* The answers a command goes on with.
LEMMA TakenStep ==
    ASSUME IInv, ReadAnswered \/ Waited \/ Polled \/ PollFailed \/ WriteAnswered
    PROVE  IInv'
<1>1. /\ Running /\ UNCHANGED <<prog, unknown>> /\ req' = NoCall
      /\ ~At({"read", "write"}) \/ req.st = "ok"
  BY DEF ReadAnswered, Waited, Polled, PollFailed, WriteAnswered, Answered, At
<1> QED BY <1>1, QuietHere, SettledNext

\* The command has left with an error, the right one for each lost answer.
LEMMA LeavesWith ==
    ASSUME IInv, UNCHANGED <<prog, unknown>>, req' = NoCall, exit' # "running",
           \A l \in unknown : l.op # "cleanup" =>
               exit' = IF IsMutating(l.word) /\ l.why = "lost" THEN "timeout" ELSE "api"
    PROVE  IInv'
<1>1. ~Running' /\ ~Calling'
  BY DEF Running, Calling, At
<1>2. req' \in Request
  BY NoCallRequest
<1>3. LostHere' /\ LostAnswersAmbiguous' /\ Fresh'
  BY <1>1 DEF LostHere, LostAnswersAmbiguous, Fresh, IsMutating
<1> QED BY <1>1, <1>2, <1>3 DEF IInv, NoCall

LEMMA ReadFailedStep == ASSUME IInv, ReadFailed PROVE IInv'
<1>1. /\ Calling /\ Running /\ req' = NoCall /\ UNCHANGED <<prog, unknown>>
      /\ This.flag => exit' = IF req.last = "readonly" THEN "read_only" ELSE "api"
      /\ ~At({"write"})
  BY DEF ReadFailed, Answered, Leave, At
<1>2. CASE Quiet
  BY <1>1, <1>2, SettledNext
<1>3. CASE ~Quiet
  <2>1. PICK k \in unknown : Pending(k)
    BY <1>1, <1>3 DEF Quiet, IInv, LostHere
  <2>2. This.op = "read" /\ Changes(This.word)
    <3>1. k.word \in ChangeWords
      BY DEF IInv, LostCall
    <3> QED BY <1>1, <2>1, <3>1 DEF Pending, At, This, Changes
  <2>3. This.word = ExportFile /\ This.flag
    BY <1>1, <2>2, Calls
  <2>4. req.last # "readonly"
    BY <2>1 DEF Pending, Losses
  <2>5. exit' = "api"
    BY <1>1, <2>3, <2>4
  <2>6. \A l \in unknown : l.op # "cleanup" => ~IsMutating(l.word)
    BY <1>1, <2>3, ExportRead DEF IInv, LostHere, Pending
  <2> QED BY <1>1, <2>5, <2>6, LeavesWith
<1> QED BY <1>2, <1>3

LEMMA WriteFailedStep == ASSUME IInv, WriteFailed PROVE IInv'
<1>1. /\ Calling /\ Running /\ At({"write"}) /\ req' = NoCall /\ UNCHANGED <<prog, unknown>>
      /\ exit' = WriteError(req.last, This.word, This.flag)
  BY DEF WriteFailed, Answered, Leave, At
<1>2. exit' # "running"
  BY <1>1 DEF WriteError
<1>3. ASSUME NEW l \in unknown, l.op # "cleanup"
      PROVE  exit' = IF IsMutating(l.word) /\ l.why = "lost" THEN "timeout" ELSE "api"
  <2>1. Pending(l)
    BY <1>1, <1>3 DEF IInv, LostHere
  <2>2. /\ This.op = "write" /\ l.word = This.word /\ req.last \in Losses \cup {"late"}
        /\ IsMutating(l.word) => req.last = l.why
    BY <1>1, <2>1 DEF Pending, At, This
  <2>3. This.flag => IsMutating(This.word)
    BY <1>1, <2>2, Calls
  <2>4. l.why \in Losses
    BY DEF IInv, LostCall
  <2>5. CASE IsMutating(This.word)
    BY <1>1, <2>2, <2>4, <2>5 DEF WriteError, Losses
  <2>6. CASE ~IsMutating(This.word)
    BY <1>1, <2>2, <2>3, <2>6 DEF WriteError, Losses
  <2> QED BY <2>5, <2>6
<1> QED BY <1>1, <1>2, <1>3, LeavesWith

LEMMA ResolvedStep == ASSUME IInv, Resolved PROVE IInv'
<1>1. At({"resolve"}) /\ Running /\ UNCHANGED <<prog, unknown>> /\ ~At({"read", "write"})
  BY DEF Resolved, At
<1>2. CASE opts.byId /\ UNCHANGED req
  <2>1. ~Calling
    BY <1>1, <1>2, OneOp DEF Calling, At
  <2> QED BY <1>1, <1>2, <2>1, Aside
<1>3. CASE Answered("ok")
  BY <1>1, <1>3, QuietHere, SettledNext DEF Answered
<1> QED BY <1>2, <1>3 DEF Resolved

LEMMA CleanedUpStep == ASSUME IInv, CleanedUp PROVE IInv'
<1>1. Running /\ UNCHANGED <<prog, unknown>> /\ ~At({"read", "write"})
  BY DEF CleanedUp, At
<1>2. req' = NoCall
  BY DEF CleanedUp, Answered
<1> QED BY <1>1, <1>2, QuietHere, SettledNext

Between ==
    \/ Connect \/ Finish
    \/ DryRunStep \/ ConfirmStep \/ PromptStep \/ GateStep \/ JournalableStep
    \/ UnchangedStep \/ GoneStep \/ OutcomeStep \/ Recorded
    \/ EnoughStep \/ DownloadStep \/ DownloadedStep

LEMMA BetweenStep == ASSUME IInv, Between PROVE IInv'
<1>1. Running /\ UNCHANGED <<prog, req, unknown>>
  BY DEF Between, Connect, Finish, DryRunStep, ConfirmStep, PromptStep, GateStep,
         JournalableStep, UnchangedStep, GoneStep, OutcomeStep, Recorded, EnoughStep,
         DownloadStep, DownloadedStep, At, calls
<1>2. ~Calling
  <2>1. CASE Connect \/ Finish
    BY <2>1 DEF Connect, Finish, Calling, At
  <2>2. CASE At({"dry-run", "confirm", "prompt", "gate", "journalable", "unchanged", "gone",
                 "outcome", "record", "enough", "download", "downloaded"})
    BY <2>2 DEF Calling, At
  <2> QED BY <2>1, <2>2 DEF Between, DryRunStep, ConfirmStep, PromptStep, GateStep,
         JournalableStep, UnchangedStep, GoneStep, OutcomeStep, Recorded, EnoughStep,
         DownloadStep, DownloadedStep, At
<1> QED BY <1>1, <1>2, Aside

-----------------------------------------------------------------------------
(* The theorems about calls.                                                 *)

LEMMA CallStep == ASSUME IInv, Next PROVE IInv'
<1>1. CASE Router
  BY <1>1, RouterStep
<1>2. CASE Expire
  BY <1>2, ExpireStep
<1>3. CASE Issue \/ Send \/ Retry
  BY <1>3, IssueStep, SendStep, RetryStep
<1>4. CASE ReadAnswered \/ Waited \/ Polled \/ PollFailed \/ WriteAnswered
  BY <1>4, TakenStep
<1>5. CASE ReadFailed \/ WriteFailed \/ Resolved \/ CleanedUp
  BY <1>5, ReadFailedStep, WriteFailedStep, ResolvedStep, CleanedUpStep
<1>6. CASE Between
  BY <1>6, BetweenStep
<1> QED BY <1>1, <1>2, <1>3, <1>4, <1>5, <1>6 DEF Next, Program, Between

LEMMA CallStutters == ASSUME IInv, UNCHANGED vars PROVE IInv'
BY DEF IInv, LostHere, Pending, LostAnswersAmbiguous, Fresh, Calling, At, Running, This, NoCall,
       vars

\* The invariant of the client: see the head of the module.
THEOREM Invariant == Spec => []IInv
BY Initially, CallStep, CallStutters, PTL DEF Spec

\* If a change was made and its answer lost, the command does not succeed, and the
\* error it ends with says which losses are told from a plain failure: those of a
\* listed write whose error is recognised.  (Run, MaybeAmbiguousWrite,
\* IsAmbiguousTransport.)
THEOREM LostIsAmbiguous == Spec => []LostAnswersAmbiguous
<1>1. IInv => LostAnswersAmbiguous
  BY DEF IInv
<1> QED BY Invariant, <1>1, PTL

\* No listed write is ever sent a second time, however many attempts reads are
\* given.  (readRetryClient.Run.)
THEOREM WriteSentOnce == Spec => []SentOnce
<1>1. IInv => SentOnce
  BY DEF IInv, Fresh, SentOnce
<1> QED BY Invariant, <1>1, PTL

-----------------------------------------------------------------------------
(* The invariant of the command.                                             *)

\* An attempt sends once at most.
Attempts ==
    req.sends <= req.tries + (IF req.st \in {"none", "try"} THEN 0 ELSE 1)

\* The command is past an instruction, or at it.
Reached(instructions) == \E i \in instructions : i <= pc
Past(instructions) == \E i \in instructions : i < pc

Untouched == executed = <<>> /\ journal = <<>>

\* Where a command may have changed the router.
Changing == WordAt(prog, ChangeWords)

\* What --read-only lets through.
OnlyExports == \A k \in DOMAIN executed : executed[k] = ExportFile

\* --read-only.
Obeying ==
    opts.readOnly =>
        /\ OnlyExports /\ journal = <<>>
        /\ Calling /\ IsWrite(This.word) => req.st \in {"none", "failed"}
        /\ \A i \in OpAt(prog, {"write"}) : i < pc => ~IsWrite(prog[i].word)

SaysNothingDone ==
    \/ action \in {"dry_run", "no_change", "cancelled"}
    \/ exit \in {"connection", "not_found", "conflict"}

\* What a command that must not write, or says it did not, has done and will do.
Restrained ==
    /\ Untouched \/ Reached(Changing)
    /\ Obeying
    /\ opts.dryRun => ~Past(OpAt(prog, {"dry-run"}))
    /\ SaysNothingDone => ~Running /\ Untouched
    /\ (req.last = "readonly" \/ exit = "read_only") => opts.readOnly

\* The instructions that may have made the change w: those behind it, and the one
\* it is at once the router may have acted.
Made(w) ==
    {i \in WordAt(prog, {w}) :
        i < pc \/ (i = pc /\ (~Running \/ req.st \in {"back", "ok", "failed"}))}

MadeOnce == \A w \in Mutating : Count(w, executed) <= Cardinality(Made(w))

Lost(w) == \E l \in unknown : l.op = "write" /\ l.word = w

\* A change that is made and not yet journaled.
Due(w) ==
    \/ At({"write"}) /\ This.word = w /\ (req.st = "ok" \/ Lost(w))
    \/ At({"record"}) /\ prog[pc - 1].word = w

Exempt(w) == w \in {"/set", "/remove"} /\ pre \in {"bare", "none", "failed"}

Unforced == opts.safe /\ ~missed /\ ~(opts.force /\ Has(prog, "journalable"))

Balanced ==
    (Unforced /\ exit \in {"running", "ok"}) =>
        \A w \in Configures :
            Exempt(w) \/ Count(w, executed) = Count(w, journal) + (IF Due(w) THEN 1 ELSE 0)

\* Since the gate was passed nothing has been recorded, and there is room.
RoomKept ==
    opts.safe => \A g \in OpAt(prog, {"gate"}) :
        g < pc /\ (g .. pc - 1) \cap OpAt(prog, {"record"}) = {} => Len(journal) < opts.room

\* What journalable promised still holds when the change is recorded.
InverseKept ==
    Unforced => \A i \in OpAt(prog, {"journalable"}) :
        i < pc /\ i + 1 \in WordAt(prog, Configures) => HasInverse(prog[i + 1].word)

ChangesReached ==
    \A k \in DOMAIN executed : executed[k] \in Configures => Reached(WordAt(prog, {executed[k]}))
JournalReached == \A k \in DOMAIN journal : Reached(WordAt(prog, {journal[k]}))

Journals ==
    /\ Balanced /\ RoomKept /\ InverseKept
    /\ ChangesReached /\ JournalReached
    /\ Past(OpAt(prog, {"read", "waiting"})) => pre # "unread"


-----------------------------------------------------------------------------
(* Type correctness.                                                         *)

Kinds == {"ok", "connection", "api", "read_only", "session", "timeout", "not_found", "conflict"}
Actions == {"dry_run", "no_change", "cancelled", "written"}

\* The command and its flags stay, it goes on by one instruction or stays, and
\* it says something only when it leaves or reports an outcome.
LEMMA Moves ==
    ASSUME Next
    PROVE  /\ UNCHANGED <<prog, opts>>
           /\ pc' = pc \/ pc' = pc + 1
           /\ Running
<1>1. CASE Router
  BY <1>1 DEF Router, Serve, Refuse, Drop, Calling, At
<1>2. CASE Expire
  BY <1>2 DEF Expire
<1>3. CASE Program
  BY <1>3 DEF Program, Connect, Finish, Issue, Send, Retry, ReadAnswered, ReadFailed, Resolved,
     Waited, Polled, PollFailed, WriteAnswered, WriteFailed, DryRunStep, ConfirmStep,
     PromptStep, GateStep, JournalableStep, UnchangedStep, GoneStep, OutcomeStep, Recorded,
     CleanedUp, EnoughStep, DownloadStep, DownloadedStep, Onward, Leave, LeaveSaying, Calling,
     At
<1> QED BY <1>1, <1>2, <1>3 DEF Next

LEMMA Ranges ==
    ASSUME Next, TypeOK
    PROVE  /\ pc' \in 0 .. Len(prog) + 1
           /\ pre' \in {"unread", "row", "bare", "none", "failed"}
           /\ link' \in {"up", "down"}
           /\ late' \in BOOLEAN /\ gated' \in BOOLEAN
           /\ missed' \in BOOLEAN
           /\ action' \in {"none"} \cup Actions
           /\ exit' \in {"running"} \cup Kinds
<1>0. /\ pc \in 0 .. Len(prog) + 1
      /\ pre \in {"unread", "row", "bare", "none", "failed"}
      /\ link \in {"up", "down"}
      /\ late \in BOOLEAN /\ gated \in BOOLEAN
      /\ missed \in BOOLEAN
      /\ action \in {"none"} \cup Actions
      /\ exit \in {"running"} \cup Kinds
      /\ Len(prog) \in Nat
  BY ProgramsAssumption DEF TypeOK, Actions, Kinds, ProgramsAssumption, WellFormed
<1>1. CASE Router
  BY <1>0, <1>1 DEF Router, Serve, Refuse, Drop, Calling, At
<1>2. CASE Expire
  BY <1>0, <1>2 DEF Expire, calls
<1>3. CASE Issue \/ Send \/ Retry
  BY <1>0, <1>3 DEF Issue, Send, Retry
<1>4. CASE ReadAnswered \/ ReadFailed \/ Resolved \/ Waited \/ Polled \/ PollFailed
  BY <1>0, <1>4 DEF ReadAnswered, ReadFailed, Resolved, Waited, Polled, PollFailed, Onward,
     Leave, LeaveSaying, At, Kinds, Actions
<1>5. CASE WriteAnswered \/ WriteFailed \/ CleanedUp
  BY <1>0, <1>5 DEF WriteAnswered, WriteFailed, CleanedUp, WriteError, Onward, Leave, At, Kinds
<1>6. CASE Connect \/ Finish \/ DryRunStep \/ ConfirmStep \/ PromptStep
  BY <1>0, <1>6 DEF Connect, Finish, DryRunStep, ConfirmStep, PromptStep, Onward, Leave,
     LeaveSaying, At, Kinds, Actions, calls
<1>7. CASE GateStep
  <2>1. Refusal(This.flag) \in {"none", "read_only", "session"}
    BY DEF Refusal
  <2>2. At({"gate"}) /\ (Onward \/ Leave("read_only") \/ Leave("session"))
    BY <1>7, <2>1 DEF GateStep
  <2>3. gated' \in BOOLEAN
    BY <1>0, <1>7 DEF GateStep
  <2>4. UNCHANGED <<pre, link, late, missed>>
    BY <1>7 DEF GateStep, calls
  <2>5. UNCHANGED action /\ exit' \in {"running"} \cup Kinds
    BY <1>0, <2>2 DEF Onward, Leave, Kinds
  <2>6. pc' \in 0 .. Len(prog) + 1
    BY <1>0, <2>2 DEF Onward, Leave, At
  <2> QED BY <1>0, <2>3, <2>4, <2>5, <2>6
<1>8. CASE JournalableStep \/ UnchangedStep \/ GoneStep \/ OutcomeStep
  BY <1>0, <1>8 DEF JournalableStep, UnchangedStep, GoneStep, OutcomeStep,
     Onward, Leave, LeaveSaying, At, Kinds, Actions, calls
<1>9. CASE Recorded
  <2>1. Onward \/ Leave("session")
    BY <1>9 DEF Recorded
  <2>2. missed' = missed \/ missed' = TRUE
    BY <1>9 DEF Recorded
  <2>3. UNCHANGED <<prog, pre, calls, late, gated>> /\ At({"record"})
    BY <1>9 DEF Recorded
  <2>4. missed' \in BOOLEAN
    BY <1>0, <2>2
  <2>5. UNCHANGED action /\ exit' \in {"running"} \cup Kinds
    BY <1>0, <2>1 DEF Onward, Leave, Kinds
  <2>6. pc' \in 0 .. Len(prog) + 1
    BY <1>0, <2>1, <2>3 DEF Onward, Leave, At
  <2> QED BY <1>0, <2>3, <2>4, <2>5, <2>6 DEF calls
<1>10. CASE EnoughStep \/ DownloadStep \/ DownloadedStep
  BY <1>0, <1>10 DEF EnoughStep, DownloadStep, DownloadedStep, Onward, Leave, At, Kinds, calls
<1> QED
  BY <1>1, <1>2, <1>3, <1>4, <1>5, <1>6, <1>7, <1>8, <1>9, <1>10 DEF Next, Program

\* Only the router changes the router, in the course of a call that was sent.
LEMMA RouterActs ==
    ASSUME Next, executed' # executed
    PROVE  /\ Calling /\ req.st = "sent" /\ Changes(This.word)
           /\ executed' = Append(executed, This.word)
           /\ UNCHANGED <<pc, pre, journal, missed, action, exit, gated>>
           /\ \/ req'.st = "ok" /\ UNCHANGED unknown
              \/ /\ req'.st = "back"
                 /\ \E why \in Losses : unknown' = unknown \cup
                        {[op |-> This.op, word |-> This.word, why |-> why]}
<1>1. Router
  BY DEF Next, Program, Expire, Connect, Finish, Issue, Send, Retry, ReadAnswered, ReadFailed,
     Resolved, Waited, Polled, PollFailed, WriteAnswered, WriteFailed, DryRunStep, ConfirmStep,
     PromptStep, GateStep, JournalableStep, UnchangedStep, GoneStep, OutcomeStep, Recorded,
     CleanedUp, EnoughStep, DownloadStep, DownloadedStep, calls
<1>2. Serve \/ \E why \in Losses : Drop(TRUE, why)
  BY <1>1 DEF Router, Refuse, Drop
<1>3. Does /\ Calling /\ req.st = "sent"
  BY <1>2 DEF Serve, Drop
<1>4. Changes(This.word) /\ executed' = Append(executed, This.word)
  BY <1>3 DEF Does
<1>5. UNCHANGED <<pc, pre, journal, missed, action, exit, gated>>
  BY <1>2 DEF Serve, Drop
<1>6. CASE Serve
  <2>1. req' = [req EXCEPT !.st = "ok"] /\ UNCHANGED unknown
    BY <1>6 DEF Serve
  <2>2. req'.st = "ok"
    BY <2>1
  <2> QED BY <1>3, <1>4, <1>5, <2>1, <2>2
<1>7. ASSUME NEW why \in Losses, Drop(TRUE, why)
      PROVE  /\ req'.st = "back"
             /\ unknown' = unknown \cup {[op |-> This.op, word |-> This.word, why |-> why]}
  <2>1. /\ req' = [req EXCEPT !.st = "back", !.last = why]
        /\ unknown' = unknown \cup {[op |-> This.op, word |-> This.word, why |-> why]}
    BY <1>4, <1>7 DEF Drop, Unanswered
  <2>2. req'.st = "back"
    BY <2>1
  <2> QED BY <2>1, <2>2
<1> QED BY <1>2, <1>3, <1>4, <1>5, <1>6, <1>7

\* Only recording journals, and only a change whose inverse is known, in a safe
\* session with room.
LEMMA Journaled ==
    ASSUME Next, journal' # journal
    PROVE  /\ At({"record"}) /\ opts.safe /\ HasInverse(prog[pc - 1].word)
           /\ Len(journal) < opts.room
           /\ journal' = Append(journal, prog[pc - 1].word)
           /\ Onward
           /\ UNCHANGED <<pre, req, executed, unknown, missed, gated>>
<1>1. ~Router /\ ~Expire
  BY DEF Router, Serve, Refuse, Drop, Expire
<1>2. Program
  BY <1>1 DEF Next
<1>3. Recorded
  BY <1>2 DEF Program, Connect, Finish, Issue, Send, Retry, ReadAnswered, ReadFailed,
     Resolved, Waited, Polled, PollFailed, WriteAnswered, WriteFailed, DryRunStep, ConfirmStep,
     PromptStep, GateStep, JournalableStep, UnchangedStep, GoneStep, OutcomeStep,
     CleanedUp, EnoughStep, DownloadStep, DownloadedStep, calls
<1> QED BY <1>3 DEF Recorded, calls

\* A call is begun, tried, answered, and given up or tried again.
Underway == req.sends \in Nat /\ req.tries \in 0 .. MaxAttempts - 1 /\ Attempts

LEMMA Requests ==
    ASSUME Next
    PROVE  Router \/ Issue \/ Send \/ Retry \/ req' = req \/ req' = NoCall
BY DEF Next, Program, Expire, Connect, Finish, ReadAnswered, ReadFailed, Resolved, Waited,
   Polled, PollFailed, WriteAnswered, WriteFailed, DryRunStep, ConfirmStep, PromptStep,
   GateStep, JournalableStep, UnchangedStep, GoneStep, OutcomeStep, Recorded, CleanedUp,
   EnoughStep, DownloadStep, DownloadedStep, calls, Answered

LEMMA UnderwayStep == ASSUME Next, req \in Request, Underway PROVE Underway'
<1> USE CommandsAssumption DEF CommandsAssumption
<1>0. req.sends \in Nat /\ req.tries \in 0 .. MaxAttempts - 1 /\ Attempts
  BY DEF Underway
<1>1. CASE Router
  <2> DEFINE Answer == /\ req.st = "sent" /\ req'.st \in {"ok", "back"}
                       /\ req'.sends = req.sends /\ req'.tries = req.tries
  <2>1. Answer
    <3>1. CASE Serve
      BY <3>1 DEF Serve, Request
    <3>2. ASSUME NEW why \in {"refused", "busy"}, Refuse(why) PROVE Answer
      BY <3>2 DEF Refuse, Request
    <3>3. ASSUME NEW acted \in BOOLEAN, NEW why \in Losses, Drop(acted, why) PROVE Answer
      BY <3>3 DEF Drop, Request
    <3> QED BY <1>1, <3>1, <3>2, <3>3 DEF Router
  <2> QED BY <1>0, <2>1 DEF Underway, Attempts
<1>2. CASE req' = NoCall
  BY <1>2 DEF Underway, Attempts, NoCall
<1>3. CASE Issue
  BY <1>3 DEF Issue, Underway, Attempts, NoCall
<1>4. CASE Send
  <2>1. /\ req.st = "try" /\ req'.st \in {"failed", "back", "sent"}
        /\ req'.sends \in {req.sends, req.sends + 1} /\ req'.tries = req.tries
    BY <1>4 DEF Send, Request
  <2> QED BY <1>0, <2>1 DEF Underway, Attempts
<1>5. CASE Retry
  <2>1. CASE Retries
    <3>1. /\ req.st = "back" /\ req'.st = "try" /\ req'.sends = req.sends
          /\ req'.tries = req.tries + 1
      BY <1>5, <2>1 DEF Retry, Request
    <3>2. req.tries + 1 < MaxAttempts
      BY <2>1 DEF Retries
    <3> QED BY <1>0, <3>1, <3>2 DEF Underway, Attempts
  <2>2. CASE ~Retries
    <3>1. /\ req.st = "back" /\ req'.st = "failed" /\ req'.sends = req.sends
          /\ req'.tries = req.tries
      BY <1>5, <2>2 DEF Retry, Request
    <3> QED BY <1>0, <3>1 DEF Underway, Attempts
  <2> QED BY <2>1, <2>2
<1>6. CASE req' = req
  BY <1>0, <1>6 DEF Underway, Attempts
<1> QED BY <1>1, <1>2, <1>3, <1>4, <1>5, <1>6, Requests

RoomFits == opts.safe => Len(journal) <= opts.room

Typed == TypeOK /\ Attempts /\ RoomFits

LEMMA TypedStep == ASSUME IInv', IInv, Typed, Next PROVE Typed'
<1> USE CommandsAssumption DEF CommandsAssumption
<1>0. TypeOK /\ Attempts /\ RoomFits
  BY DEF Typed
<1>1. req \in Request /\ req' \in Request
  BY DEF IInv
<1>2. Underway
  BY <1>0 DEF TypeOK, Underway
<1>3. Underway'
  BY <1>1, <1>2, UnderwayStep
<1>4. req' \in [st : {"none", "try", "sent", "back", "ok", "failed"}, sends : 0 .. MaxAttempts,
                tries : 0 .. MaxAttempts - 1,
                last : {"none", "late", "busy", "refused", "readonly"} \cup Losses]
  <2>1. req'.sends \in 0 .. MaxAttempts
    BY <1>3 DEF Underway, Attempts
  <2>2. req'.tries \in 0 .. MaxAttempts - 1
    BY <1>3 DEF Underway
  <2> QED BY <1>1, <2>1, <2>2 DEF Request
<1>5. executed' \in Seq(ChangeWords)
  <2>1. executed \in Seq(ChangeWords)
    BY <1>0 DEF TypeOK
  <2>2. CASE executed' # executed
    <3>1. executed' = Append(executed, This.word)
      BY <2>2, RouterActs
    <3>2. This.word \in ChangeWords
      BY <2>2, RouterActs DEF Changes
    <3> QED BY <2>1, <3>1, <3>2
  <2> QED BY <2>1, <2>2
<1>6. prog' \in Programs /\ opts' \in Options(prog')
  BY <1>0, Moves DEF TypeOK
<1>7. opts.room \in 0 .. MaxRoom /\ (opts.room > 0 => opts.safe)
  BY <1>0 DEF TypeOK, Options
<1>8. journal' \in Seq(Configures) /\ Len(journal') <= MaxRoom /\ RoomFits'
  <2>1. journal \in Seq(Configures) /\ Len(journal) <= MaxRoom
    BY <1>0 DEF TypeOK
  <2>2. CASE journal' # journal
    <3>1. /\ journal' = Append(journal, prog[pc - 1].word) /\ Len(journal) < opts.room
          /\ prog[pc - 1].word \in Configures
      BY <2>2, Journaled DEF HasInverse, Configures
    <3>2. Len(journal') = Len(journal) + 1 /\ journal' \in Seq(Configures)
      BY <2>1, <3>1
    <3> QED BY <1>7, <2>1, <3>1, <3>2, Moves DEF RoomFits
  <2>3. CASE journal' = journal
    BY <1>0, <2>1, <2>3, Moves DEF RoomFits
  <2> QED BY <2>2, <2>3
<1>9. Attempts'
  BY <1>3 DEF Underway
<1>10. unknown' \subseteq [op : {"read", "write", "cleanup"}, word : ChangeWords, why : Losses]
  BY DEF IInv, LostCall
<1>11. TypeOK'
  BY <1>0, <1>4, <1>5, <1>6, <1>8, <1>10, Ranges, Moves DEF TypeOK, Actions, Kinds
<1> QED BY <1>8, <1>9, <1>11 DEF Typed

LEMMA InitTyped == Init => Typed
<1> SUFFICES ASSUME Init PROVE Typed
  OBVIOUS
<1> USE CommandsAssumption DEF CommandsAssumption
<1>1. Len(prog) \in Nat
  BY ProgramsAssumption DEF Init, ProgramsAssumption, WellFormed
<1>2. TypeOK
  <2>1. req \in [st : {"none", "try", "sent", "back", "ok", "failed"}, sends : 0 .. MaxAttempts,
                tries : 0 .. MaxAttempts - 1,
                last : {"none", "late", "busy", "refused", "readonly"} \cup Losses]
    BY DEF Init, NoCall
  <2>2. /\ executed \in Seq(ChangeWords)
        /\ journal \in Seq(Configures) /\ Len(journal) <= MaxRoom
    BY DEF Init
  <2>3. prog \in Programs /\ opts \in Options(prog) /\ pc \in 0 .. Len(prog) + 1
    BY <1>1 DEF Init
  <2>4. /\ pre = "unread" /\ link = "up" /\ action = "none" /\ exit = "running"
        /\ late \in BOOLEAN /\ gated \in BOOLEAN /\ missed \in BOOLEAN /\ unknown = {}
    BY DEF Init
  <2> QED BY <2>1, <2>2, <2>3, <2>4 DEF TypeOK
<1>3. Attempts
  BY DEF Init, Attempts, NoCall
<1>4. opts.room \in Nat
  BY DEF Init, Options
<1>5. RoomFits
  BY <1>4 DEF Init, RoomFits
<1> QED BY <1>2, <1>3, <1>5 DEF Typed

-----------------------------------------------------------------------------
(* A command that must not write, or says it did not.                        *)

LEMMA Structured == ASSUME TypeOK PROVE WellFormed(prog) /\ Len(prog) \in Nat
BY ProgramsAssumption DEF TypeOK, ProgramsAssumption, WellFormed

\* It goes on from a write with its answer, and from dry-run for real.
LEMMA Advances ==
    ASSUME Next, IInv, pc \in Nat, pc' = pc + 1
    PROVE  /\ req' = NoCall /\ UNCHANGED <<exit, executed, unknown>>
           /\ At({"write"}) => Calling /\ req.st = "ok"
           /\ At({"dry-run"}) => ~opts.dryRun
<1>0. pc' # pc
  OBVIOUS
<1>1. ~(Router \/ Expire \/ Issue \/ Send \/ Retry)
  BY <1>0 DEF Router, Serve, Refuse, Drop, Expire, Issue, Send, Retry
<1>2. Program
  BY <1>1 DEF Next
<1>3. UNCHANGED <<exit, executed, unknown>>
  BY <1>0, <1>1, <1>2 DEF Program, Connect, Finish, ReadAnswered, ReadFailed, Resolved,
     Waited, Polled, PollFailed, WriteAnswered, WriteFailed, DryRunStep, ConfirmStep,
     PromptStep, GateStep, JournalableStep, UnchangedStep, GoneStep, OutcomeStep, Recorded,
     CleanedUp, EnoughStep, DownloadStep, DownloadedStep, Onward, Leave, LeaveSaying, calls
<1>4. ~Calling => req = NoCall
  BY DEF IInv
<1>5. req' = NoCall
  <2>1. CASE ReadAnswered \/ ReadFailed \/ Waited \/ Polled \/ PollFailed \/ WriteAnswered
             \/ WriteFailed \/ CleanedUp
    BY <2>1 DEF ReadAnswered, ReadFailed, Waited, Polled, PollFailed, WriteAnswered,
       WriteFailed, CleanedUp, Answered
  <2>2. CASE Resolved
    BY <1>4, <2>2 DEF Resolved, Answered, Calling, At
  <2>3. CASE Between
    <3>1. req' = req
      BY <2>3 DEF Between, Connect, Finish, DryRunStep, ConfirmStep, PromptStep, GateStep,
         JournalableStep, UnchangedStep, GoneStep, OutcomeStep, Recorded, EnoughStep,
         DownloadStep, DownloadedStep, calls
    <3>2. ~Calling
      BY <2>3 DEF Between, Connect, Finish, DryRunStep, ConfirmStep, PromptStep, GateStep,
         JournalableStep, UnchangedStep, GoneStep, OutcomeStep, Recorded, EnoughStep,
         DownloadStep, DownloadedStep, Calling, At
    <3> QED BY <1>4, <3>1, <3>2
  <2> QED BY <1>1, <1>2, <2>1, <2>2, <2>3 DEF Program, Between
<1>6. ASSUME At({"write"}) PROVE Calling /\ req.st = "ok"
  <2>1. WriteAnswered \/ WriteFailed
    BY <1>0, <1>1, <1>2, <1>6 DEF Program, Connect, Finish, ReadAnswered, ReadFailed, Resolved,
       Waited, Polled, PollFailed, DryRunStep, ConfirmStep,
       PromptStep, GateStep, JournalableStep, UnchangedStep, GoneStep, OutcomeStep, Recorded,
       CleanedUp, EnoughStep, DownloadStep, DownloadedStep, At
  <2> QED BY <1>0, <2>1 DEF WriteAnswered, WriteFailed, Leave, Answered
<1>7. ASSUME At({"dry-run"}) PROVE ~opts.dryRun
  <2>1. DryRunStep
    BY <1>0, <1>1, <1>2, <1>7 DEF Program, Connect, Finish, ReadAnswered, ReadFailed, Resolved,
       Waited, Polled, PollFailed, WriteAnswered, WriteFailed, ConfirmStep,
       PromptStep, GateStep, JournalableStep, UnchangedStep, GoneStep, OutcomeStep, Recorded,
       CleanedUp, EnoughStep, DownloadStep, DownloadedStep, At
  <2> QED BY <1>0, <2>1 DEF DryRunStep, LeaveSaying
<1> QED BY <1>3, <1>5, <1>6, <1>7

\* Where it says that nothing was done, and where it finds no target.
LEMMA Refuses ==
    ASSUME Next
    PROVE  /\ (/\ action' \in {"dry_run", "no_change", "cancelled"} 
               /\ action' # action) =>
                  /\ At({"dry-run", "prompt", "unchanged"}) /\ exit' = "ok"
                  /\ UNCHANGED <<pc, executed, journal>>
           /\ exit' \in {"connection", "not_found", "conflict"} =>
                  /\ pc = 0 \/ At({"resolve", "gone"})
                  /\ UNCHANGED <<pc, executed, journal>>
           /\ exit' = "read_only" => opts.readOnly \/ req.last = "readonly"
<1>0. exit = "running"
  BY Moves DEF Running
<1>1. CASE Router \/ Expire \/ Issue \/ Send \/ Retry
  BY <1>0, <1>1 DEF Router, Serve, Refuse, Drop, Expire, Issue, Send, Retry
<1>2. CASE ReadAnswered \/ ReadFailed \/ Waited \/ Polled \/ PollFailed
  BY <1>0, <1>2 DEF ReadAnswered, ReadFailed, Waited, Polled, PollFailed, Onward,
     Leave, LeaveSaying
<1>3. CASE WriteAnswered \/ WriteFailed \/ CleanedUp
  BY <1>0, <1>3 DEF WriteAnswered, WriteFailed, CleanedUp, WriteError, Onward, Leave
<1>4. CASE Connect \/ Finish \/ DryRunStep \/ ConfirmStep \/ PromptStep
  BY <1>0, <1>4 DEF Connect, Finish, DryRunStep, ConfirmStep, PromptStep, Onward, Leave,
     LeaveSaying, At, calls
<1>5. CASE GateStep
  BY <1>0, <1>5 DEF GateStep, Refusal, Onward, Leave
<1>6. CASE JournalableStep \/ UnchangedStep \/ GoneStep \/ OutcomeStep
  BY <1>0, <1>6 DEF JournalableStep, UnchangedStep, GoneStep, OutcomeStep, Onward, Leave,
     LeaveSaying, At, calls
<1>7. CASE Recorded \/ EnoughStep \/ DownloadStep \/ DownloadedStep
  BY <1>0, <1>7 DEF Recorded, EnoughStep, DownloadStep, DownloadedStep, Onward, Leave
<1>8. CASE Resolved
  <2>1. At({"resolve"}) /\ UNCHANGED <<executed, journal, action>>
    BY <1>8 DEF Resolved, Onward, Leave
  <2>2. exit' = exit \/ (exit' \in {"not_found", "conflict"} /\ UNCHANGED pc)
    BY <1>8 DEF Resolved, Onward, Leave
  <2>3. At({"resolve", "gone"})
    BY <2>1 DEF At
  <2> QED BY <1>0, <2>1, <2>2, <2>3
<1> QED BY <1>1, <1>2, <1>3, <1>4, <1>5, <1>6, <1>7, <1>8 DEF Next, Program

\* A call that changes the router; a listed one is at a write or a clean-up.
LEMMA ChangesWrite ==
    ASSUME IInv, TypeOK, Calling, Changes(This.word)
    PROVE  /\ pc \in Changing
           /\ IsMutating(This.word) => At({"write", "cleanup"})
<1>1. pc \in 1 .. Len(prog) /\ Running
  BY DEF Calling, At
<1>2. pc \in Changing
  BY <1>1 DEF Changing, WordAt, This, Changes
<1>3. IsMutating(This.word) => This.op \in {"write", "cleanup"}
  BY Calls, ExportRead
<1> QED BY <1>1, <1>2, <1>3 DEF At, This

LEMMA Words ==
    /\ \A w : Changes(w) /\ w # ExportFile => IsWrite(w)
    /\ \A w : HasInverse(w) => w \in Configures /\ IsWrite(w)
    /\ \A w \in Configures : w \in Mutating /\ w \in ChangeWords
BY DEF Changes, ChangeWords, Mutating, IsWrite, ReadWords, HasInverse, Configures, ExportFile

\* What is recorded has been written.
LEMMA RecordBehind ==
    ASSUME TypeOK, At({"record"})
    PROVE  pc - 1 \in OpAt(prog, {"write"}) /\ pc - 1 < pc /\ pc \in Nat
<1>1. pc \in OpAt(prog, {"record"}) /\ pc \in Nat
  BY DEF At, OpAt
<1>2. pc - 1 \in OpAt(prog, {"write"})
  BY <1>1, Structured DEF WellFormed, RecordsFollow
<1> QED BY <1>1, <1>2

LEMMA UntouchedUntilWrite ==
    ASSUME IInv, TypeOK, Next, Untouched \/ Reached(Changing)
    PROVE  (Untouched \/ Reached(Changing))'
<1>0. pc \in Nat /\ (pc' = pc \/ pc' = pc + 1) /\ prog' = prog
  BY Moves, Structured DEF TypeOK
<1>1. ASSUME Reached(Changing)
      PROVE  Reached(Changing)'
  <2>1. PICK i \in Changing : i <= pc
    BY <1>1 DEF Reached
  <2>2. i \in Changing' /\ i <= pc'
    BY <1>0, <2>1 DEF Changing, WordAt
  <2> QED BY <2>2 DEF Reached
<1>2. CASE executed' # executed
  <2>1. pc \in Changing
    BY <1>2, RouterActs, ChangesWrite
  <2> QED BY <1>0, <1>1, <2>1 DEF Reached
<1>3. CASE journal' # journal
  <2>1. pc - 1 \in Changing /\ pc - 1 <= pc
    BY <1>0, <1>3, Journaled, RecordBehind, Words DEF OpAt, Changing, WordAt
  <2> QED BY <1>1, <2>1 DEF Reached
<1>4. CASE executed' = executed /\ journal' = journal
  BY <1>1, <1>4 DEF Untouched
<1> QED BY <1>2, <1>3, <1>4

\* A call that stays under way.
LEMMA CallGoesOn ==
    ASSUME Next, pc' = pc, Calling', req'.st \notin {"none", "failed"}
    PROVE  Calling /\ This' = This /\ (Router \/ Issue \/ Send \/ Retry \/ req' = req)
<1>1. UNCHANGED <<prog, opts, pc>> /\ Running
  BY Moves
<1>2. Calling /\ This' = This
  BY <1>1 DEF Calling, At, This, Running
<1>3. req' # NoCall
  BY DEF NoCall
<1> QED BY <1>2, <1>3, Requests

LEMMA ObeyingStep == ASSUME IInv, TypeOK, Next, Obeying PROVE Obeying'
<1> SUFFICES ASSUME opts'.readOnly PROVE Obeying'
  BY DEF Obeying
<1>0. /\ opts.readOnly /\ prog' = prog /\ pc \in Nat /\ (pc' = pc \/ pc' = pc + 1)
      /\ opts' = opts
  BY Moves, Structured DEF TypeOK
<1>1. /\ OnlyExports /\ journal = <<>>
      /\ Calling /\ IsWrite(This.word) => req.st \in {"none", "failed"}
      /\ \A i \in OpAt(prog, {"write"}) : i < pc => ~IsWrite(prog[i].word)
  BY <1>0 DEF Obeying
<1>2. OnlyExports' /\ journal' = <<>>
  <2>1. OnlyExports'
    <3>1. CASE executed' # executed
      <4>1. executed' = Append(executed, This.word) /\ This.word = ExportFile
        BY <1>1, <3>1, RouterActs, Words
      <4>2. executed \in Seq(ChangeWords)
        BY DEF TypeOK
      <4> QED BY <1>1, <4>1, <4>2 DEF OnlyExports
    <3> QED BY <1>1, <3>1 DEF OnlyExports
  <2>2. ASSUME journal' # journal PROVE FALSE
    <3>1. pc - 1 \in OpAt(prog, {"write"}) /\ pc - 1 < pc
      BY <2>2, Journaled, RecordBehind
    <3> QED BY <1>1, <2>2, <3>1, Journaled, Words
  <2> QED BY <1>1, <2>1, <2>2
<1>3. ASSUME Calling', IsWrite(This.word)', req'.st \notin {"none", "failed"} PROVE FALSE
  <2>1. CASE pc' = pc + 1
    BY <1>0, <1>3, <2>1, Advances DEF NoCall
  <2>2. CASE pc' = pc
    <3>1. Calling /\ IsWrite(This.word) /\ (Router \/ Issue \/ Send \/ Retry \/ req' = req)
      BY <1>3, <2>2, CallGoesOn DEF IsWrite
    <3>2. req.st \in {"none", "failed"}
      BY <1>1, <3>1
    <3>3. CASE Issue
      BY <1>0, <1>3, <3>1, <3>3 DEF Issue, NoCall
    <3>4. CASE Router
      BY <3>2, <3>4 DEF Router, Serve, Refuse, Drop
    <3> QED BY <1>3, <3>1, <3>2, <3>3, <3>4 DEF Send, Retry
  <2> QED BY <1>0, <2>1, <2>2
<1>4. ASSUME NEW i \in OpAt(prog, {"write"}), i < pc' PROVE ~IsWrite(prog[i].word)
  <2>0. i \in 1 .. Len(prog) /\ prog[i].op = "write" /\ i \in Nat
    BY Structured DEF OpAt
  <2>1. CASE i < pc
    BY <1>1, <2>1
  <2>2. CASE pc' = pc + 1 /\ i = pc
    <3>1. At({"write"})
      BY <2>0, <2>2, Moves DEF At
    <3> QED BY <1>0, <1>1, <2>2, <3>1, Advances DEF This
  <2> QED BY <1>0, <1>4, <2>0, <2>1, <2>2
<1> QED BY <1>0, <1>2, <1>3, <1>4 DEF Obeying, OpAt, IsWrite

LEMMA DryRunStops ==
    ASSUME IInv, TypeOK, Next, opts.dryRun => ~Past(OpAt(prog, {"dry-run"}))
    PROVE  (opts.dryRun => ~Past(OpAt(prog, {"dry-run"})))'
<1> SUFFICES ASSUME opts'.dryRun, Past(OpAt(prog, {"dry-run"}))' PROVE FALSE
  OBVIOUS
<1>0. opts.dryRun /\ prog' = prog /\ pc \in Nat /\ (pc' = pc \/ pc' = pc + 1) /\ Running
  BY Moves, Structured DEF TypeOK
<1>1. PICK i \in OpAt(prog, {"dry-run"}) : i < pc'
  BY <1>0 DEF Past, OpAt
<1>2. i \in 1 .. Len(prog) /\ prog[i].op = "dry-run"
  BY DEF OpAt
<1>3. ~(i < pc)
  BY <1>0 DEF Past
<1>4. pc' = pc + 1 /\ i = pc
  BY <1>0, <1>1, <1>2, <1>3, Structured
<1>5. At({"dry-run"})
  BY <1>0, <1>2, <1>4 DEF At
<1> QED BY <1>0, <1>4, <1>5, Advances

\* The checks come before the writes.
LEMMA NothingYet ==
    ASSUME TypeOK, Untouched \/ Reached(Changing),
           pc = 0 \/ At({"dry-run", "prompt", "unchanged", "gone", "resolve"})
    PROVE  Untouched
<1> SUFFICES ASSUME Reached(Changing) PROVE FALSE
  OBVIOUS
<1>1. PICK j \in Changing : j <= pc
  BY DEF Reached
<1>2. j \in 1 .. Len(prog) /\ pc \in Nat
  BY Structured DEF Changing, WordAt, TypeOK
<1>3. At({"dry-run", "prompt", "unchanged", "gone", "resolve"})
  BY <1>1, <1>2
<1>4. pc \in OpAt(prog, {"dry-run", "prompt", "unchanged", "gone", "resolve"})
  BY <1>3 DEF At, OpAt
<1>5. pc < j
  BY <1>4, Structured DEF WellFormed, ChecksFirst, Changing
<1> QED BY <1>1, <1>2, <1>5

LEMMA SaidStep ==
    ASSUME TypeOK, Next, Untouched \/ Reached(Changing),
           SaysNothingDone => ~Running /\ Untouched
    PROVE  (SaysNothingDone => ~Running /\ Untouched)'
<1> SUFFICES ASSUME SaysNothingDone' PROVE ~Running' /\ Untouched'
  OBVIOUS
<1>0. Running /\ ~SaysNothingDone
  BY Moves
<1>1. CASE exit' \in {"connection", "not_found", "conflict"}
  <2>1. pc = 0 \/ At({"dry-run", "prompt", "unchanged", "gone", "resolve"})
    BY <1>1, Refuses DEF At
  <2> QED BY <1>1, <2>1, Refuses, NothingYet DEF Running, Untouched
<1>2. CASE action' \in {"dry_run", "no_change", "cancelled"}
  <2>1. action' # action
    BY <1>0, <1>2 DEF SaysNothingDone
  <2>2. At({"dry-run", "prompt", "unchanged", "gone", "resolve"})
    BY <1>2, <2>1, Refuses DEF At
  <2> QED BY <1>2, <2>1, <2>2, Refuses, NothingYet DEF Running, Untouched
<1> QED BY <1>1, <1>2 DEF SaysNothingDone

LEMMA ReadOnlyStep ==
    ASSUME IInv, Next, (req.last = "readonly" \/ exit = "read_only") => opts.readOnly
    PROVE  ((req.last = "readonly" \/ exit = "read_only") => opts.readOnly)'
<1>0. opts' = opts /\ req \in Request
  BY Moves DEF IInv
<1>1. ASSUME req'.last = "readonly" PROVE opts.readOnly
  <2>1. CASE Router
    <3>1. ASSUME Serve PROVE req'.last = req.last
      BY <1>0, <3>1 DEF Serve, Request
    <3>2. ASSUME NEW why \in {"refused", "busy"}, Refuse(why) PROVE req'.last # "readonly"
      BY <1>0, <3>2 DEF Refuse, Request
    <3>3. ASSUME NEW acted \in BOOLEAN, NEW why \in Losses, Drop(acted, why)
          PROVE  req'.last # "readonly"
      BY <1>0, <3>3 DEF Drop, Request, Losses
    <3> QED BY <1>1, <2>1, <3>1, <3>2, <3>3 DEF Router
  <2>2. CASE Issue
    BY <1>1, <2>2 DEF Issue, NoCall
  <2>3. CASE Send
    BY <1>0, <1>1, <2>3 DEF Send, Request, Losses
  <2>4. CASE Retry
    BY <1>0, <1>1, <2>4 DEF Retry, Request
  <2>5. CASE req' = req \/ req' = NoCall
    BY <1>1, <2>5 DEF NoCall
  <2> QED BY <2>1, <2>2, <2>3, <2>4, <2>5, Requests
<1>2. ASSUME exit' = "read_only" PROVE opts.readOnly
  BY <1>2, Refuses
<1> QED BY <1>0, <1>1, <1>2

LEMMA RestrainedStep == ASSUME IInv, TypeOK, Next, Restrained PROVE Restrained'
<1>1. /\ Untouched \/ Reached(Changing)
      /\ Obeying
      /\ opts.dryRun => ~Past(OpAt(prog, {"dry-run"}))
      /\ SaysNothingDone => ~Running /\ Untouched
      /\ (req.last = "readonly" \/ exit = "read_only") => opts.readOnly
  BY DEF Restrained, Obeying, SaysNothingDone
<1>2. (Untouched \/ Reached(Changing))'
  BY <1>1, UntouchedUntilWrite
<1>3. Obeying'
  BY <1>1, ObeyingStep
<1>4. (opts.dryRun => ~Past(OpAt(prog, {"dry-run"})))'
  BY <1>1, DryRunStops
<1>5. (SaysNothingDone => ~Running /\ Untouched)'
  BY <1>1, SaidStep
<1>6. ((req.last = "readonly" \/ exit = "read_only") => opts.readOnly)'
  BY <1>1, ReadOnlyStep
<1> QED BY <1>2, <1>3, <1>4, <1>5, <1>6 DEF Restrained, Obeying, SaysNothingDone

LEMMA InitRestrained == ASSUME Init PROVE Restrained
<1>1. Untouched /\ pc = 0 /\ req = NoCall /\ exit = "running" /\ action = "none"
  BY DEF Init, Untouched
<1>2. \A i \in 1 .. Len(prog) : ~(i < pc)
  BY <1>1
<1>3. Obeying
  BY <1>1, <1>2 DEF Obeying, OnlyExports, Untouched, OpAt, NoCall
<1>4. ~Past(OpAt(prog, {"dry-run"}))
  BY <1>2 DEF Past, OpAt
<1>5. ~SaysNothingDone
  BY <1>1 DEF SaysNothingDone
<1>6. req.last # "readonly"
  BY <1>1 DEF NoCall
<1> QED BY <1>1, <1>3, <1>4, <1>5, <1>6 DEF Restrained

LEMMA RestrainedSays == ASSUME TypeOK, Restrained PROVE RefusedTouchesNothing
<1>1. ASSUME opts.dryRun PROVE Untouched
  <2>1. PICK d \in OpAt(prog, {"dry-run"}) : TRUE
    BY <1>1 DEF TypeOK, Options, Has, OpAt
  <2>2. pc <= d /\ d \in 1 .. Len(prog) /\ pc \in Nat /\ Len(prog) \in Nat
    BY <1>1, Structured DEF Restrained, Past, OpAt, TypeOK
  <2>3. ASSUME NEW j \in Changing PROVE ~(j <= pc)
    <3>1. d < j /\ j \in 1 .. Len(prog)
      BY Structured DEF WellFormed, ChecksFirst, Changing, OpAt, WordAt
    <3> QED BY <2>2, <3>1
  <2> QED BY <2>3 DEF Restrained, Reached
<1>2. ASSUME opts.readOnly \/ exit = "read_only" PROVE OnlyExports /\ journal = <<>>
  BY <1>2 DEF Restrained, Obeying
<1>3. SaysNothingDone => Untouched
  BY DEF Restrained
<1> QED BY <1>1, <1>2, <1>3 DEF RefusedTouchesNothing, SaysNothingDone, Untouched, OnlyExports

-----------------------------------------------------------------------------
(* How often a change is made.                                               *)

LEMMA PlacesFinite ==
    ASSUME NEW n \in Nat, NEW S, S \subseteq 1 .. n
    PROVE  IsFiniteSet(S) /\ Cardinality(S) \in Nat
<1>1. IsFiniteSet(1 .. n)
  BY FS_Interval
<1> QED BY <1>1, FS_Subset, FS_CardinalityType

LEMMA CountNat == ASSUME NEW X, NEW s \in Seq(X), NEW w PROVE Count(w, s) \in Nat
<1>1. {i \in DOMAIN s : s[i] = w} \subseteq 1 .. Len(s) /\ Len(s) \in Nat
  OBVIOUS
<1> QED BY <1>1, PlacesFinite DEF Count

LEMMA CountAppend ==
    ASSUME NEW X, NEW s \in Seq(X), NEW x \in X, NEW w
    PROVE  Count(w, Append(s, x)) = Count(w, s) + (IF x = w THEN 1 ELSE 0)
<1> DEFINE Places(t) == {i \in DOMAIN t : t[i] = w}
<1>0. Len(s) \in Nat /\ DOMAIN s = 1 .. Len(s) /\ DOMAIN Append(s, x) = 1 .. Len(s) + 1
  OBVIOUS
<1>1. IsFiniteSet(Places(s)) /\ Cardinality(Places(s)) \in Nat
  BY <1>0, PlacesFinite
<1>2. CASE x = w
  <2>1. Places(Append(s, x)) = Places(s) \cup {Len(s) + 1}
    BY <1>0, <1>2
  <2>2. Len(s) + 1 \notin Places(s)
    BY <1>0
  <2>3. Cardinality(Places(s) \cup {Len(s) + 1}) = Cardinality(Places(s)) + 1
    BY <1>1, <2>2, FS_AddElement
  <2> QED BY <1>2, <2>1, <2>3 DEF Count
<1>3. CASE x # w
  <2>1. Places(Append(s, x)) = Places(s)
    BY <1>0, <1>3
  <2>2. Count(w, Append(s, x)) = Count(w, s)
    BY <2>1, Zenon DEF Count
  <2>3. Count(w, s) \in Nat
    BY <1>1, Zenon DEF Count
  <2> QED BY <1>3, <2>2, <2>3
<1> QED BY <1>2, <1>3

LEMMA CountNone ==
    ASSUME NEW s, NEW w, \A k \in DOMAIN s : s[k] # w PROVE Count(w, s) = 0
<1>1. {i \in DOMAIN s : s[i] = w} = {}
  OBVIOUS
<1> QED BY <1>1, FS_EmptySet DEF Count

\* The instructions that may have made a change only become more.
LEMMA MadeGrows ==
    ASSUME IInv, TypeOK, Next, NEW w \in Mutating
    PROVE  Made(w) \subseteq Made(w)'
<1>0. /\ prog' = prog /\ pc \in Nat /\ (pc' = pc \/ pc' = pc + 1) /\ Running
      /\ Len(prog) \in Nat
  BY Moves, Structured DEF TypeOK
<1>1. SUFFICES ASSUME NEW i \in WordAt(prog, {w}),
                      i < pc \/ (i = pc /\ req.st \in {"back", "ok", "failed"})
               PROVE  i < pc' \/ (i = pc' /\ (~Running' \/ req'.st \in {"back", "ok", "failed"}))
  BY <1>0 DEF Made, WordAt, Running
<1>2. i \in 1 .. Len(prog) /\ prog[i].word = w
  BY DEF WordAt
<1>3. CASE i < pc \/ pc' = pc + 1
  BY <1>0, <1>1, <1>2, <1>3
<1>4. CASE i = pc /\ pc' = pc /\ req.st \in {"back", "ok", "failed"} /\ Running'
  <2>1. IsMutating(This.word)
    BY <1>2, <1>4 DEF IsMutating, This
  <2>2. Calling
    BY <1>4 DEF IInv, NoCall
  <2>3. CASE Router \/ Issue \/ Send
    <3>1. Router => req.st = "sent"
      BY DEF Router, Serve, Refuse, Drop
    <3>2. Issue => req.st = "none"
      BY DEF Issue, NoCall
    <3>3. Send => req.st = "try"
      BY DEF Send
    <3> QED BY <1>4, <2>3, <3>1, <3>2, <3>3
  <2>4. CASE Retry
    <3>1. req' = [req EXCEPT !.st = "failed"]
      BY <2>1, <2>4 DEF Retry, Retries
    <3> QED BY <1>4, <3>1 DEF IInv, Request
  <2>5. CASE req' = NoCall /\ ~Router /\ ~Issue /\ ~Send /\ ~Retry
    <3>1. Changes(This.word)
      BY <2>1 DEF IsMutating, Changes, ChangeWords
    <3>2. At({"write", "cleanup"})
      BY <2>1, <2>2, <3>1, ChangesWrite
    <3>3. ~Expire
      BY <1>4, <2>5 DEF Expire, calls, NoCall
    <3>4. WriteAnswered \/ WriteFailed \/ CleanedUp
      BY <2>5, <3>2, <3>3, <1>0, <1>4 DEF Next, Program, Connect, Finish, ReadAnswered,
         ReadFailed, Resolved, Waited, Polled, PollFailed, DryRunStep, ConfirmStep, PromptStep,
         GateStep, JournalableStep, UnchangedStep, GoneStep, OutcomeStep, Recorded, EnoughStep,
         DownloadStep, DownloadedStep, At
    <3> QED BY <1>0, <1>4, <3>4 DEF WriteAnswered, WriteFailed, CleanedUp, WriteError, Onward,
         Leave, Running
  <2>6. CASE req' = req
    BY <1>4, <2>6
  <2> QED BY <2>3, <2>4, <2>5, <2>6, Requests
<1> QED BY <1>0, <1>1, <1>3, <1>4

LEMMA MadeOnceStep == ASSUME IInv, TypeOK, Next, MadeOnce PROVE MadeOnce'
<1> SUFFICES ASSUME NEW w \in Mutating PROVE Count(w, executed') <= Cardinality(Made(w)')
  BY DEF MadeOnce, Count
<1> DEFINE Known == ChangeWords
<1>0. /\ prog' = prog /\ Len(prog) \in Nat /\ pc \in Nat /\ executed \in Seq(Known)
      /\ w \in Known
  BY Moves, Structured DEF TypeOK, ChangeWords
<1>1. Made(w) \subseteq Made(w)'
  BY MadeGrows
<1>2. Made(w) \subseteq 1 .. Len(prog) /\ Made(w)' \subseteq 1 .. Len(prog)
  BY <1>0 DEF Made, WordAt
<1>3. /\ IsFiniteSet(Made(w)) /\ Cardinality(Made(w)) \in Nat
      /\ IsFiniteSet(Made(w)') /\ Cardinality(Made(w)') \in Nat
  BY <1>0, <1>2, PlacesFinite
<1>4. Cardinality(Made(w)) <= Cardinality(Made(w)')
  BY <1>1, <1>3, FS_Subset
<1>5. Count(w, executed) <= Cardinality(Made(w)) /\ Count(w, executed) \in Nat
  BY <1>0, CountNat DEF MadeOnce
<1>6. CASE executed' # executed /\ This.word = w
  <2>1. /\ Calling /\ req.st = "sent" /\ executed' = Append(executed, w) /\ pc' = pc
        /\ req'.st \in {"ok", "back"}
    BY <1>6, RouterActs
  <2>2. pc \in WordAt(prog, {w})
    BY <1>6, <2>1 DEF Calling, At, This, WordAt
  <2>3. pc \in Made(w)' /\ pc \notin Made(w)
    BY <1>0, <2>1, <2>2, Moves DEF Made, WordAt
  <2>4. Cardinality(Made(w) \cup {pc}) = Cardinality(Made(w)) + 1
    BY <1>3, <2>3, FS_AddElement
  <2>5. Made(w) \cup {pc} \subseteq Made(w)'
    BY <1>1, <2>3
  <2>6. Cardinality(Made(w)) + 1 <= Cardinality(Made(w)')
    BY <1>3, <2>4, <2>5, FS_Subset
  <2>7. Count(w, executed') = Count(w, executed) + 1
    BY <1>0, <2>1, CountAppend
  <2> QED BY <1>3, <1>5, <2>6, <2>7
<1>7. CASE executed' # executed /\ This.word # w
  <2>1. executed' = Append(executed, This.word) /\ This.word \in Known
    BY <1>7, RouterActs DEF Changes
  <2>2. Count(w, executed') = Count(w, executed)
    BY <1>0, <1>5, <1>7, <2>1, CountAppend
  <2> QED BY <1>3, <1>4, <1>5, <2>2
<1>8. CASE executed' = executed
  BY <1>3, <1>4, <1>5, <1>8
<1> QED BY <1>6, <1>7, <1>8

LEMMA InitMadeOnce == ASSUME Init PROVE MadeOnce
<1> SUFFICES ASSUME NEW w \in Mutating PROVE Count(w, executed) <= Cardinality(Made(w))
  BY DEF MadeOnce
<1>1. Count(w, executed) = 0
  BY CountNone DEF Init
<1>2. Len(prog) \in Nat /\ Made(w) \subseteq 1 .. Len(prog)
  BY InitTyped, Structured DEF Typed, Made, WordAt
<1>3. Cardinality(Made(w)) \in Nat
  BY <1>2, PlacesFinite
<1> QED BY <1>1, <1>3

LEMMA MadeOnceCounts ==
    ASSUME IInv, TypeOK, MadeOnce PROVE ListedWritesSentOnce
<1>1. ASSUME NEW w \in Mutating
      PROVE  Count(w, executed) <= Cardinality({i \in DOMAIN prog : prog[i].word = w})
  <2> DEFINE Asked == {i \in DOMAIN prog : prog[i].word = w}
  <2>1. Len(prog) \in Nat /\ Asked \subseteq 1 .. Len(prog) /\ Made(w) \subseteq Asked
    BY Structured DEF WellFormed, Made, WordAt
  <2>2. IsFiniteSet(Asked) /\ Cardinality(Asked) \in Nat /\ Cardinality(Made(w)) \in Nat
    BY <2>1, PlacesFinite
  <2>3. Cardinality(Made(w)) <= Cardinality(Asked)
    BY <2>1, <2>2, FS_Subset
  <2>4. Count(w, executed) \in Nat
    BY CountNat DEF TypeOK
  <2> QED BY <2>2, <2>3, <2>4 DEF MadeOnce
<1>2. SentOnce
  BY DEF IInv, Fresh, SentOnce
<1> QED BY <1>1, <1>2 DEF ListedWritesSentOnce

-----------------------------------------------------------------------------
(* What a gated command journals.                                            *)

LEMMA SafeJournals == ASSUME TypeOK, opts.safe PROVE Journaling(prog)
BY Structured DEF TypeOK, Options, WellFormed

LEMMA PreMoves ==
    ASSUME Next, pc \in Nat
    PROVE  /\ pre' # pre => /\ At({"read", "resolve", "waiting", "download"}) /\ pc' = pc + 1
                            /\ pre' # "unread"
           /\ At({"read", "waiting"}) /\ pc' = pc + 1 => pre' # "unread"
<1>1. CASE Router \/ Expire \/ Issue \/ Send \/ Retry
  <2>1. UNCHANGED <<pre, pc>>
    BY <1>1 DEF Router, Serve, Refuse, Drop, Expire, Issue, Send, Retry
  <2> QED BY <2>1
<1>2. CASE ReadAnswered
  BY <1>2 DEF ReadAnswered, Onward, At
<1>3. CASE ReadFailed
  BY <1>3 DEF ReadFailed, Onward, Leave, At
<1>4. CASE Resolved \/ Waited
  BY <1>4 DEF Resolved, Waited, Onward, Leave, LeaveSaying, At
<1>5. CASE Polled \/ PollFailed \/ WriteAnswered \/ WriteFailed \/ CleanedUp
  BY <1>5 DEF Polled, PollFailed, WriteAnswered, WriteFailed, CleanedUp, At
<1>6. CASE Between /\ ~DownloadStep
  BY <1>6 DEF Between, Connect, Finish, DryRunStep, ConfirmStep, PromptStep, GateStep,
     JournalableStep, UnchangedStep, GoneStep, OutcomeStep, Recorded, EnoughStep,
     DownloadedStep, At
<1>7. CASE DownloadStep
  BY <1>7 DEF DownloadStep, Onward, At
<1> QED BY <1>1, <1>2, <1>3, <1>4, <1>5, <1>6, <1>7 DEF Next, Program, Between

LEMMA MissedStays == ASSUME Next PROVE missed' = missed \/ missed' = TRUE
BY DEF Next, Router, Serve, Refuse, Drop, Expire, Program, Connect, Finish, Issue, Send, Retry,
   ReadAnswered, ReadFailed, Resolved, Waited, Polled, PollFailed, WriteAnswered, WriteFailed,
   DryRunStep, ConfirmStep, PromptStep, GateStep, JournalableStep, UnchangedStep, GoneStep,
   OutcomeStep, Recorded, CleanedUp, EnoughStep, DownloadStep, DownloadedStep

LEMMA UnforcedBefore == ASSUME Next, Unforced' PROVE Unforced
<1>1. opts.safe /\ ~(opts.force /\ Has(prog, "journalable"))
  BY Moves DEF Unforced, Has
<1>2. ~missed
  BY MissedStays DEF Unforced
<1> QED BY <1>1, <1>2 DEF Unforced

\* It goes on from the gate with room, and from journalable with an inverse.
LEMMA GateOpens ==
    ASSUME Next, pc \in Nat, pc' = pc + 1
    PROVE  /\ At({"gate"}) /\ opts.safe => ~(Len(journal) >= opts.room)
           /\ At({"journalable"}) /\ opts.safe /\ ~opts.force =>
                  HasInverse(prog[pc + 1].word)
           /\ At({"record"}) => Recorded
<1>0. pc' # pc
  OBVIOUS
<1>1. ~(Router \/ Expire \/ Issue \/ Send \/ Retry)
  BY <1>0 DEF Router, Serve, Refuse, Drop, Expire, Issue, Send, Retry
<1>2. ASSUME At({"gate", "journalable", "record"}) PROVE GateStep \/ JournalableStep \/ Recorded
  BY <1>0, <1>1, <1>2 DEF Next, Program, Connect, Finish, ReadAnswered, ReadFailed, Resolved,
     Waited, Polled, PollFailed, WriteAnswered, WriteFailed, DryRunStep, ConfirmStep, PromptStep,
     UnchangedStep, GoneStep, OutcomeStep, CleanedUp, EnoughStep, DownloadStep, DownloadedStep,
     At
<1>3. ASSUME At({"gate"}), opts.safe PROVE ~(Len(journal) >= opts.room)
  <2>1. GateStep
    BY <1>2, <1>3 DEF At, JournalableStep, Recorded
  <2>2. Refusal(This.flag) = "none"
    BY <1>0, <2>1 DEF GateStep, Leave
  <2> QED BY <1>3, <2>2 DEF Refusal
<1>4. ASSUME At({"journalable"}), opts.safe, ~opts.force PROVE HasInverse(prog[pc + 1].word)
  <2>1. JournalableStep
    BY <1>2, <1>4 DEF At, GateStep, Recorded
  <2> QED BY <1>0, <1>4, <2>1 DEF JournalableStep, Leave
<1>5. ASSUME At({"record"}) PROVE Recorded
  BY <1>2, <1>5 DEF At, GateStep, JournalableStep
<1> QED BY <1>3, <1>4, <1>5

LEMMA RoomKeptStep == ASSUME TypeOK, Next, RoomKept PROVE RoomKept'
<1> SUFFICES ASSUME opts.safe, NEW g \in OpAt(prog, {"gate"}), g < pc',
                    (g .. pc' - 1) \cap OpAt(prog, {"record"}) = {}
             PROVE  Len(journal') < opts.room
  BY Moves DEF RoomKept, OpAt
<1>0. /\ pc \in Nat /\ (pc' = pc \/ pc' = pc + 1) /\ Len(prog) \in Nat /\ Running
      /\ g \in 1 .. Len(prog) /\ prog[g].op = "gate"
      /\ Len(journal) \in Nat /\ opts.room \in Nat
  BY Moves, Structured DEF TypeOK, OpAt, Options
<1>1. CASE g < pc
  <2>1. g .. pc - 1 \subseteq g .. pc' - 1
    BY <1>0
  <2>2. Len(journal) < opts.room
    BY <1>1, <2>1 DEF RoomKept
  <2>3. journal' = journal
    <3>1. ASSUME journal' # journal PROVE FALSE
      <4>1. At({"record"}) /\ pc' = pc + 1
        BY <3>1, Journaled DEF Onward
      <4>2. pc \in OpAt(prog, {"record"}) /\ pc \in g .. pc' - 1
        BY <1>0, <1>1, <4>1 DEF At, OpAt
      <4> QED BY <4>2
    <3> QED BY <3>1
  <2> QED BY <2>2, <2>3
<1>2. CASE g = pc /\ pc' = pc + 1
  <2>1. At({"gate"})
    BY <1>0, <1>2 DEF At
  <2>2. Len(journal) < opts.room
    BY <1>0, <1>2, <2>1, GateOpens
  <2>3. journal' = journal
    BY <2>1, Journaled DEF At
  <2> QED BY <2>2, <2>3
<1> QED BY <1>0, <1>1, <1>2

LEMMA InverseKeptStep == ASSUME TypeOK, Next, InverseKept PROVE InverseKept'
<1> SUFFICES ASSUME Unforced', NEW i \in OpAt(prog, {"journalable"}), i < pc',
                    i + 1 \in WordAt(prog, Configures)
             PROVE  HasInverse(prog[i + 1].word)'
  BY Moves DEF InverseKept, OpAt, WordAt, Configures
<1>0. /\ pc \in Nat /\ (pc' = pc \/ pc' = pc + 1) /\ Len(prog) \in Nat /\ Running
      /\ UNCHANGED <<prog, opts>>
      /\ i \in 1 .. Len(prog) /\ prog[i].op = "journalable"
  BY Moves, Structured DEF TypeOK, OpAt
<1>1. Unforced /\ opts.safe /\ ~opts.force
  BY <1>0, UnforcedBefore DEF Unforced, Has
<1>2. CASE i < pc
  <2>1. HasInverse(prog[i + 1].word)
    BY <1>1, <1>2 DEF InverseKept
  <2>2. ASSUME pre' # pre PROVE FALSE
    <3>1. pc \in OpAt(prog, {"read", "resolve", "waiting", "download"})
      BY <1>0, <2>2, PreMoves DEF At, OpAt
    <3>2. pc < i + 1
      BY <1>1, <3>1, SafeJournals DEF Journaling
    <3> QED BY <1>0, <1>2, <3>2
  <2> QED BY <1>0, <2>1, <2>2 DEF HasInverse
<1>3. CASE i = pc /\ pc' = pc + 1
  <2>1. At({"journalable"})
    BY <1>0, <1>3 DEF At
  <2>2. HasInverse(prog[i + 1].word)
    BY <1>0, <1>1, <1>3, <2>1, GateOpens
  <2>3. pre' = pre
    BY <1>0, <2>1, PreMoves DEF At
  <2> QED BY <1>0, <2>2, <2>3 DEF HasInverse
<1> QED BY <1>0, <1>2, <1>3

LEMMA ReadStep ==
    ASSUME TypeOK, Next, Past(OpAt(prog, {"read", "waiting"})) => pre # "unread"
    PROVE  (Past(OpAt(prog, {"read", "waiting"})) => pre # "unread")'
<1> SUFFICES ASSUME Past(OpAt(prog, {"read", "waiting"}))' PROVE pre' # "unread"
  OBVIOUS
<1>0. /\ pc \in Nat /\ (pc' = pc \/ pc' = pc + 1) /\ Len(prog) \in Nat /\ Running
      /\ UNCHANGED prog
  BY Moves, Structured DEF TypeOK
<1>1. PICK i \in OpAt(prog, {"read", "waiting"}) : i < pc'
  BY <1>0 DEF Past, OpAt
<1>2. i \in 1 .. Len(prog) /\ prog[i].op \in {"read", "waiting"}
  BY DEF OpAt
<1>3. CASE i < pc
  BY <1>0, <1>3, PreMoves DEF Past
<1>4. CASE i = pc /\ pc' = pc + 1
  <2>1. At({"read", "waiting"})
    BY <1>0, <1>2, <1>4 DEF At
  <2> QED BY <1>0, <1>4, <2>1, PreMoves
<1> QED BY <1>0, <1>1, <1>2, <1>3, <1>4

LEMMA ReachedStep ==
    ASSUME TypeOK, Next, ChangesReached, JournalReached
    PROVE  ChangesReached' /\ JournalReached'
<1>0. /\ pc \in Nat /\ (pc' = pc \/ pc' = pc + 1) /\ Len(prog) \in Nat /\ Running
      /\ UNCHANGED prog
  BY Moves, Structured DEF TypeOK
<1>1. ASSUME NEW k \in DOMAIN executed', executed'[k] \in Configures
      PROVE  Reached(WordAt(prog, {executed[k]}))'
  <2>0. executed \in Seq(ChangeWords)
    BY DEF TypeOK
  <2>1. CASE k \in DOMAIN executed /\ executed'[k] = executed[k]
    <3>1. PICK i \in WordAt(prog, {executed[k]}) : i <= pc
      BY <1>1, <2>1 DEF ChangesReached, Reached
    <3>2. i \in WordAt(prog', {executed'[k]}) /\ i <= pc'
      BY <1>0, <2>1, <3>1 DEF WordAt
    <3> QED BY <3>2 DEF Reached
  <2>2. CASE executed' # executed /\ k = Len(executed) + 1
    <3>1. /\ Calling /\ executed' = Append(executed, This.word)
          /\ This.word \in ChangeWords
      BY <2>2, RouterActs DEF Changes
    <3>2. executed'[k] = This.word
      BY <2>0, <2>2, <3>1
    <3>3. pc \in WordAt(prog', {executed'[k]}) /\ pc <= pc'
      BY <1>0, <3>1, <3>2 DEF WordAt, This, Calling, At
    <3> QED BY <3>3 DEF Reached
  <2>3. CASE executed' = executed
    BY <2>1, <2>3
  <2>4. CASE executed' # executed
    <3>1. /\ executed' = Append(executed, This.word)
          /\ This.word \in ChangeWords
      BY <2>4, RouterActs DEF Changes
    <3>2. k \in 1 .. Len(executed) + 1 /\ Len(executed) \in Nat
      BY <2>0, <3>1
    <3>3. k = Len(executed) + 1 \/ (k \in DOMAIN executed /\ executed'[k] = executed[k])
      BY <2>0, <3>1, <3>2
    <3> QED BY <2>1, <2>2, <2>4, <3>3
  <2> QED BY <2>3, <2>4
<1>2. ASSUME NEW k \in DOMAIN journal' PROVE Reached(WordAt(prog, {journal[k]}))'
  <2>0. journal \in Seq(Configures)
    BY DEF TypeOK
  <2>1. CASE k \in DOMAIN journal /\ journal'[k] = journal[k]
    <3>1. PICK i \in WordAt(prog, {journal[k]}) : i <= pc
      BY <2>1 DEF JournalReached, Reached
    <3>2. i \in WordAt(prog', {journal'[k]}) /\ i <= pc'
      BY <1>0, <2>1, <3>1 DEF WordAt
    <3> QED BY <3>2 DEF Reached
  <2>2. CASE journal' # journal
    <3> DEFINE word == prog[pc - 1].word
    <3>1. At({"record"}) /\ journal' = Append(journal, word) /\ word \in Configures
      BY <2>2, Journaled, Words
    <3>2. pc - 1 \in 1 .. Len(prog) /\ pc - 1 <= pc'
      BY <1>0, <3>1, RecordBehind DEF OpAt
    <3> HIDE DEF word
    <3>3. k \in 1 .. Len(journal) + 1 /\ Len(journal) \in Nat
      BY <2>0, <3>1
    <3>4. (k = Len(journal) + 1 /\ journal'[k] = word)
             \/ (k \in DOMAIN journal /\ journal'[k] = journal[k])
      BY <2>0, <3>1, <3>3
    <3>5. ASSUME journal'[k] = word PROVE pc - 1 \in WordAt(prog', {journal'[k]})
      BY <1>0, <3>2, <3>5 DEF WordAt, word
    <3> QED BY <2>1, <3>2, <3>4, <3>5 DEF Reached
  <2> QED BY <2>1, <2>2
<1> QED BY <1>1, <1>2 DEF ChangesReached, JournalReached

-----------------------------------------------------------------------------
(* Every change is journaled once it is recorded.                            *)

LEMMA LeavesOk == ASSUME Next, exit' = "ok" PROVE ~At({"write", "record"})
<1>0. exit = "running"
  BY Moves DEF Running
<1>1. CASE Router \/ Expire \/ Issue \/ Send \/ Retry
  BY <1>0, <1>1 DEF Router, Serve, Refuse, Drop, Expire, Issue, Send, Retry
<1>2. CASE WriteAnswered \/ WriteFailed
  BY <1>0, <1>2 DEF WriteAnswered, WriteFailed, WriteError, Onward, Leave
<1>3. CASE Recorded
  BY <1>0, <1>3 DEF Recorded, Onward, Leave
<1>4. CASE ReadAnswered \/ ReadFailed \/ Resolved \/ Waited \/ Polled \/ PollFailed \/ CleanedUp
  BY <1>4 DEF ReadAnswered, ReadFailed, Resolved, Waited, Polled, PollFailed, CleanedUp, At
<1>5. CASE Between /\ ~Recorded
  BY <1>5 DEF Between, Connect, Finish, DryRunStep, ConfirmStep, PromptStep, GateStep,
     JournalableStep, UnchangedStep, GoneStep, OutcomeStep, EnoughStep, DownloadStep,
     DownloadedStep, At
<1> QED BY <1>1, <1>2, <1>3, <1>4, <1>5 DEF Next, Program, Between

\* While it stays at a write, only the router makes the change due.
LEMMA StillAtWrite ==
    ASSUME IInv, TypeOK, Next, At({"write"}), Changes(This.word), pc' = pc, exit' = exit,
           executed' = executed
    PROVE  (req'.st = "ok" <=> req.st = "ok") /\ unknown' = unknown
<1>0. req \in Request /\ Calling /\ pc' # pc + 1
  BY Structured DEF IInv, Calling, At, TypeOK
<1>1. CASE Router
  <2>1. executed \in Seq(ChangeWords)
    BY DEF TypeOK
  <2>2. ASSUME Does PROVE FALSE
    <3>1. executed' = Append(executed, This.word)
      BY <2>2 DEF Does
    <3>2. This.word \in ChangeWords
      BY DEF Changes
    <3>3. Len(Append(executed, This.word)) = Len(executed) + 1 /\ Len(executed) \in Nat
      BY <2>1, <3>2
    <3> QED BY <3>1, <3>3
  <2>3. CASE \E why \in {"refused", "busy"} : Refuse(why)
    BY <1>0, <2>3 DEF Refuse, Request
  <2>4. ASSUME NEW why \in Losses, Drop(FALSE, why)
        PROVE  (req'.st = "ok" <=> req.st = "ok") /\ unknown' = unknown
    BY <1>0, <2>4 DEF Drop, Request
  <2> QED BY <1>1, <2>2, <2>3, <2>4 DEF Router, Serve, Drop
<1>2. CASE Issue \/ Send
  <2>1. ASSUME Issue PROVE req.st = "none" /\ req'.st # "ok" /\ unknown' = unknown
    BY <2>1 DEF Issue, NoCall
  <2>2. ASSUME Send PROVE req.st = "try" /\ req'.st # "ok" /\ unknown' = unknown
    BY <1>0, <2>2 DEF Send, Request
  <2> QED BY <1>2, <2>1, <2>2
<1>3. CASE Retry
  BY <1>0, <1>3 DEF Retry, Request
<1>4. CASE Expire
  BY <1>4 DEF Expire, calls
<1>5. CASE WriteAnswered \/ WriteFailed
  BY <1>0, <1>5 DEF WriteAnswered, WriteFailed, WriteError, Onward, Leave, At, Running
<1> QED
  BY <1>1, <1>2, <1>3, <1>4, <1>5 DEF Next, Program, Connect, Finish, ReadAnswered, ReadFailed,
     Resolved, Waited, Polled, PollFailed, DryRunStep, ConfirmStep, PromptStep, GateStep,
     JournalableStep, UnchangedStep, GoneStep, OutcomeStep, Recorded, CleanedUp, EnoughStep,
     DownloadStep, DownloadedStep, At

\* Due before and after the command goes on.
LEMMA DueOnward ==
    ASSUME IInv, IInv', TypeOK, Next, opts.safe, pc' = pc + 1, NEW w \in Configures
    PROVE  /\ Due(w) <=> \/ pc \in WordAt(prog, {w})
                         \/ At({"record"}) /\ prog[pc - 1].word = w
           /\ Due(w)' <=> pc \in WordAt(prog, {w})
<1>0. /\ pc \in Nat /\ Len(prog) \in Nat /\ prog' = prog /\ Running
      /\ WellFormed(prog) /\ Journaling(prog)
  BY Moves, Structured, SafeJournals DEF TypeOK
<1>1. req' = NoCall /\ exit' = exit /\ unknown' = unknown
  BY <1>0, Advances
<1>2. Running' /\ ~Lost(w)'
  <2>1. Running'
    BY <1>0, <1>1 DEF Running
  <2>2. Quiet'
    BY <1>1, <2>1 DEF IInv, LostHere, Pending, Quiet, NoCall
  <2> QED BY <2>1, <2>2 DEF Quiet, Lost
<1>3. ASSUME pc \in WordAt(prog, {w})
      PROVE  /\ At({"write"}) /\ This.word = w /\ req.st = "ok"
             /\ pc + 1 \in OpAt(prog, {"record"})
  <2>1. pc \in WordAt(prog, Configures) /\ pc \in 1 .. Len(prog) /\ prog[pc].word = w
    BY <1>3 DEF WordAt
  <2>2. At({"write"})
    BY <1>0, <2>1 DEF WellFormed, ReadsOnlyRead, At, OpAt
  <2> QED BY <1>0, <2>1, <2>2, Advances DEF Journaling, This
<1>4. ASSUME At({"write"}), This.word = w PROVE pc \in WordAt(prog, {w})
  BY <1>4 DEF At, This, WordAt
<1>5. Due(w) <=> \/ pc \in WordAt(prog, {w})
                 \/ At({"record"}) /\ prog[pc - 1].word = w
  BY <1>3, <1>4 DEF Due
<1>6. Due(w)' <=> pc' \in OpAt(prog, {"record"}) /\ prog[pc].word = w
  <2>1. req'.st # "ok"
    BY <1>1 DEF NoCall
  <2>2. At({"record"})' <=> pc' \in OpAt(prog, {"record"})
    BY <1>0, <1>2 DEF At, OpAt
  <2>3. prog'[pc' - 1].word = prog[pc].word
    BY <1>0
  <2> QED BY <1>2, <2>1, <2>2, <2>3 DEF Due
<1>7. ASSUME pc' \in OpAt(prog, {"record"}), prog[pc].word = w PROVE pc \in WordAt(prog, {w})
  <2>1. pc' - 1 \in OpAt(prog, {"write"})
    BY <1>0, <1>7 DEF WellFormed, RecordsFollow
  <2> QED BY <1>0, <1>7, <2>1 DEF OpAt, WordAt
<1>8. ASSUME pc \in WordAt(prog, {w}) PROVE prog[pc].word = w
  BY <1>8 DEF WordAt
<1> QED BY <1>3, <1>5, <1>6, <1>7, <1>8

\* A change that is recorded has an inverse, or is exempt; and there is room.
LEMMA RecordWorks ==
    ASSUME TypeOK, Journals, Unforced, At({"record"}), NEW w \in Configures,
           prog[pc - 1].word = w
    PROVE  /\ HasInverse(w) \/ Exempt(w)
           /\ Len(journal) < opts.room
<1>0. /\ pc \in Nat /\ Len(prog) \in Nat /\ opts.safe /\ Journaling(prog)
      /\ pre \in {"unread", "row", "bare", "none", "failed"}
  BY Structured, SafeJournals DEF TypeOK, Unforced
<1>1. pc - 1 \in 1 .. Len(prog)
  BY RecordBehind DEF OpAt
<1>2. pc - 1 \in WordAt(prog, Configures)
  BY <1>1 DEF WordAt
<1>3. Len(journal) < opts.room
  <2>1. PICK g \in OpAt(prog, {"gate"}) :
           g < pc - 1 /\ (g .. pc - 1) \cap OpAt(prog, {"record"}) = {}
    BY <1>0, <1>2 DEF Journaling
  <2>2. g < pc
    BY <1>0, <2>1 DEF OpAt
  <2> QED BY <1>0, <2>1, <2>2 DEF Journals, RoomKept
<1>4. CASE pc - 1 - 1 \in OpAt(prog, {"journalable"})
  <2>1. pc - 1 - 1 < pc /\ (pc - 1 - 1) + 1 = pc - 1
    BY <1>0
  <2>2. HasInverse(prog[(pc - 1 - 1) + 1].word)
    BY <1>2, <1>4, <2>1 DEF Journals, InverseKept
  <2> QED BY <1>3, <2>1, <2>2
<1>5. CASE \E j \in OpAt(prog, {"read", "waiting"}) : j < pc - 1
  <2>1. PICK j \in OpAt(prog, {"read", "waiting"}) : j < pc - 1
    BY <1>5
  <2>2. j < pc
    BY <1>0, <2>1 DEF OpAt
  <2>3. pre # "unread"
    BY <2>1, <2>2 DEF Journals, Past
  <2> QED BY <1>0, <1>3, <2>3 DEF HasInverse, Exempt, Configures
<1>6. CASE w = "/add"
  BY <1>3, <1>6 DEF HasInverse
<1> QED BY <1>0, <1>2, <1>4, <1>5, <1>6 DEF Journaling

\* Both counts are none of a change that is not reached.
LEMMA NotReached ==
    ASSUME TypeOK, Journals, NEW w \in Configures, ~Reached(WordAt(prog, {w}))
    PROVE  Count(w, executed) = 0 /\ Count(w, journal) = 0
<1>1. \A k \in DOMAIN executed : executed[k] # w
  BY DEF Journals, ChangesReached
<1>2. \A k \in DOMAIN journal : journal[k] # w
  BY DEF Journals, JournalReached
<1> QED BY <1>1, <1>2, CountNone

\* While it stays where it is.
LEMMA BalancedStays ==
    ASSUME IInv, IInv', TypeOK, Next, Journals, Unforced, NEW w \in Configures,
           exit' \in {"running", "ok"}, pc' = pc
    PROVE  Exempt(w)' \/ Count(w, executed') = Count(w, journal') + (IF Due(w)' THEN 1 ELSE 0)
<1> DEFINE Known == ChangeWords
<1>0. /\ pc \in Nat /\ pc' # pc + 1 /\ prog' = prog /\ Running /\ w \in Known
      /\ executed \in Seq(Known) /\ Count(w, executed) \in Nat /\ Count(w, journal) \in Nat
  BY Moves, Structured, CountNat, Words DEF TypeOK
<1>1. journal' = journal /\ pre' = pre
  BY <1>0, Journaled, PreMoves DEF Onward
<1>2. CASE Exempt(w)
  BY <1>1, <1>2 DEF Exempt
<1>3. CASE ~Exempt(w)
  <2>1. Count(w, executed) = Count(w, journal) + (IF Due(w) THEN 1 ELSE 0)
    BY <1>0, <1>3 DEF Journals, Balanced, Running
  <2>2. CASE executed' # executed
    <3>1. /\ Calling /\ req.st = "sent" /\ This.word \in Known /\ UNCHANGED exit
          /\ executed' = Append(executed, This.word)
          /\ \/ req'.st = "ok"
             \/ \E why \in Losses :
                   [op |-> This.op, word |-> This.word, why |-> why] \in unknown'
      BY <2>2, RouterActs DEF Changes
    <3>2. ~Lost(w)
      BY <1>0, <3>1, QuietHere DEF Quiet, Lost
    <3>3. ~Due(w)
      BY <3>1, <3>2 DEF Due, Calling, At
    <3>4. CASE This.word = w
      <4>1. At({"write"})
        <5>1. pc \in 1 .. Len(prog) /\ pc \in WordAt(prog, Configures)
          BY <3>1, <3>4 DEF Calling, At, This, WordAt
        <5>2. At({"write"})
          BY <1>0, <5>1, Structured DEF WellFormed, ReadsOnlyRead, OpAt, At
        <5> QED BY <5>2
      <4>2. Due(w)'
        <5>1. req'.st = "ok" \/ Lost(w)'
          BY <3>1, <3>4, <4>1 DEF Lost, At, This
        <5>2. At({"write"})' /\ This'.word = w
          BY <1>0, <3>1, <3>4, <4>1 DEF At, This, Running
        <5> QED BY <5>1, <5>2 DEF Due
      <4>3. Count(w, executed') = Count(w, executed) + 1
        BY <1>0, <3>1, <3>4, CountAppend
      <4> QED BY <1>0, <1>1, <2>1, <3>3, <4>2, <4>3
    <3>5. CASE This.word # w
      <4>1. Count(w, executed') = Count(w, executed)
        BY <1>0, <3>1, <3>5, CountAppend
      <4>2. ~Due(w)'
        BY <1>0, <3>1, <3>5 DEF Due, Calling, At, This
      <4> QED BY <1>0, <1>1, <2>1, <3>3, <4>1, <4>2
    <3> QED BY <3>4, <3>5
  <2>3. CASE executed' = executed /\ exit' = "ok"
    <3>1. ~Due(w)
      BY <2>3, LeavesOk DEF Due, At
    <3>2. ~Due(w)'
      BY <2>3 DEF Due, At, Running
    <3> QED BY <1>1, <2>1, <2>3, <3>1, <3>2
  <2>4. CASE executed' = executed /\ exit' = "running"
    <3>1. exit' = exit
      BY <1>0, <2>4 DEF Running
    <3>2. At({"write"})' <=> At({"write"})
      BY <1>0, <3>1 DEF At, Running
    <3>3. At({"record"})' <=> At({"record"})
      BY <1>0, <3>1 DEF At, Running
    <3>4. ASSUME At({"write"}), This.word = w
          PROVE  (req'.st = "ok" <=> req.st = "ok") /\ unknown' = unknown
      <4>1. Changes(This.word)
        BY <3>4, Words DEF Changes
      <4> QED BY <2>4, <3>1, <3>4, <4>1, StillAtWrite
    <3>5. This' = This /\ prog'[pc' - 1] = prog[pc - 1]
      BY <1>0 DEF This
    <3>6. Due(w)' <=> Due(w)
      BY <3>2, <3>3, <3>4, <3>5 DEF Due, Lost
    <3> QED BY <1>1, <2>1, <2>4, <3>6
  <2> QED BY <2>2, <2>3, <2>4
<1> QED BY <1>2, <1>3

\* While it goes on.
LEMMA BalancedOnward ==
    ASSUME IInv, IInv', TypeOK, Next, Journals, Unforced, Unforced', NEW w \in Configures,
           pc' = pc + 1
    PROVE  Exempt(w)' \/ Count(w, executed') = Count(w, journal') + (IF Due(w)' THEN 1 ELSE 0)
<1>0. /\ pc \in Nat /\ Len(prog) \in Nat /\ prog' = prog /\ Running /\ opts.safe
      /\ executed' = executed /\ journal \in Seq(Configures)
      /\ Count(w, executed) \in Nat /\ Count(w, journal) \in Nat
  BY Moves, Structured, CountNat, Advances DEF TypeOK, Unforced
<1>1. CASE pre' # pre
  <2>1. At({"read", "resolve", "waiting", "download"})
    BY <1>0, <1>1, PreMoves
  <2>2. pc \in OpAt(prog, {"read", "resolve", "waiting", "download"})
    BY <2>1 DEF At, OpAt
  <2>3. ASSUME NEW i \in WordAt(prog, {w}) PROVE ~(i <= pc) /\ i # pc
    <3>1. i \in WordAt(prog, Configures)
      BY DEF WordAt
    <3>2. pc < i
      BY <1>0, <2>2, <3>1, SafeJournals DEF Journaling
    <3> QED BY <1>0, <3>2 DEF WordAt
  <2>4. Count(w, executed) = 0 /\ Count(w, journal) = 0
    BY <2>3, NotReached DEF Reached
  <2>5. journal' = journal
    BY <2>1, Journaled DEF At
  <2>6. pc \notin WordAt(prog, {w})
    BY <2>3
  <2>7. ~Due(w)'
    BY <1>0, <2>6, DueOnward
  <2> QED BY <1>0, <2>4, <2>5, <2>7
<1>2. CASE pre' = pre /\ Exempt(w)
  BY <1>2 DEF Exempt
<1>3. CASE pre' = pre /\ ~Exempt(w)
  <2>1. Count(w, executed) = Count(w, journal) + (IF Due(w) THEN 1 ELSE 0)
    BY <1>0, <1>3 DEF Journals, Balanced, Running
  <2>2. CASE At({"record"}) /\ prog[pc - 1].word = w
    <3>1. Due(w) /\ ~Due(w)'
      <4>1. pc \notin WordAt(prog, {w})
        <5>1. ASSUME pc \in WordAt(prog, {w}) PROVE FALSE
          <6>1. pc \in WordAt(prog, Configures)
            BY <5>1 DEF WordAt
          <6>2. pc \in OpAt(prog, {"write"})
            BY <6>1, Structured DEF WellFormed, ReadsOnlyRead
          <6> QED BY <2>2, <6>2 DEF At, OpAt
        <5> QED BY <5>1
      <4> QED BY <1>0, <2>2, <4>1, DueOnward
    <3>2. HasInverse(w) /\ Len(journal) < opts.room
      BY <1>3, <2>2, RecordWorks
    <3>3. Recorded
      BY <1>0, <2>2, GateOpens
    <3>4. Len(journal) \in Nat /\ opts.room \in Nat
      BY <1>0 DEF TypeOK, Options
    <3>5. journal' = Append(journal, w)
      BY <1>0, <2>2, <3>2, <3>3, <3>4 DEF Recorded, Unforced
    <3>6. Count(w, journal') = Count(w, journal) + 1
      BY <1>0, <3>5, CountAppend
    <3> QED BY <1>0, <2>1, <3>1, <3>6
  <2>3. CASE ~(At({"record"}) /\ prog[pc - 1].word = w)
    <3>1. Due(w) <=> Due(w)'
      BY <1>0, <2>3, DueOnward
    <3>2. Count(w, journal') = Count(w, journal)
      <4>1. CASE journal' # journal
        <5>1. /\ At({"record"}) /\ journal' = Append(journal, prog[pc - 1].word)
              /\ prog[pc - 1].word \in Configures
          BY <4>1, Journaled, Words
        <5> QED BY <1>0, <2>3, <5>1, CountAppend
      <4> QED BY <4>1
    <3> QED BY <1>0, <2>1, <3>1, <3>2
  <2> QED BY <2>2, <2>3
<1> QED BY <1>1, <1>2, <1>3

LEMMA JournalsStep == ASSUME IInv, IInv', TypeOK, Next, Journals PROVE Journals'
<1>1. Balanced'
  <2> SUFFICES ASSUME Unforced', exit' \in {"running", "ok"}, NEW w \in Configures
               PROVE  \/ Exempt(w)'
                      \/ Count(w, executed') = Count(w, journal') + (IF Due(w)' THEN 1 ELSE 0)
    BY DEF Balanced, Count
  <2>1. Unforced /\ (pc' = pc \/ pc' = pc + 1)
    BY UnforcedBefore, Moves
  <2> QED BY <2>1, BalancedStays, BalancedOnward
<1>2. RoomKept' /\ InverseKept'
  BY RoomKeptStep, InverseKeptStep DEF Journals
<1>3. ChangesReached' /\ JournalReached'
  BY ReachedStep DEF Journals
<1>4. (Past(OpAt(prog, {"read", "waiting"})) => pre # "unread")'
  BY ReadStep DEF Journals
<1> QED BY <1>1, <1>2, <1>3, <1>4 DEF Journals

LEMMA InitJournals == ASSUME Init PROVE Journals
<1>1. /\ executed = <<>> /\ journal = <<>> /\ pc = 0
      /\ \A i \in 1 .. Len(prog) : ~(i < pc)
  BY DEF Init
<1>2. Balanced
  <2>1. ASSUME NEW w \in Configures
        PROVE  Count(w, executed) = 0 /\ Count(w, journal) = 0 /\ ~Due(w)
    BY <1>1, CountNone DEF Due, At
  <2> QED BY <2>1 DEF Balanced
<1>3. RoomKept /\ InverseKept
  BY <1>1 DEF RoomKept, InverseKept, OpAt
<1>4. ChangesReached /\ JournalReached
  BY <1>1 DEF ChangesReached, JournalReached
<1>5. ~Past(OpAt(prog, {"read", "waiting"}))
  BY <1>1 DEF Past, OpAt
<1> QED BY <1>2, <1>3, <1>4, <1>5 DEF Journals

LEMMA JournalsUndoable == ASSUME TypeOK, Journals PROVE InSessionUndoable
<1> SUFFICES ASSUME Unforced, exit = "ok", NEW w \in Configures
             PROVE  \/ w \in {"/set", "/remove"} /\ pre \in {"bare", "none", "failed"}
                    \/ Count(w, executed) = Count(w, journal)
  BY DEF InSessionUndoable, Unforced
<1>1. ~Due(w)
  BY DEF Due, At, Running
<1>2. Count(w, journal) \in Nat
  BY CountNat DEF TypeOK
<1> QED BY <1>1, <1>2 DEF Journals, Balanced, Exempt

-----------------------------------------------------------------------------
(* The theorems about commands.                                              *)

CInv == IInv /\ Typed /\ Restrained /\ MadeOnce /\ Journals

LEMMA InitHolds == Init => CInv
BY Initially, InitTyped, InitRestrained, InitMadeOnce, InitJournals DEF CInv

LEMMA StepHolds == CInv /\ [Next]_vars => CInv'
<1>1. ASSUME CInv, Next PROVE CInv'
  <2>1. IInv /\ Typed /\ TypeOK /\ Restrained /\ MadeOnce /\ Journals
    BY <1>1 DEF CInv, Typed
  <2>2. IInv'
    BY <1>1, <2>1, CallStep
  <2>3. Typed' /\ Restrained' /\ MadeOnce' /\ Journals'
    BY <1>1, <2>1, <2>2, TypedStep, RestrainedStep, MadeOnceStep, JournalsStep
  <2> QED BY <2>2, <2>3 DEF CInv
<1>2. ASSUME CInv, UNCHANGED vars PROVE CInv'
  <2>1. UNCHANGED <<prog, opts, pc, pre, req, link, late, executed, unknown, gated, journal,
                    missed, action, exit>>
    BY <1>2 DEF vars
  <2>2. IInv' /\ Typed'
    BY <1>2, <2>1, CallStutters DEF CInv, Typed, TypeOK, Attempts, RoomFits
  <2>3. Restrained'
    BY <1>2, <2>1 DEF CInv, Restrained, Untouched, Changing, WordAt, OnlyExports, Reached,
       Past, Obeying, SaysNothingDone, Calling, At, Running, This, IsWrite, OpAt
  <2>4. MadeOnce'
    BY <1>2, <2>1 DEF CInv, MadeOnce, Count, Made, WordAt, Running
  <2>5. Journals'
    BY <1>2, <2>1 DEF CInv, Journals, Balanced, Unforced, Has, Exempt, Count, Due, Lost, At, Running,
       This, RoomKept, InverseKept, HasInverse, ChangesReached, JournalReached, Reached, Past,
       OpAt, WordAt
  <2> QED BY <2>2, <2>3, <2>4, <2>5 DEF CInv
<1> QED BY <1>1, <1>2

\* The counting invariant, for any well-formed commands: see the head of the module.
THEOREM CommandsInvariant == Spec => []CInv
BY InitHolds, StepHolds, PTL DEF Spec

\* Type correctness, for any well-formed commands: no call is sent more often than
\* ROS_READ_RETRIES allows, and the session of a command never exceeds its cap.
THEOREM CommandsTypeCorrect == Spec => []TypeOK
<1>1. CInv => TypeOK
  BY DEF CInv, Typed
<1> QED BY CommandsInvariant, <1>1, PTL

\* A command that says it changed nothing has changed nothing and journaled nothing;
\* under --read-only it has journaled nothing, and the files that an export wrote are
\* all it may have changed.  (ReadOnlyClient, IsWrite, emitDryRun, resolve.go,
\* outcome.go.)
THEOREM RefusalsTouchNothing == Spec => []RefusedTouchesNothing
<1>1. CInv => RefusedTouchesNothing
  BY RestrainedSays DEF CInv, Typed
<1> QED BY CommandsInvariant, <1>1, PTL

\* A listed write is sent once, and the router makes no change more often than the
\* command asks for it.  (readRetryClient.Run, isMutatingCommand.)
THEOREM WritesMadeOnce == Spec => []ListedWritesSentOnce
<1>1. CInv => ListedWritesSentOnce
  BY MadeOnceCounts DEF CInv, Typed
<1> QED BY CommandsInvariant, <1>1, PTL

\* A gated command that succeeds in a safe session has journaled every change whose
\* row it could read: the cap never lets one through that cannot be recorded.
\* (enforceGuardrails, recordSafeChange, ensureExecJournalable.)
THEOREM SessionsUndoable == Spec => []InSessionUndoable
<1>1. CInv => InSessionUndoable
  BY JournalsUndoable DEF CInv, Typed
<1> QED BY CommandsInvariant, <1>1, PTL
=============================================================================
