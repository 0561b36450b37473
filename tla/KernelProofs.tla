---------------------------- MODULE KernelProofs ----------------------------
(***************************************************************************)
(* Proofs about Kernel, for all values of its constants.                   *)
(*                                                                         *)
(* First, of the calls: a tool call is invoked at most once, its result is *)
(* true of the world, and no call is left without an answer.  These follow *)
(* from what is true of the run, its batch, the orphan flag and the place  *)
(* of the turn, so the inductive invariant Inv is a predicate of these     *)
(* four values.  With it every step of the kernel is one of ToolBatch, or  *)
(* none: the kernel implements it.                                         *)
(*                                                                         *)
(* Then, of the goal: an effect has the authority it needs, no permission  *)
(* outlives the intent it was given for, and a goal is done only when it   *)
(* is proved.  These need Inv and the invariant AuthInv.                   *)
(***************************************************************************)
EXTENDS KernelMC, TLAPS

-----------------------------------------------------------------------------
(* The inductive invariant                                                 *)

Places == {"idle", "claim", "first", "loop", "invoke", "record", "sent",
           "evidence", "claimed", "verified"}
InDriver == Places \ {"idle", "claim"}

ARun == [status : RunStatus, phase : {"MODEL", "TOOL", "EXECUTING"},
         cursor : Nat, owned : BOOLEAN, grant : Nat, used : 0..RunLimit]

RunTypes(r, b, o, p) ==
  /\ b \in Seq(Call)
  /\ r \in ARun
  /\ o \in BOOLEAN
  /\ p \in Places

\* Where the cursor may be, and what phase a run of each status is in.
RunShape(r, b) ==
  /\ r.phase = "MODEL" => r.cursor = 0
  /\ r.phase # "MODEL" => r.cursor \in 1..Len(b)
  /\ r.grant # 0 => r.grant = r.cursor /\ r.phase = "TOOL" /\ r.status = "RUNNABLE"
  /\ r.status = "none" => r.phase = "MODEL"
  /\ r.status = "AWAITING_APPROVAL" => r.phase = "TOOL"
  /\ r.status = "AWAITING_DISCLOSURE" => r.phase = "MODEL"
  /\ r.status = "AWAITING_RECOVERY" => r.phase = "EXECUTING"
  /\ r.phase = "EXECUTING" => r.status \in {"RUNNABLE", "AWAITING_RECOVERY"}

\* What each place of the turn knows of the run.
PlaceShape(r, b, p) ==
  /\ p \in InDriver => r.status = "RUNNABLE"
  /\ p \in {"claim", "first", "loop"} => r.phase # "EXECUTING"
  /\ p \in {"sent", "evidence", "claimed", "verified"} => r.phase = "MODEL"
  /\ p \in {"invoke", "record"} => r.phase = "EXECUTING"
  /\ p = "invoke" => b[r.cursor].invs = 0
  /\ p = "record" => b[r.cursor].invs = 1

\* Calls are answered in order; what is open has not touched the world, unless
\* it is the one in progress.
Answers(r, b, o) ==
  /\ r.phase # "MODEL" => \A i \in DOMAIN b : b[i].res = "open" <=> i >= r.cursor
  /\ r.phase = "MODEL" /\ ~o => \A i \in DOMAIN b : b[i].res # "open"
Effects(r, b) ==
  \A i \in DOMAIN b :
    /\ b[i].invs <= 1
    /\ b[i].res = "notrun" => b[i].invs = 0
    /\ b[i].res = "ok" => b[i].invs = 1
    /\ b[i].res = "open" /\ b[i].invs > 0 => r.phase = "EXECUTING" /\ i = r.cursor

RunInv(r, b, o, p) ==
  /\ RunTypes(r, b, o, p)
  /\ RunShape(r, b)
  /\ PlaceShape(r, b, p)
  /\ Answers(r, b, o)
  /\ Effects(r, b)

-----------------------------------------------------------------------------
(* What the helpers do to a run and its batch                              *)

\* A function on 1..n is a sequence.
LEMMA FunIsSeq ==
  ASSUME NEW S, NEW n \in Nat, NEW f \in [1..n -> S]
  PROVE  f \in Seq(S) /\ Len(f) = n
  OBVIOUS

\* Answering the rest of a batch changes nothing but the open results.
LEMMA SuffixFacts ==
  ASSUME NEW r, NEW b \in Seq(Call)
  PROVE  /\ Suffix(b, r) \in Seq(Call)
         /\ Len(Suffix(b, r)) = Len(b)
         /\ \A i \in 1..Len(b) :
              Suffix(b, r)[i] = IF r.phase = "TOOL" /\ i >= r.cursor
                                  THEN [b[i] EXCEPT !.res = "notrun"] ELSE b[i]
<1>1. DOMAIN b = 1..Len(b) /\ Len(b) \in Nat
  OBVIOUS
<1>2. \A i \in 1..Len(b) : b[i] \in Call
  OBVIOUS
<1>3. \A i \in 1..Len(b) : [b[i] EXCEPT !.res = "notrun"] \in Call
  BY <1>2 DEF Call
<1>4. Suffix(b, r) \in [1..Len(b) -> Call]
  BY <1>1, <1>2, <1>3 DEF Suffix
<1> QED
  BY <1>1, <1>4, FunIsSeq DEF Suffix

\* Answering the call at the cursor changes that call alone.
LEMMA AnsweredFacts ==
  ASSUME NEW r, NEW b \in Seq(Call), r.cursor \in 1..Len(b),
         NEW res \in {"ok", "notrun", "unknown"}
  PROVE  /\ Answered(b, r, res) \in Seq(Call)
         /\ Len(Answered(b, r, res)) = Len(b)
         /\ \A i \in 1..Len(b) :
              /\ Answered(b, r, res)[i].invs = b[i].invs
              /\ Answered(b, r, res)[i].res = IF i = r.cursor THEN res ELSE b[i].res
<1>1. \A i \in 1..Len(b) : b[i] \in Call
  OBVIOUS
<1>2. Answered(b, r, res) = [b EXCEPT ![r.cursor] =
                               [b[r.cursor] EXCEPT !.res = res, !.by = "none"]]
  BY DEF Answered
<1>3. [b[r.cursor] EXCEPT !.res = res, !.by = "none"] \in Call
  BY <1>1 DEF Call, Warrants
<1> QED
  BY <1>1, <1>2, <1>3 DEF Call

\* After the result of a call the run is at the next one, or at the model.
LEMMA AdvanceFacts ==
  ASSUME NEW b \in Seq(Call), NEW r \in ARun, r.cursor \in 1..Len(b)
  PROVE  /\ Advance(b, r) \in ARun
         /\ Advance(b, r).status = r.status
         /\ Advance(b, r).grant = 0
         /\ \/ /\ r.cursor < Len(b)
               /\ Advance(b, r).phase = "TOOL"
               /\ Advance(b, r).cursor = r.cursor + 1
            \/ /\ r.cursor = Len(b)
               /\ Advance(b, r).phase = "MODEL"
               /\ Advance(b, r).cursor = 0
<1>1. Len(b) \in Nat
  OBVIOUS
<1>2. CASE r.cursor < Len(b)
  <2> DEFINE n == [r EXCEPT !.phase = "TOOL", !.cursor = r.cursor + 1, !.grant = 0]
  <2>1. Advance(b, r) = n
    BY <1>2 DEF Advance
  <2>2. /\ n \in ARun /\ n.status = r.status /\ n.grant = 0
        /\ n.phase = "TOOL" /\ n.cursor = r.cursor + 1
    <3>1. r.cursor + 1 \in Nat
      BY <1>1
    <3> QED
      BY <3>1 DEF ARun
  <2> HIDE DEF n
  <2> QED
    BY <1>2, <2>1, <2>2
<1>3. CASE ~(r.cursor < Len(b))
  <2> DEFINE n == [r EXCEPT !.phase = "MODEL", !.cursor = 0, !.grant = 0]
  <2>1. Advance(b, r) = n
    BY <1>3 DEF Advance
  <2>2. /\ n \in ARun /\ n.status = r.status /\ n.grant = 0
        /\ n.phase = "MODEL" /\ n.cursor = 0
    BY DEF ARun
  <2>3. r.cursor = Len(b)
    BY <1>1, <1>3
  <2> HIDE DEF n
  <2> QED
    BY <2>1, <2>2, <2>3
<1> QED
  BY <1>2, <1>3

-----------------------------------------------------------------------------
(* How the invariant passes from one state of the run to the next          *)

\* A dropped run whose effects are all accounted for leaves a closed batch.
LEMMA DropKeepsInv ==
  ASSUME NEW r, NEW b, NEW o, NEW p, RunInv(r, b, o, p), r.phase # "EXECUTING",
         RunLimit \in Nat
  PROVE  RunInv(NoRun, Suffix(b, r), o, "idle")
<1>0. b \in Seq(Call) /\ r \in ARun /\ o \in BOOLEAN
  BY DEF RunInv, RunTypes
<1>1. /\ Suffix(b, r) \in Seq(Call)
      /\ Len(Suffix(b, r)) = Len(b)
      /\ \A i \in 1..Len(b) :
           Suffix(b, r)[i] = IF r.phase = "TOOL" /\ i >= r.cursor
                               THEN [b[i] EXCEPT !.res = "notrun"] ELSE b[i]
  BY <1>0, SuffixFacts
<1>2. DOMAIN Suffix(b, r) = 1..Len(b) /\ DOMAIN b = 1..Len(b)
  BY <1>0, <1>1
<1>3. \A i \in 1..Len(b) : b[i] \in Call
  BY <1>0
<1>4. RunTypes(NoRun, Suffix(b, r), o, "idle")
  BY <1>0, <1>1 DEF RunTypes, NoRun, ARun, RunStatus, Places
<1>5. RunShape(NoRun, Suffix(b, r)) /\ PlaceShape(NoRun, Suffix(b, r), "idle")
  BY DEF RunShape, PlaceShape, NoRun, InDriver
<1>6. Answers(NoRun, Suffix(b, r), o)
  <2> SUFFICES ASSUME ~o, NEW i \in 1..Len(b)
               PROVE  Suffix(b, r)[i].res # "open"
    BY <1>2 DEF Answers, NoRun
  <2>1. CASE r.phase = "TOOL"
    BY <2>1, <1>0, <1>1, <1>2, <1>3 DEF RunInv, Answers, Call, ARun
  <2>2. CASE r.phase = "MODEL"
    BY <2>2, <1>0, <1>1, <1>2, <1>3 DEF RunInv, Answers, Call, ARun
  <2> QED
    BY <2>1, <2>2, <1>0 DEF ARun
<1>7. Effects(NoRun, Suffix(b, r))
  <2> SUFFICES ASSUME NEW i \in 1..Len(b)
               PROVE  /\ Suffix(b, r)[i].invs <= 1
                      /\ Suffix(b, r)[i].res = "notrun" => Suffix(b, r)[i].invs = 0
                      /\ Suffix(b, r)[i].res = "ok" => Suffix(b, r)[i].invs = 1
                      /\ ~(Suffix(b, r)[i].res = "open" /\ Suffix(b, r)[i].invs > 0)
    BY <1>2 DEF Effects
  <2>1. /\ b[i] \in Call
        /\ b[i].invs <= 1
        /\ b[i].res = "notrun" => b[i].invs = 0
        /\ b[i].res = "ok" => b[i].invs = 1
        /\ ~(b[i].res = "open" /\ b[i].invs > 0)
    BY <1>2, <1>3 DEF RunInv, Effects
  <2>2. CASE r.phase = "TOOL" /\ i >= r.cursor
    <3>1. b[i].res = "open"
      BY <2>2, <1>2 DEF RunInv, Answers
    <3>2. b[i].invs = 0
      BY <2>1, <3>1 DEF Call
    <3> QED
      BY <2>1, <2>2, <3>2, <1>1 DEF Call
  <2>3. CASE ~(r.phase = "TOOL" /\ i >= r.cursor)
    BY <2>1, <2>3, <1>1
  <2> QED
    BY <2>2, <2>3
<1> QED
  BY <1>4, <1>5, <1>6, <1>7 DEF RunInv

\* A change of the run that does not move it in its batch.
LEMMA StayKeepsInv ==
  ASSUME NEW r, NEW b, NEW o, NEW p, RunInv(r, b, o, p),
         NEW s \in ARun, s.phase = r.phase, s.cursor = r.cursor,
         NEW q \in Places, RunShape(s, b), PlaceShape(s, b, q)
  PROVE  RunInv(s, b, o, q)
  BY DEF RunInv, RunTypes, Answers, Effects

\* The call at the cursor gets its result, a true one, and the run moves on.
LEMMA AnswerKeepsInv ==
  ASSUME NEW r, NEW b, NEW o, NEW p, RunInv(r, b, o, p), r.phase # "MODEL",
         NEW res \in {"ok", "notrun", "unknown"},
         res = "notrun" => b[r.cursor].invs = 0,
         res = "ok" => b[r.cursor].invs = 1,
         NEW s \in ARun, s.status = "RUNNABLE", s.grant = 0,
         s.phase = Advance(b, r).phase, s.cursor = Advance(b, r).cursor,
         NEW q \in {"claim", "loop"}
  PROVE  RunInv(s, Answered(b, r, res), o, q)
<1> DEFINE c == Answered(b, r, res)
<1>0. b \in Seq(Call) /\ r \in ARun /\ o \in BOOLEAN /\ r.cursor \in 1..Len(b)
  BY DEF RunInv, RunTypes, RunShape
<1>1. /\ c \in Seq(Call)
      /\ Len(c) = Len(b)
      /\ \A i \in 1..Len(b) :
           /\ c[i].invs = b[i].invs
           /\ c[i].res = IF i = r.cursor THEN res ELSE b[i].res
  BY <1>0, AnsweredFacts
<1>2. DOMAIN c = 1..Len(b) /\ DOMAIN b = 1..Len(b) /\ Len(b) \in Nat
  BY <1>0, <1>1
<1>3. \/ r.cursor < Len(b) /\ s.phase = "TOOL" /\ s.cursor = r.cursor + 1
      \/ r.cursor = Len(b) /\ s.phase = "MODEL" /\ s.cursor = 0
  BY <1>0, AdvanceFacts
<1>4. \A i \in 1..Len(b) : b[i].res = "open" <=> i >= r.cursor
  BY <1>2 DEF RunInv, Answers
<1> HIDE DEF c
<1>5. RunTypes(s, c, o, q)
  BY <1>0, <1>1 DEF RunTypes, Places
<1>6. RunShape(s, c) /\ PlaceShape(s, c, q)
  BY <1>0, <1>1, <1>2, <1>3 DEF RunShape, PlaceShape, InDriver, ARun
<1>7. Answers(s, c, o)
  <2>1. \A i \in 1..Len(b) : c[i].res = "open" <=> i > r.cursor
    BY <1>0, <1>1, <1>4 DEF ARun
  <2> QED
    BY <2>1, <1>0, <1>2, <1>3 DEF Answers, ARun
<1>8. Effects(s, c)
  <2>1. \A i \in 1..Len(b) :
          /\ b[i].invs <= 1
          /\ b[i].res = "notrun" => b[i].invs = 0
          /\ b[i].res = "ok" => b[i].invs = 1
          /\ b[i].res = "open" /\ b[i].invs > 0 => i = r.cursor
    BY <1>2 DEF RunInv, Effects
  <2> QED
    BY <2>1, <1>0, <1>1, <1>2 DEF Effects
<1> QED
  BY <1>5, <1>6, <1>7, <1>8 DEF RunInv, c

-----------------------------------------------------------------------------
(* The steps                                                               *)

Inv == RunInv(run, batch, orphan, pc)

\* A step that drops a run which is not in the middle of a call.
LEMMA DropStep ==
  ASSUME Inv, RunLimit \in Nat, run.phase # "EXECUTING",
         DropRun, Finish, orphan' = orphan
  PROVE  Inv'
<1>1. RunInv(NoRun, Suffix(batch, run), orphan, "idle")
  BY DropKeepsInv DEF Inv
<1> QED
  BY <1>1 DEF Inv, DropRun, Finish

\* A step that leaves the run where it is in its batch.
LEMMA StayStep ==
  ASSUME Inv, UNCHANGED <<batch, orphan>>,
         run' \in ARun, run'.phase = run.phase, run'.cursor = run.cursor,
         pc' \in Places, RunShape(run', batch), PlaceShape(run', batch, pc')
  PROVE  Inv'
<1>1. RunInv(run', batch, orphan, pc')
  BY StayKeepsInv DEF Inv
<1> QED
  BY <1>1 DEF Inv

\* A turn that only ends, or moves on at the model, or stutters.
LEMMA EndStep ==
  ASSUME Inv, UNCHANGED <<run, batch, orphan>>, pc' = "idle"
  PROVE  Inv'
  BY DEF Inv, RunInv, RunTypes, PlaceShape, InDriver, Places
LEMMA ModelStep ==
  ASSUME Inv, UNCHANGED <<run, batch, orphan>>,
         pc \in {"sent", "evidence", "claimed"},
         pc' \in {"loop", "evidence", "claimed", "verified"}
  PROVE  Inv'
  BY DEF Inv, RunInv, RunTypes, PlaceShape, InDriver, Places

\* What the driver knows when it is not in the middle of a call.
LEMMA DriverFacts ==
  ASSUME Inv
  PROVE  /\ run \in ARun /\ batch \in Seq(Call)
         /\ Driving \/ MidModel => run.status = "RUNNABLE" /\ run.phase # "EXECUTING"
         /\ MidModel => run.phase = "MODEL"
         /\ pc = "claim" => run.phase # "EXECUTING"
  BY DEF Inv, RunInv, RunTypes, PlaceShape, InDriver, Places, Driving, MidModel

LEMMA RaiseStep ==
  ASSUME Inv, RunLimit \in Nat, Driving \/ pc = "sent", Raise, orphan' = orphan
  PROVE  Inv'
<1>1. run.phase # "EXECUTING"
  BY DriverFacts DEF MidModel
<1>2. CASE pc = "first"
  BY <1>1, <1>2, DropStep DEF Raise
<1>3. CASE pc # "first"
  BY <1>3, EndStep DEF Raise, Finish
<1> QED
  BY <1>2, <1>3

\* A run that gives up its owner and waits for the user.
LEMMA StopStep ==
  ASSUME Inv, NEW st \in {"PAUSED_LIMIT", "PAUSED_RETRYABLE", "AWAITING_DISCLOSURE"},
         Driving \/ MidModel, MayStop(run), run' = Stopped(run, st),
         st = "AWAITING_DISCLOSURE" => run.phase = "MODEL",
         Finish, UNCHANGED <<batch, orphan>>
  PROVE  Inv'
<1>1. run \in ARun /\ run.phase # "EXECUTING" /\ RunShape(run, batch)
  BY DriverFacts DEF Inv, RunInv
<1>2. /\ run' \in ARun /\ run'.phase = run.phase /\ run'.cursor = run.cursor
      /\ run'.status = st /\ run'.grant = run.grant
  BY <1>1 DEF Stopped, ARun, RunStatus, Waiting, Paused
<1>3. RunShape(run', batch)
  BY <1>1, <1>2 DEF RunShape, MayStop
<1>4. pc' \in Places /\ PlaceShape(run', batch, pc')
  BY DEF Finish, Places, PlaceShape, InDriver
<1> QED
  BY <1>2, <1>3, <1>4, StayStep

\* A call whose outcome is unknown waits for the user.
LEMMA RecoveryStep ==
  ASSUME Inv, run.phase = "EXECUTING", run' = Recovering(run), Finish,
         UNCHANGED <<batch, orphan>>
  PROVE  Inv'
<1>1. run \in ARun /\ RunShape(run, batch)
  BY DriverFacts DEF Inv, RunInv
<1>2. /\ run' \in ARun /\ run'.phase = "EXECUTING" /\ run'.cursor = run.cursor
      /\ run'.status = "AWAITING_RECOVERY" /\ run'.grant = run.grant
  BY <1>1 DEF Recovering, Stopped, ARun, RunStatus, Waiting
<1>3. RunShape(run', batch)
  BY <1>1, <1>2 DEF RunShape
<1>4. pc' \in Places /\ PlaceShape(run', batch, pc')
  BY DEF Finish, Places, PlaceShape, InDriver
<1> QED
  BY <1>2, <1>3, <1>4, StayStep

-----------------------------------------------------------------------------
(* The user's actions                                                      *)

\* A fresh run.
LEMMA NewRunFacts ==
  ASSUME RunLimit \in Nat
  PROVE  /\ NewRun \in ARun /\ NewRun.phase = "MODEL" /\ NewRun.cursor = 0
         /\ NewRun.grant = 0 /\ NewRun.status = "RUNNABLE"
<1>1. /\ NoRun \in ARun /\ NoRun.phase = "MODEL" /\ NoRun.cursor = 0
      /\ NoRun.grant = 0
  BY DEF NoRun, ARun, RunStatus
<1> QED
  BY <1>1 DEF NewRun, ARun, RunStatus

LEMMA SubmitStep ==
  ASSUME Inv, RunLimit \in Nat, SubmitMessage
  PROVE  Inv'
<1> DEFINE correction == goal.status \in Open
<1>1. /\ run \in ARun /\ batch \in Seq(Call) /\ orphan = FALSE
      /\ run.status = "none" => run.phase = "MODEL"
      /\ run.status = "AWAITING_APPROVAL" => run.phase = "TOOL"
      /\ run.status \in {"none", "AWAITING_APPROVAL"}
  BY DriverFacts DEF Inv, RunInv, RunTypes, RunShape, SubmitMessage, Accepts
<1>2. run' = NewRun /\ pc' = "claim"
  BY DEF SubmitMessage
<1>3. /\ NewRun \in ARun /\ NewRun.phase = "MODEL" /\ NewRun.cursor = 0
      /\ NewRun.grant = 0 /\ NewRun.status = "RUNNABLE"
  BY NewRunFacts
<1>4. \A b : RunShape(NewRun, b) /\ PlaceShape(NewRun, b, "claim")
  BY <1>3 DEF RunShape, PlaceShape, InDriver
<1>5. CASE correction
  <2>1. batch' = Suffix(batch, run) /\ orphan' = FALSE
    BY <1>5 DEF SubmitMessage
  <2>2. RunInv(NoRun, Suffix(batch, run), orphan, "idle")
    BY <1>1, DropKeepsInv DEF Inv
  <2>3. NewRun.phase = NoRun.phase /\ NewRun.cursor = NoRun.cursor /\ "claim" \in Places
    BY <1>3 DEF NoRun, Places
  <2>4. RunInv(NewRun, Suffix(batch, run), orphan, "claim")
    BY <2>2, <2>3, <1>3, <1>4, StayKeepsInv
  <2> QED
    BY <2>1, <2>4, <1>1, <1>2 DEF Inv
<1>6. CASE ~correction
  <2>1. batch' = batch /\ orphan' = (run.status = "AWAITING_APPROVAL")
    BY <1>6 DEF SubmitMessage
  <2>2. RunTypes(NewRun, batch, orphan', "claim")
    BY <1>1, <1>3, <2>1 DEF RunTypes, Places
  <2>3. Answers(NewRun, batch, orphan')
    BY <1>1, <1>3, <2>1 DEF Answers, Inv, RunInv
  <2>4. Effects(NewRun, batch)
    BY <1>1, <1>3 DEF Effects, Inv, RunInv
  <2> QED
    BY <2>1, <2>2, <2>3, <2>4, <1>2, <1>4 DEF Inv, RunInv
<1> QED
  BY <1>5, <1>6

\* The actions that drop the run.
LEMMA UserDropStep ==
  ASSUME Inv, RunLimit \in Nat, PauseGoal \/ CancelGoal \/ Reject \/ CancelRun
  PROVE  Inv'
<1>1. run.status = "AWAITING_APPROVAL" => run.phase # "EXECUTING"
  BY DEF Inv, RunInv, RunShape
<1>2. run.phase # "EXECUTING" /\ DropRun /\ Finish /\ orphan' = orphan
  BY <1>1 DEF PauseGoal, CancelGoal, Reject, CancelRun, MayPause, MayCancel,
              PauseTheGoal, CancelTheGoal, UnknownEffect
<1> QED
  BY <1>2, DropStep

\* The actions that do not touch the run.
LEMMA UserStillStep ==
  ASSUME Inv, ResumeGoal \/ ConfirmCriterion \/ RevokeGoalTargetAuthority \/ RefuseAction
  PROVE  Inv'
<1>1. UNCHANGED <<run, batch, orphan>> /\ pc' = "idle"
  BY DEF ResumeGoal, ConfirmCriterion, RevokeGoalTargetAuthority, RefuseAction,
         Finish, vars
<1> QED
  BY <1>1, EndStep

\* A run that waits or is paused becomes runnable for the driver to claim.
LEMMA ReadyStep ==
  ASSUME Inv, UNCHANGED <<batch, orphan>>, run.phase # "EXECUTING",
         run' \in ARun, run'.phase = run.phase, run'.cursor = run.cursor,
         run'.status = "RUNNABLE",
         run'.grant # 0 => run'.grant = run.cursor /\ run.phase = "TOOL",
         pc' \in {"claim", "first", "loop", "idle"},
         pc' = "first" \/ pc' = "loop" => run'.status = "RUNNABLE"
  PROVE  Inv'
<1>1. RunShape(run', batch)
  BY DEF RunShape, Inv, RunInv
<1>2. pc' \in Places /\ PlaceShape(run', batch, pc')
  BY DEF Places, PlaceShape, InDriver
<1> QED
  BY <1>1, <1>2, StayStep

LEMMA AnswerDisclosureStep ==
  ASSUME Inv, RunLimit \in Nat, AnswerDisclosure
  PROVE  Inv'
<1>1. run \in ARun /\ RunShape(run, batch)
  BY DriverFacts DEF Inv, RunInv
<1>2. pc' = "claim" /\ UNCHANGED <<batch, orphan>>
  BY DEF AnswerDisclosure
<1>3. CASE run.status = "AWAITING_DISCLOSURE" /\ run' = [run EXCEPT !.status = "RUNNABLE"]
  <2>1. run.phase = "MODEL" /\ run.grant = 0
    BY <1>1, <1>3 DEF RunShape
  <2>2. /\ run' \in ARun /\ run'.phase = run.phase /\ run'.cursor = run.cursor
        /\ run'.status = "RUNNABLE" /\ run'.grant = run.grant
    BY <1>1, <1>3 DEF ARun, RunStatus
  <2> QED
    BY <1>2, <2>1, <2>2, ReadyStep
<1>4. CASE run.status = "none" /\ run' = NewRun
  <2>1. run.phase = "MODEL" /\ run.cursor = 0
    BY <1>1, <1>4 DEF RunShape
  <2>2. /\ run' \in ARun /\ run'.phase = "MODEL" /\ run'.cursor = 0
        /\ run'.status = "RUNNABLE" /\ run'.grant = 0
    BY <1>4, NewRunFacts
  <2> QED
    BY <1>2, <2>1, <2>2, ReadyStep
<1> QED
  BY <1>3, <1>4 DEF AnswerDisclosure

LEMMA RevokeStep ==
  ASSUME Inv, RevokeConsent \/ RevokeProcessAuthority
  PROVE  Inv'
<1>1. run \in ARun /\ RunShape(run, batch)
  BY DriverFacts DEF Inv, RunInv
<1>2. run.phase # "EXECUTING" /\ UNCHANGED <<batch, orphan>> /\ pc' \in {"idle", "claim"}
  BY DEF RevokeConsent, RevokeProcessAuthority, UnknownEffect, Route
<1>3. CASE run' = run
  <2>1. pc' \in Places /\ PlaceShape(run, batch, pc')
    BY <1>2 DEF Places, PlaceShape, InDriver
  <2> QED
    BY <1>1, <1>2, <1>3, <2>1, StayStep
<1>4. CASE run.status = "AWAITING_DISCLOSURE" /\ run' = [run EXCEPT !.status = "RUNNABLE"]
  <2>1. run.phase = "MODEL" /\ run.grant = 0
    BY <1>1, <1>4 DEF RunShape
  <2>2. /\ run' \in ARun /\ run'.phase = run.phase /\ run'.cursor = run.cursor
        /\ run'.status = "RUNNABLE" /\ run'.grant = run.grant
    BY <1>1, <1>4 DEF ARun, RunStatus
  <2> QED
    BY <1>2, <2>1, <2>2, ReadyStep
<1> QED
  BY <1>3, <1>4 DEF RevokeConsent, RevokeProcessAuthority

LEMMA ApproveStep ==
  ASSUME Inv, Approve
  PROVE  Inv'
<1>1. run \in ARun /\ RunShape(run, batch) /\ run.status = "AWAITING_APPROVAL"
  BY DriverFacts DEF Inv, RunInv, Approve
<1>2. run.phase = "TOOL"
  BY <1>1 DEF RunShape
<1>3. /\ UNCHANGED <<batch, orphan>> /\ pc' = "claim"
      /\ run' = [run EXCEPT !.status = "RUNNABLE", !.grant = run.cursor]
  BY DEF Approve
<1>4. /\ run' \in ARun /\ run'.phase = run.phase /\ run'.cursor = run.cursor
      /\ run'.status = "RUNNABLE" /\ run'.grant = run.cursor
  BY <1>1, <1>3 DEF ARun, RunStatus
<1> QED
  BY <1>2, <1>3, <1>4, ReadyStep

LEMMA ClassifyStep ==
  ASSUME Inv, ResolveUnknownToolOutcome \/ RecoverUnknownObservation
  PROVE  Inv'
<1>1. run \in ARun /\ RunShape(run, batch) /\ batch \in Seq(Call)
  BY DriverFacts DEF Inv, RunInv
<1>2. run.phase = "EXECUTING" /\ Classified
  BY <1>1 DEF ResolveUnknownToolOutcome, RecoverUnknownObservation, RunShape, UnknownEffect
<1>3. run.cursor \in 1..Len(batch)
  BY <1>1, <1>2 DEF RunShape
<1>4. Advance(batch, run) \in ARun /\ Advance(batch, run).grant = 0
  BY <1>1, <1>3, AdvanceFacts
<1>5. /\ batch' = Answered(batch, run, "unknown") /\ pc' = "claim" /\ orphan' = orphan
      /\ run' = [Advance(batch, run) EXCEPT !.status = "RUNNABLE", !.owned = FALSE]
  BY <1>2 DEF Classified
<1>6. /\ run' \in ARun /\ run'.status = "RUNNABLE" /\ run'.grant = 0
      /\ run'.phase = Advance(batch, run).phase
      /\ run'.cursor = Advance(batch, run).cursor
  BY <1>4, <1>5 DEF ARun, RunStatus
<1>7. RunInv(run', Answered(batch, run, "unknown"), orphan, "claim")
  BY <1>2, <1>6, AnswerKeepsInv DEF Inv
<1> QED
  BY <1>5, <1>7 DEF Inv

LEMMA ResumeStep ==
  ASSUME Inv, Resume
  PROVE  Inv'
<1>1. run \in ARun /\ RunShape(run, batch) /\ UNCHANGED <<batch, orphan>>
  BY DriverFacts DEF Inv, RunInv, Resume
<1>2. CASE Finish /\ UNCHANGED run
  BY <1>1, <1>2, EndStep DEF Finish
<1>3. CASE UnknownEffect /\ run' = Recovering(run) /\ Finish
  BY <1>1, <1>3, RecoveryStep DEF UnknownEffect
<1>4. CASE /\ ~UnknownEffect /\ pc' = "claim"
           /\ run' = [run EXCEPT !.status = "RUNNABLE", !.owned = FALSE]
  <2>1. /\ run' \in ARun /\ run'.phase = run.phase /\ run'.cursor = run.cursor
        /\ run'.status = "RUNNABLE" /\ run'.grant = run.grant
    BY <1>1, <1>4 DEF ARun, RunStatus
  <2>2. run.grant # 0 => run.grant = run.cursor /\ run.phase = "TOOL"
    BY <1>1 DEF RunShape
  <2> QED
    BY <1>1, <1>4, <2>1, <2>2, ReadyStep DEF UnknownEffect
<1> QED
  BY <1>2, <1>3, <1>4 DEF Resume

-----------------------------------------------------------------------------
(* The driver                                                              *)

LEMMA ClaimStep ==
  ASSUME Inv, RunLimit \in Nat, Claim
  PROVE  Inv'
<1>1. run \in ARun /\ RunShape(run, batch) /\ run.phase # "EXECUTING" /\ orphan' = orphan
  BY DriverFacts DEF Inv, RunInv, Claim
<1>2. CASE DropRun /\ Finish
  BY <1>1, <1>2, DropStep
<1>3. CASE /\ run.status = "RUNNABLE" /\ run' = [run EXCEPT !.owned = TRUE]
           /\ pc' = "first" /\ UNCHANGED batch
  <2>1. /\ run' \in ARun /\ run'.phase = run.phase /\ run'.cursor = run.cursor
        /\ run'.status = "RUNNABLE" /\ run'.grant = run.grant
    BY <1>1, <1>3 DEF ARun
  <2>2. run.grant # 0 => run.grant = run.cursor /\ run.phase = "TOOL"
    BY <1>1 DEF RunShape
  <2> QED
    BY <1>1, <1>3, <2>1, <2>2, ReadyStep
<1> QED
  BY <1>2, <1>3 DEF Claim

LEMMA PollStep ==
  ASSUME Inv, RunLimit \in Nat, Poll
  PROVE  Inv'
<1>1. Driving \/ pc = "sent"
  BY DEF Poll, PollPause, PollCancel, PollCorrect
<1>2. run.phase # "EXECUTING"
  BY <1>1, DriverFacts DEF MidModel
<1>3. CASE Raise /\ orphan' = orphan
  BY <1>1, <1>3, RaiseStep
<1>4. CASE DropRun /\ Finish /\ orphan' = orphan
  BY <1>2, <1>4, DropStep
<1> QED
  BY <1>3, <1>4 DEF Poll, PollPause, PollCancel, PollCorrect, PauseTheGoal, CancelTheGoal

LEMMA StopsStep ==
  ASSUME Inv, RunLimit \in Nat, Stop
  PROVE  Inv'
<1>1. /\ run \in ARun /\ RunShape(run, batch)
      /\ Driving \/ MidModel => run.phase # "EXECUTING"
  BY DriverFacts DEF Inv, RunInv
<1>2. run.phase = "MODEL" => MayStop(run)
  BY <1>1 DEF RunShape, MayStop
<1>3. AtModel \/ pc = "sent" => (Driving \/ MidModel) /\ run.phase = "MODEL"
  BY DriverFacts DEF AtModel, MidModel
<1>4. CASE LimitReached
  <2>1. Driving \/ MidModel
    BY <1>4 DEF LimitReached
  <2>2. CASE /\ MayStop(run) /\ run' = Stopped(run, "PAUSED_LIMIT")
             /\ Finish /\ UNCHANGED <<batch, orphan>>
    BY <2>1, <2>2, StopStep
  <2>3. CASE ~MayStop(run) /\ Raise /\ orphan' = orphan
    <3>1. Driving
      BY <2>1, <2>3, <1>2, DriverFacts
    <3> QED
      BY <2>3, <3>1, RaiseStep
  <2> QED
    BY <1>4, <2>2, <2>3 DEF LimitReached
<1>5. CASE PauseRetryable
  BY <1>2, <1>3, <1>5, StopStep DEF PauseRetryable
<1>6. CASE EndRun
  BY <1>1, <1>6, DropStep DEF EndRun
<1>7. CASE AskDisclosure
  BY <1>2, <1>3, <1>7, StopStep DEF AskDisclosure
<1> QED
  BY <1>4, <1>5, <1>6, <1>7 DEF Stop

\* The answers the driver records: an error of prepare, or the call's result.
LEMMA ResultStep ==
  ASSUME Inv, Refuse \/ RecordResult
  PROVE  Inv'
<1>1. /\ run \in ARun /\ RunShape(run, batch) /\ batch \in Seq(Call)
      /\ run.status = "RUNNABLE"
  BY DriverFacts DEF Inv, RunInv, PlaceShape, Refuse, RecordResult, AtTool,
                     Places, InDriver
<1>2. PICK res \in {"notrun", "ok"} :
        /\ batch' = Answered(batch, run, res)
        /\ run' = Advance(batch, run) /\ pc' = "loop" /\ orphan' = orphan
        /\ res = "notrun" => run.phase = "TOOL"
        /\ res = "ok" => pc = "record"
  BY DEF Refuse, RecordResult, AtTool, Continue
<1>3. /\ run.phase # "MODEL"
      /\ res = "ok" => batch[run.cursor].invs = 1
  BY <1>2 DEF Inv, RunInv, PlaceShape
<1>4. run.cursor \in 1..Len(batch)
  BY <1>1, <1>3 DEF RunShape
<1>5. res = "notrun" => batch[run.cursor].invs = 0
  <2>1. DOMAIN batch = 1..Len(batch) /\ run.cursor \in Nat /\ batch[run.cursor] \in Call
    BY <1>1, <1>4 DEF ARun
  <2>2. batch[run.cursor].res = "open"
    BY <1>3, <1>4, <2>1 DEF Inv, RunInv, Answers
  <2> QED
    BY <1>2, <1>4, <2>1, <2>2 DEF Inv, RunInv, Effects, Call
<1>6. /\ run' \in ARun /\ run'.status = "RUNNABLE" /\ run'.grant = 0
  BY <1>1, <1>2, <1>4, AdvanceFacts
<1>7. RunInv(run', Answered(batch, run, res), orphan, "loop")
  BY <1>2, <1>3, <1>5, <1>6, AnswerKeepsInv DEF Inv
<1> QED
  BY <1>2, <1>7 DEF Inv

LEMMA NeedApprovalStep ==
  ASSUME Inv, RunLimit \in Nat, NeedApproval
  PROVE  Inv'
<1>1. run \in ARun /\ RunShape(run, batch) /\ orphan' = orphan
  BY DriverFacts DEF Inv, RunInv, NeedApproval
<1>2. run.phase = "TOOL" /\ Driving
  BY DEF NeedApproval, AtTool
<1>3. CASE /\ MayStop(run) /\ run' = Stopped(run, "AWAITING_APPROVAL")
           /\ Finish /\ UNCHANGED batch
  <2>1. /\ run' \in ARun /\ run'.phase = run.phase /\ run'.cursor = run.cursor
        /\ run'.status = "AWAITING_APPROVAL" /\ run'.grant = 0
    BY <1>1, <1>3 DEF Stopped, MayStop, ARun, RunStatus, Waiting
  <2>2. RunShape(run', batch)
    BY <1>1, <1>2, <2>1 DEF RunShape
  <2>3. pc' \in Places /\ PlaceShape(run', batch, pc')
    BY <1>3 DEF Finish, Places, PlaceShape, InDriver
  <2> QED
    BY <1>1, <1>3, <2>1, <2>2, <2>3, StayStep
<1>4. CASE Raise
  BY <1>1, <1>2, <1>4, RaiseStep
<1> QED
  BY <1>3, <1>4 DEF NeedApproval

LEMMA MarkStep ==
  ASSUME Inv, MarkExecuting
  PROVE  Inv'
<1> DEFINE k == run.cursor
<1>1. /\ run \in ARun /\ RunShape(run, batch) /\ batch \in Seq(Call)
      /\ run.status = "RUNNABLE" /\ run.phase = "TOOL" /\ orphan \in BOOLEAN
  BY DriverFacts DEF Inv, RunInv, RunTypes, MarkExecuting, AtTool
<1>2. k \in 1..Len(batch) /\ DOMAIN batch = 1..Len(batch)
  BY <1>1 DEF RunShape
<1>3. PICK w \in Warrants : batch' = [batch EXCEPT ![k] = [batch[k] EXCEPT !.by = w]]
  BY DEF MarkExecuting, WarrantsFor
<1>4. /\ run' = [run EXCEPT !.phase = "EXECUTING", !.grant = 0]
      /\ pc' = "invoke" /\ orphan' = orphan
  BY DEF MarkExecuting, Executing
<1>5. /\ run' \in ARun /\ run'.phase = "EXECUTING" /\ run'.cursor = k
      /\ run'.status = "RUNNABLE" /\ run'.grant = 0
  BY <1>1, <1>4 DEF ARun
<1>6. /\ batch' \in Seq(Call) /\ Len(batch') = Len(batch) /\ DOMAIN batch' = 1..Len(batch)
      /\ \A i \in 1..Len(batch) :
           batch'[i].res = batch[i].res /\ batch'[i].invs = batch[i].invs
  <2>1. \A i \in 1..Len(batch) : batch[i] \in Call
    BY <1>1
  <2>2. [batch[k] EXCEPT !.by = w] \in Call
    BY <1>2, <2>1 DEF Call
  <2> QED
    BY <1>1, <1>2, <1>3, <2>1, <2>2 DEF Call
<1>7. batch[k] \in Call /\ batch[k].res = "open" /\ batch[k].invs = 0
  <2>1. batch[k] \in Call
    BY <1>1, <1>2
  <2>2. k \in Nat
    BY <1>1 DEF ARun
  <2>3. batch[k].res = "open"
    BY <1>1, <1>2, <2>2 DEF Inv, RunInv, Answers
  <2> QED
    BY <1>1, <1>2, <2>1, <2>3 DEF Inv, RunInv, Effects, Call
<1>8. RunTypes(run', batch', orphan', pc')
  BY <1>1, <1>4, <1>5, <1>6 DEF RunTypes, Places
<1>9. RunShape(run', batch') /\ PlaceShape(run', batch', pc')
  BY <1>2, <1>4, <1>5, <1>6, <1>7 DEF RunShape, PlaceShape
<1>10. Answers(run', batch', orphan')
  BY <1>1, <1>2, <1>5, <1>6 DEF Answers, Inv, RunInv
<1>11. Effects(run', batch')
  BY <1>1, <1>2, <1>5, <1>6 DEF Effects, Inv, RunInv
<1> QED
  BY <1>8, <1>9, <1>10, <1>11 DEF Inv, RunInv

\* The effect happens to the call in progress, which nothing had touched.
LEMMA InvokeStep ==
  ASSUME Inv, Invoke
  PROVE  Inv'
<1> DEFINE k == run.cursor
<1> DEFINE touched == [batch EXCEPT ![k] = [batch[k] EXCEPT !.invs = batch[k].invs + 1]]
<1>1. /\ run \in ARun /\ RunShape(run, batch) /\ batch \in Seq(Call)
      /\ run.status = "RUNNABLE" /\ run.phase = "EXECUTING" /\ orphan \in BOOLEAN
      /\ batch[k].invs = 0 /\ orphan' = orphan
  BY DriverFacts DEF Inv, RunInv, RunTypes, PlaceShape, Places, InDriver, Invoke
<1>2. k \in 1..Len(batch) /\ DOMAIN batch = 1..Len(batch) /\ k \in Nat
  BY <1>1 DEF RunShape, ARun
<1>3. \A i \in 1..Len(batch) : batch[i] \in Call
  BY <1>1
<1>4. /\ touched \in Seq(Call) /\ Len(touched) = Len(batch)
      /\ DOMAIN touched = 1..Len(batch)
      /\ \A i \in 1..Len(batch) :
           /\ touched[i].res = batch[i].res
           /\ touched[i].invs = IF i = k THEN 1 ELSE batch[i].invs
  <2> DEFINE c == batch[k]
             d == [c EXCEPT !.invs = c.invs + 1]
  <2>1. c \in Call /\ c.invs = 0
    BY <1>1, <1>2, <1>3
  <2>2. c.invs + 1 \in Nat /\ c.invs + 1 = 1
    BY <2>1
  <2> HIDE DEF c
  <2>3. d \in Call
    BY <2>1, <2>2 DEF Call
  <2>4. d.res = c.res /\ d.invs = 1
    BY <2>1, <2>2 DEF Call
  <2>5. touched = [batch EXCEPT ![k] = d]
    BY DEF c
  <2> HIDE DEF d, touched
  <2>6. /\ touched \in Seq(Call) /\ Len(touched) = Len(batch)
        /\ DOMAIN touched = 1..Len(batch)
    BY <1>1, <1>2, <2>3, <2>5
  <2>7. \A i \in 1..Len(batch) : touched[i] = IF i = k THEN d ELSE batch[i]
    BY <1>1, <1>2, <2>5
  <2> QED
    BY <2>4, <2>6, <2>7 DEF c
<1>5. batch[k].res = "open"
  BY <1>1, <1>2 DEF Inv, RunInv, Answers
<1>6. CASE batch' = batch /\ run' = Recovering(run) /\ Finish
  BY <1>1, <1>6, RecoveryStep
<1>7. CASE batch' = touched /\ run'.phase = "EXECUTING" /\ run'.cursor = k
           /\ run'.grant = 0 /\ run' \in ARun
           /\ \/ run'.status = "RUNNABLE" /\ pc' = "record"
              \/ run'.status = "AWAITING_RECOVERY" /\ pc' = "idle"
  <2> HIDE DEF touched
  <2>1. RunTypes(run', batch', orphan', pc')
    BY <1>1, <1>4, <1>7 DEF RunTypes, Places
  <2>2. RunShape(run', batch') /\ PlaceShape(run', batch', pc')
    BY <1>2, <1>4, <1>7 DEF RunShape, PlaceShape, InDriver
  <2>3. Answers(run', batch', orphan')
    BY <1>1, <1>2, <1>4, <1>7 DEF Answers, Inv, RunInv
  <2>4. Effects(run', batch')
    BY <1>1, <1>2, <1>4, <1>5, <1>7 DEF Effects, Inv, RunInv
  <2> QED
    BY <2>1, <2>2, <2>3, <2>4 DEF Inv, RunInv
<1>8. run.grant = 0
  BY <1>1 DEF RunShape
<1>9. /\ Recovering(run) \in ARun /\ Recovering(run).phase = "EXECUTING"
      /\ Recovering(run).cursor = k /\ Recovering(run).grant = 0
      /\ Recovering(run).status = "AWAITING_RECOVERY"
  BY <1>1, <1>8 DEF Recovering, Stopped, ARun, RunStatus, Waiting
<1> QED
  BY <1>1, <1>6, <1>7, <1>8, <1>9 DEF Invoke, Finish

LEMMA AttemptStep ==
  ASSUME Inv, RunLimit \in Nat, Attempt
  PROVE  Inv'
<1>1. /\ run \in ARun /\ RunShape(run, batch) /\ run.status = "RUNNABLE"
      /\ run.phase = "MODEL" /\ UNCHANGED <<batch, orphan>>
  BY DriverFacts DEF Inv, RunInv, Attempt, AtModel
<1>2. run.used < RunLimit /\ run' = [run EXCEPT !.used = run.used + 1] /\ pc' = "sent"
  BY DEF Attempt, Counted
<1>3. run.used + 1 \in 0..RunLimit
  BY <1>1, <1>2 DEF ARun
<1>4. /\ run' \in ARun /\ run'.phase = "MODEL" /\ run'.cursor = run.cursor
      /\ run'.status = "RUNNABLE" /\ run'.grant = run.grant
  BY <1>1, <1>2, <1>3 DEF ARun
<1>5. RunShape(run', batch) /\ pc' \in Places /\ PlaceShape(run', batch, pc')
  BY <1>1, <1>2, <1>4 DEF RunShape, PlaceShape, Places
<1> QED
  BY <1>1, <1>4, <1>5, StayStep

\* A new batch: nothing in it has an answer or has touched the world.
LEMMA BatchStep ==
  ASSUME Inv, StartBatch, Kinds \subseteq AllKinds, BatchSize \in Nat
  PROVE  Inv'
<1>1. /\ run \in ARun /\ RunShape(run, batch) /\ run.status = "RUNNABLE"
      /\ run.phase = "MODEL" /\ orphan \in BOOLEAN
  BY DriverFacts DEF Inv, RunInv, RunTypes, StartBatch, MidModel
<1>20. PICK n \in 1..BatchSize : \E kinds \in [1..n -> Exposed] :
         batch' = [i \in 1..n |-> FreshCall(kinds[i])]
  BY DEF StartBatch
<1>2. PICK kinds \in [1..n -> Exposed] :
        batch' = [i \in 1..n |-> FreshCall(kinds[i])]
  BY <1>20
<1>3. /\ run' = [run EXCEPT !.phase = "TOOL", !.cursor = 1]
      /\ pc' = "loop" /\ orphan' = orphan
  BY DEF StartBatch, Continue
<1>4. Exposed \subseteq AllKinds
  BY DEF Exposed, AllKinds
<1>5. \A i \in 1..n : kinds[i] \in AllKinds /\ FreshCall(kinds[i]) \in Call
  BY <1>2, <1>4 DEF FreshCall, Call, Warrants
<1>6. n \in Nat /\ n >= 1
  BY <1>20
<1>7. batch' \in Seq(Call) /\ Len(batch') = n /\ DOMAIN batch' = 1..n
  <2>1. batch' \in [1..n -> Call]
    BY <1>2, <1>5
  <2> QED
    BY <2>1, <1>6, FunIsSeq
<1>8. \A i \in 1..n : batch'[i].res = "open" /\ batch'[i].invs = 0
  BY <1>2 DEF FreshCall
<1>9. /\ run' \in ARun /\ run'.phase = "TOOL" /\ run'.cursor = 1
      /\ run'.status = "RUNNABLE" /\ run'.grant = 0
  BY <1>1, <1>3 DEF ARun, RunShape
<1>10. RunTypes(run', batch', orphan', pc')
  BY <1>1, <1>3, <1>7, <1>9 DEF RunTypes, Places
<1>11. RunShape(run', batch') /\ PlaceShape(run', batch', pc')
  BY <1>3, <1>6, <1>7, <1>9 DEF RunShape, PlaceShape, InDriver
<1>12. Answers(run', batch', orphan') /\ Effects(run', batch')
  BY <1>7, <1>8, <1>9 DEF Answers, Effects
<1> QED
  BY <1>10, <1>11, <1>12 DEF Inv, RunInv

LEMMA DriveModelStep ==
  ASSUME Inv, RunLimit \in Nat, Kinds \subseteq AllKinds, BatchSize \in Nat, DriveModel
  PROVE  Inv'
<1>1. /\ MidModel => run.phase = "MODEL"
      /\ pc = "verified" => run.phase = "MODEL"
  BY DEF Inv, RunInv, PlaceShape, MidModel
<1>2. CASE Attempt
  BY <1>2, AttemptStep
<1>3. CASE Repair \/ ProposeGoal \/ RecordProgress \/ AcceptDelta \/ NoopDelta
  BY <1>3, ModelStep DEF Repair, ProposeGoal, RecordProgress, AcceptDelta, NoopDelta,
                         Continue, MidModel
<1>4. CASE RecordEvidence \/ RecordClaim \/ Verify
  BY <1>4, ModelStep DEF RecordEvidence, RecordClaim, Verify
<1>5. CASE EndsInProse \/ AcceptBlockedClaim \/ CompleteRun
  BY <1>1, <1>5, DropStep DEF EndsInProse, AcceptBlockedClaim, CompleteRun, MidModel
<1>6. CASE StartBatch
  BY <1>6, BatchStep
<1> QED
  BY <1>2, <1>3, <1>4, <1>5, <1>6 DEF DriveModel

LEMMA FailureStep ==
  ASSUME Inv, RunLimit \in Nat, SaveFails \/ Crash
  PROVE  Inv'
<1>1. CASE UnknownEffect /\ SaveFails
  BY <1>1, RecoveryStep DEF UnknownEffect, SaveFails
<1>2. CASE ~UnknownEffect /\ SaveFails
  BY <1>2, DropStep DEF UnknownEffect, SaveFails
<1>3. CASE Crash
  BY <1>3, EndStep DEF Crash
<1> QED
  BY <1>1, <1>2, <1>3

-----------------------------------------------------------------------------
(* The invariant, and what follows from it                                 *)

LEMMA InitInv ==
  ASSUME RunLimit \in Nat, Init
  PROVE  Inv
<1>1. NoRun \in ARun /\ NoRun.phase = "MODEL" /\ NoRun.cursor = 0
      /\ NoRun.grant = 0 /\ NoRun.status = "none"
  BY DEF NoRun, ARun, RunStatus
<1>2. RunTypes(NoRun, <<>>, FALSE, "idle")
  BY <1>1 DEF RunTypes, Places
<1>3. RunShape(NoRun, <<>>) /\ PlaceShape(NoRun, <<>>, "idle")
  BY <1>1 DEF RunShape, PlaceShape, InDriver
<1>4. Answers(NoRun, <<>>, FALSE) /\ Effects(NoRun, <<>>)
  BY <1>1 DEF Answers, Effects
<1> QED
  BY <1>2, <1>3, <1>4 DEF Init, Inv, RunInv

LEMMA NextInv ==
  ASSUME Inv, [Next]_vars
  PROVE  Inv'
<1> USE KernelAssumption
<1>1. CASE UserAction
  <2>1. CASE SubmitMessage
    BY <2>1, SubmitStep
  <2>2. CASE PauseGoal \/ CancelGoal \/ Reject \/ CancelRun
    BY <2>2, UserDropStep
  <2>3. CASE ResumeGoal \/ ConfirmCriterion \/ RevokeGoalTargetAuthority \/ RefuseAction
    BY <2>3, UserStillStep
  <2>4. CASE AnswerDisclosure
    BY <2>4, AnswerDisclosureStep
  <2>5. CASE RevokeConsent \/ RevokeProcessAuthority
    BY <2>5, RevokeStep
  <2>6. CASE Approve
    BY <2>6, ApproveStep
  <2>7. CASE ResolveUnknownToolOutcome \/ RecoverUnknownObservation
    BY <2>7, ClassifyStep
  <2>8. CASE Resume
    BY <2>8, ResumeStep
  <2> QED
    BY <1>1, <2>1, <2>2, <2>3, <2>4, <2>5, <2>6, <2>7, <2>8
       DEF UserAction, GoalAction, PermissionAction, RunAction
<1>2. CASE Drive
  <2>1. CASE Claim
    BY <2>1, ClaimStep
  <2>2. CASE Poll
    BY <2>2, PollStep
  <2>3. CASE Stop
    BY <2>3, StopsStep
  <2>4. CASE DriveTool
    BY <2>4, ResultStep, NeedApprovalStep, MarkStep, InvokeStep DEF DriveTool
  <2>5. CASE DriveModel
    BY <2>5, DriveModelStep
  <2>6. CASE SaveFails
    BY <2>6, FailureStep
  <2> QED
    BY <1>2, <2>1, <2>2, <2>3, <2>4, <2>5, <2>6 DEF Drive
<1>3. CASE Crash
  BY <1>3, FailureStep
<1>4. CASE UNCHANGED vars
  BY <1>4 DEF vars, Inv
<1> QED
  BY <1>1, <1>2, <1>3, <1>4 DEF Next

\* The invariant holds in every state of every behaviour.
THEOREM RunInvariant == Spec => []Inv
<1>1. Init => Inv
  BY InitInv, KernelAssumption
<1>2. Inv /\ [Next]_vars => Inv'
  BY NextInv
<1> QED
  BY <1>1, <1>2, PTL DEF Spec

\* A tool call is invoked at most once: whatever the batch, the user's actions,
\* the crashes and the failing saves between mark_executing and
\* record_tool_result.
THEOREM InvokedAtMostOnce == Spec => []AtMostOnce
<1>1. Inv => AtMostOnce
  BY DEF Inv, RunInv, Effects, AtMostOnce
<1> QED
  BY <1>1, RunInvariant, PTL

\* The durable result of a call is true of the world, and an unanswered effect
\* is the EXECUTING one.
THEOREM EffectsAccounted == Spec => []EffectAccounted
<1>1. Inv => EffectAccounted
  BY DEF Inv, RunInv, Effects, EffectAccounted, UnknownEffect
<1> QED
  BY <1>1, RunInvariant, PTL

\* No call is left unanswered by a run that is over, unless the orphan flag
\* says so.
THEOREM ClosedBatches == Spec => []BatchesClosed
<1>1. Inv => BatchesClosed
  BY DEF Inv, RunInv, RunTypes, Answers, BatchesClosed, ARun
<1> QED
  BY <1>1, RunInvariant, PTL

-----------------------------------------------------------------------------
(* The kernel implements ToolBatch                                         *)

\* The stages and effects of the calls of a batch b under a run r.
StageAt(b, r, i) ==
  IF b[i].res = "open"
    THEN IF r.phase = "EXECUTING" /\ i = r.cursor THEN "running" ELSE "waiting"
    ELSE CASE b[i].res = "ok" -> "done" [] b[i].res = "unknown" -> "unknown" [] OTHER -> "skipped"
StagesOf(b, r) == [i \in 1..Len(b) |-> StageAt(b, r, i)]
EffectsOf(b) == [i \in 1..Len(b) |-> b[i].invs]

\* What the refinement mapping makes of a state, and of the next one.
LEMMA MappedState ==
  ASSUME batch \in Seq(Call)
  PROVE  /\ [i \in DOMAIN batch |-> StageOf(i)] = StagesOf(batch, run)
         /\ [i \in DOMAIN batch |-> batch[i].invs] = EffectsOf(batch)
<1>1. DOMAIN batch = 1..Len(batch) /\ \A i \in 1..Len(batch) : batch[i] \in Call
  OBVIOUS
<1>2. \A i \in 1..Len(batch) : batch[i].res \in {"open", "ok", "notrun", "unknown"}
  BY <1>1 DEF Call
<1> QED BY <1>1, <1>2 DEF StageOf, StagesOf, StageAt, EffectsOf, UnknownEffect
LEMMA MappedNext ==
  ASSUME batch' \in Seq(Call)
  PROVE  /\ [i \in DOMAIN batch |-> StageOf(i)]' = StagesOf(batch', run')
         /\ [i \in DOMAIN batch |-> batch[i].invs]' = EffectsOf(batch')
<1>1. DOMAIN batch' = 1..Len(batch') /\ \A i \in 1..Len(batch') : batch'[i] \in Call
  OBVIOUS
<1>2. \A i \in 1..Len(batch') : batch'[i].res \in {"open", "ok", "notrun", "unknown"}
  BY <1>1 DEF Call
<1> QED BY <1>1, <1>2 DEF StageOf, StagesOf, StageAt, EffectsOf, UnknownEffect

\* The stages are a sequence as long as the batch.
LEMMA StagesShape ==
  ASSUME NEW b \in Seq(Call), NEW r
  PROVE  /\ DOMAIN StagesOf(b, r) = 1..Len(b) /\ Len(StagesOf(b, r)) = Len(b)
         /\ DOMAIN EffectsOf(b) = 1..Len(b) /\ Len(b) \in Nat
         /\ \A i \in 1..Len(b) :
              StagesOf(b, r)[i] = StageAt(b, r, i) /\ EffectsOf(b)[i] = b[i].invs
<1>1. Len(b) \in Nat
  OBVIOUS
<1>2. StagesOf(b, r) \in [1..Len(b) -> {"waiting", "running", "done", "unknown", "skipped"}]
  BY DEF StagesOf, StageAt
<1> QED BY <1>1, <1>2, FunIsSeq DEF StagesOf, EffectsOf

\* What the invariant says of the stages: before the cursor all calls have ended,
\* behind it all wait.
LEMMA StageFacts ==
  ASSUME Inv, NEW i \in 1..Len(batch)
  PROVE  /\ run.phase # "MODEL" => run.cursor \in 1..Len(batch)
         /\ run.phase = "TOOL" /\ i >= run.cursor => StageAt(batch, run, i) = "waiting"
         /\ run.phase = "EXECUTING" /\ i > run.cursor => StageAt(batch, run, i) = "waiting"
         /\ run.phase = "EXECUTING" /\ i = run.cursor => StageAt(batch, run, i) = "running"
         /\ run.phase # "MODEL" /\ i < run.cursor =>
              StageAt(batch, run, i) \in {"done", "unknown", "skipped"}
         /\ run.phase # "EXECUTING" => StageAt(batch, run, i) # "running"
         /\ run.phase = "MODEL" /\ ~orphan =>
              StageAt(batch, run, i) \in {"done", "unknown", "skipped"}
<1>1. batch \in Seq(Call) /\ run \in ARun /\ DOMAIN batch = 1..Len(batch) /\ Len(batch) \in Nat
  BY DEF Inv, RunInv, RunTypes
<1>2. run.phase # "MODEL" => (batch[i].res = "open" <=> i >= run.cursor)
  BY <1>1 DEF Inv, RunInv, Answers
<1>3. run.phase = "MODEL" /\ ~orphan => batch[i].res # "open"
  BY <1>1 DEF Inv, RunInv, Answers
<1>4. run.phase # "MODEL" => run.cursor \in 1..Len(batch)
  BY DEF Inv, RunInv, RunShape
<1> QED BY <1>1, <1>2, <1>3, <1>4 DEF StageAt

\* What a step does when it touches no call.
LEMMA QuietStep ==
  ASSUME Inv, Inv', UNCHANGED <<batch, orphan>>,
         (run'.phase = "EXECUTING") = (run.phase = "EXECUTING"),
         run.phase = "EXECUTING" => run'.cursor = run.cursor
  PROVE  UNCHANGED TB!vars
<1>1. batch \in Seq(Call) /\ batch' \in Seq(Call)
  BY DEF Inv, RunInv, RunTypes
<1>2. StagesOf(batch', run') = StagesOf(batch, run) /\ EffectsOf(batch') = EffectsOf(batch)
  BY DEF StagesOf, StageAt, EffectsOf
<1> QED BY <1>1, <1>2, MappedState, MappedNext DEF TB!vars

\* The calls from the cursor to m are answered without having run: all that are
\* left when a run is dropped, one when prepare refuses it.
LEMMA SkipStep ==
  ASSUME Inv, Inv', run.phase = "TOOL", run'.phase # "EXECUTING",
         NEW m \in {run.cursor, Len(batch)}, Len(batch') = Len(batch), orphan' = orphan,
         \A i \in 1..Len(batch) :
           /\ batch'[i].invs = batch[i].invs
           /\ batch'[i].res = IF i >= run.cursor /\ i <= m THEN "notrun" ELSE batch[i].res
  PROVE  TB!Skip
<1> DEFINE n == run.cursor
           s == StagesOf(batch, run)
           t == StagesOf(batch', run')
<1>1. /\ batch \in Seq(Call) /\ batch' \in Seq(Call) /\ run \in ARun
      /\ Len(batch) \in Nat
  BY DEF Inv, RunInv, RunTypes
<1>2. n \in 1..Len(batch) /\ n \in Nat /\ m \in 1..Len(batch) /\ m \in Nat
  BY <1>1 DEF Inv, RunInv, RunShape
<1>3. /\ DOMAIN s = 1..Len(batch) /\ Len(s) = Len(batch)
      /\ DOMAIN t = 1..Len(batch)
      /\ \A i \in 1..Len(batch) : s[i] = StageAt(batch, run, i) /\ t[i] = StageAt(batch', run', i)
  BY <1>1, StagesShape
<1>4. EffectsOf(batch') = EffectsOf(batch)
  BY DEF EffectsOf
<1>5. \A i \in 1..Len(batch) : s[i] = "waiting" => n <= i
  <2> SUFFICES ASSUME NEW i \in 1..Len(batch), i < n PROVE s[i] # "waiting"
    BY <1>1, <1>2
  <2> QED BY <1>3, StageFacts
<1>6. s[n] = "waiting" /\ \A i \in 1..Len(batch) : s[i] # "running"
  BY <1>2, <1>3, StageFacts
<1>7. \A i \in 1..Len(batch) : t[i] = IF i \in n..m THEN "skipped" ELSE s[i]
  <2> SUFFICES ASSUME NEW i \in 1..Len(batch)
               PROVE  t[i] = IF i \in n..m THEN "skipped" ELSE s[i]
    OBVIOUS
  <2>1. i \in n..m <=> i >= n /\ i <= m
    BY <1>1, <1>2
  <2>2. CASE i \in n..m
    BY <1>3, <2>1, <2>2 DEF StageAt
  <2>3. CASE i \notin n..m
    BY <1>3, <2>1, <2>3 DEF StageAt
  <2> QED BY <2>2, <2>3
<1>8. t = [i \in DOMAIN s |-> IF i \in n..m THEN "skipped" ELSE s[i]]
  <2> HIDE DEF s, t
  <2>1. t = [i \in 1..Len(batch) |-> t[i]]
    BY <1>1, <1>3 DEF t, StagesOf
  <2> QED BY <1>3, <1>7, <2>1
<1> HIDE DEF n
<1>9. /\ \A i \in DOMAIN s : s[i] # "running"
      /\ n \in DOMAIN s /\ m \in DOMAIN s
      /\ \A j \in DOMAIN s : s[j] = "waiting" => n <= j
      /\ s[n] = "waiting" /\ m \in {n, Len(s)}
  <2> HIDE DEF s, t
  <2> QED BY <1>2, <1>3, <1>5, <1>6 DEF n
<1> DEFINE S == [i \in DOMAIN batch |-> StageOf(i)]
           E == [i \in DOMAIN batch |-> batch[i].invs]
<1>10. S = s /\ S' = t /\ E' = E
  BY <1>1, <1>4, MappedState, MappedNext
<1>11. /\ \A i \in DOMAIN S : S[i] # "running"
       /\ \E k \in DOMAIN S, q \in DOMAIN S :
            /\ \A j \in DOMAIN S : S[j] = "waiting" => k <= j
            /\ S[k] = "waiting" /\ q \in {k, Len(S)}
            /\ S' = [i \in DOMAIN S |-> IF i \in k..q THEN "skipped" ELSE S[i]]
  <2> HIDE DEF s, t, S
  <2> QED BY <1>8, <1>9, <1>10
<1> QED BY <1>10, <1>11 DEF TB!Skip

\* A dropped run leaves no call waiting.
LEMMA DropSkips ==
  ASSUME Inv, Inv', run.phase # "EXECUTING", batch' = Suffix(batch, run),
         run'.phase = "MODEL", orphan' = orphan
  PROVE  [TB!Next]_TB!vars
<1>1. batch \in Seq(Call) /\ run \in ARun /\ Len(batch) \in Nat
  BY DEF Inv, RunInv, RunTypes
<1>2. /\ Len(batch') = Len(batch)
      /\ \A i \in 1..Len(batch) :
           batch'[i] = IF run.phase = "TOOL" /\ i >= run.cursor
                         THEN [batch[i] EXCEPT !.res = "notrun"] ELSE batch[i]
  BY <1>1, SuffixFacts
<1>3. CASE run.phase = "TOOL"
  <2>1. \A c \in Call : /\ [c EXCEPT !.res = "notrun"].invs = c.invs
                        /\ [c EXCEPT !.res = "notrun"].res = "notrun"
    BY DEF Call
  <2>2. \A i \in 1..Len(batch) : batch[i] \in Call /\ i <= Len(batch)
    BY <1>1
  <2>3. \A i \in 1..Len(batch) :
          /\ batch'[i].invs = batch[i].invs
          /\ batch'[i].res = IF i >= run.cursor /\ i <= Len(batch) THEN "notrun" ELSE batch[i].res
    BY <1>2, <1>3, <2>1, <2>2
  <2>4. TB!Skip
    BY <1>2, <1>3, <2>3, SkipStep
  <2> QED BY <2>4 DEF TB!Next
<1>4. CASE run.phase = "MODEL"
  <2>1. batch' = batch
    <3>1. batch' = [i \in DOMAIN batch |-> batch[i]]
      BY <1>4 DEF Suffix
    <3> QED BY <1>1, <3>1
  <2>2. UNCHANGED TB!vars
    BY <1>4, <2>1, QuietStep
  <2> QED BY <2>2
<1> QED BY <1>1, <1>3, <1>4 DEF ARun

\* A call is refused: it never ran.
LEMMA RefuseSkips ==
  ASSUME Inv, Inv', Refuse
  PROVE  TB!Skip
<1>1. /\ batch \in Seq(Call) /\ run \in ARun /\ run.phase = "TOOL"
      /\ batch' = Answered(batch, run, "notrun") /\ run' = Advance(batch, run) /\ orphan' = orphan
  BY DEF Inv, RunInv, RunTypes, Refuse, AtTool
<1>2. run.cursor \in 1..Len(batch) /\ run.cursor \in Nat
  BY <1>1 DEF Inv, RunInv, RunShape, ARun
<1>3. run'.phase # "EXECUTING"
  BY <1>1, <1>2, AdvanceFacts
<1>4. /\ Len(batch') = Len(batch)
      /\ \A i \in 1..Len(batch) :
           /\ batch'[i].invs = batch[i].invs
           /\ batch'[i].res = IF i = run.cursor THEN "notrun" ELSE batch[i].res
  BY <1>1, <1>2, AnsweredFacts
<1>5. \A i \in 1..Len(batch) : i = run.cursor <=> i >= run.cursor /\ i <= run.cursor
  BY <1>2
<1> QED BY <1>1, <1>3, <1>4, <1>5, SkipStep

\* One call goes to another stage, or touches the world.
LEMMA OneCall ==
  ASSUME Inv, Inv', NEW k \in 1..Len(batch), Len(batch') = Len(batch),
         \A i \in 1..Len(batch) : i # k => StageAt(batch', run', i) = StageAt(batch, run, i),
         \A i \in 1..Len(batch) : i # k => batch'[i].invs = batch[i].invs
  PROVE  /\ StagesOf(batch', run') = [StagesOf(batch, run) EXCEPT ![k] = StageAt(batch', run', k)]
         /\ EffectsOf(batch') = [EffectsOf(batch) EXCEPT ![k] = batch'[k].invs]
<1>1. /\ batch \in Seq(Call) /\ batch' \in Seq(Call)
  BY DEF Inv, RunInv, RunTypes
<1> QED BY <1>1 DEF StagesOf, EffectsOf

LEMMA MarkBegins ==
  ASSUME Inv, Inv', MarkExecuting
  PROVE  \E i \in DOMAIN batch : TB!Begin(i)
<1>0. PICK k : k = run.cursor
  OBVIOUS
<1> DEFINE S == [i \in DOMAIN batch |-> StageOf(i)]
           E == [i \in DOMAIN batch |-> batch[i].invs]
           s == StagesOf(batch, run)
           t == StagesOf(batch', run')
<1>1. /\ run \in ARun /\ batch \in Seq(Call) /\ batch' \in Seq(Call) /\ run.phase = "TOOL"
      /\ run'.phase = "EXECUTING" /\ run'.cursor = k /\ orphan' = orphan
  BY <1>0 DEF Inv, RunInv, RunTypes, MarkExecuting, AtTool, Executing, ARun
<1>2. k \in 1..Len(batch) /\ DOMAIN batch = 1..Len(batch) /\ k \in Nat /\ Len(batch) \in Nat
  BY <1>0, <1>1 DEF Inv, RunInv, RunShape, ARun
<1>3. PICK w \in Warrants : batch' = [batch EXCEPT ![k] = [batch[k] EXCEPT !.by = w]]
  BY <1>0 DEF MarkExecuting, WarrantsFor
<1>4. /\ Len(batch') = Len(batch)
      /\ \A i \in 1..Len(batch) : batch'[i].res = batch[i].res /\ batch'[i].invs = batch[i].invs
  <2>1. \A c \in Call : /\ [c EXCEPT !.by = w].invs = c.invs
                        /\ [c EXCEPT !.by = w].res = c.res
    BY DEF Call
  <2>2. batch[k] \in Call
    BY <1>1, <1>2
  <2> QED BY <1>1, <1>2, <1>3, <2>1, <2>2
<1>5. \A i \in 1..Len(batch) : i # k => StageAt(batch', run', i) = StageAt(batch, run, i)
  BY <1>1, <1>4 DEF StageAt
<1>6. \A i \in 1..Len(batch) :
        /\ StageAt(batch, run, i) # "running"
        /\ i < k => StageAt(batch, run, i) # "waiting"
        /\ i = k => StageAt(batch, run, i) = "waiting"
  BY <1>0, <1>1, <1>2, StageFacts
<1>7. StageAt(batch', run', k) = "running"
  BY <1>1, <1>2, <1>4, <1>6 DEF StageAt
<1>8. t = [s EXCEPT ![k] = "running"] /\ EffectsOf(batch') = EffectsOf(batch)
  <2>1. EffectsOf(batch') = EffectsOf(batch)
    BY <1>4 DEF EffectsOf
  <2> QED BY <1>2, <1>4, <1>5, <1>7, <2>1, OneCall
<1>9. S = s /\ S' = t /\ E' = E
  BY <1>1, <1>8, MappedState, MappedNext
<1>10. DOMAIN s = 1..Len(batch) /\ \A i \in 1..Len(batch) : s[i] = StageAt(batch, run, i)
  BY <1>1, StagesShape
<1>11. /\ \A j \in DOMAIN S : S[j] = "waiting" => k <= j
       /\ S[k] = "waiting"
       /\ \A j \in DOMAIN S : S[j] # "running"
       /\ S' = [S EXCEPT ![k] = "running"]
  <2> HIDE DEF S, s, t
  <2>1. \A j \in 1..Len(batch) : ~(j < k) => k <= j
    BY <1>2
  <2> QED BY <1>2, <1>6, <1>8, <1>9, <1>10, <2>1
<1> QED BY <1>1, <1>2, <1>9, <1>11 DEF TB!Begin

\* The effect touches the world, unless invoke raised before it.
LEMMA InvokeTouches ==
  ASSUME Inv, Inv', Invoke
  PROVE  \/ \E i \in DOMAIN batch : TB!Touch(i)
         \/ UNCHANGED TB!vars
<1>0. PICK k : k = run.cursor
  OBVIOUS
<1> DEFINE S == [i \in DOMAIN batch |-> StageOf(i)]
           E == [i \in DOMAIN batch |-> batch[i].invs]
           s == StagesOf(batch, run)
           t == StagesOf(batch', run')
           e == EffectsOf(batch)
<1>1. /\ run \in ARun /\ batch \in Seq(Call) /\ batch' \in Seq(Call) /\ run.phase = "EXECUTING"
      /\ orphan' = orphan /\ batch[k].invs = 0
  BY <1>0 DEF Inv, RunInv, RunTypes, Invoke, PlaceShape
<1>2. k \in 1..Len(batch) /\ DOMAIN batch = 1..Len(batch) /\ k \in Nat /\ Len(batch) \in Nat
  BY <1>0, <1>1 DEF Inv, RunInv, RunShape, ARun
<1>3. run'.phase = "EXECUTING" /\ run'.cursor = k
  BY <1>0, <1>1 DEF Invoke, Recovering, Stopped, ARun
<1>4. CASE batch' = batch
  BY <1>0, <1>1, <1>3, <1>4, QuietStep
<1>5. CASE batch' = [batch EXCEPT ![k].invs = batch[k].invs + 1]
  <2> DEFINE d == [batch[k] EXCEPT !.invs = 1]
  <2>1. batch[k] \in Call
    BY <1>1, <1>2
  <2>2. d.invs = 1 /\ d.res = batch[k].res
    BY <2>1 DEF Call
  <2>3. batch' = [batch EXCEPT ![k] = d]
    BY <1>1, <1>5
  <2> HIDE DEF d
  <2>4. /\ Len(batch') = Len(batch) /\ batch'[k].invs = 1 /\ batch'[k].res = batch[k].res
        /\ \A i \in 1..Len(batch) : i # k => batch'[i] = batch[i]
    BY <1>1, <1>2, <2>2, <2>3
  <2>5. \A i \in 1..Len(batch) : StageAt(batch', run', i) = StageAt(batch, run, i)
    BY <1>0, <1>1, <1>3, <2>4 DEF StageAt
  <2>6. t = s
    BY <2>4, <2>5 DEF StagesOf
  <2>7. EffectsOf(batch') = [e EXCEPT ![k] = 1]
    BY <1>2, <2>4, <2>5, OneCall
  <2>8. S = s /\ S' = t /\ E = e /\ E' = EffectsOf(batch')
    BY <1>1, MappedState, MappedNext
  <2>9. S[k] = "running" /\ E[k] = 0 /\ E' = [E EXCEPT ![k] = 1] /\ S' = S
    <3>1. s[k] = "running" /\ e[k] = 0
      BY <1>0, <1>1, <1>2, StagesShape, StageFacts
    <3> HIDE DEF S, E, s, t, e
    <3> QED BY <2>6, <2>7, <2>8, <3>1
  <2> QED BY <1>1, <1>2, <2>9 DEF TB!Touch
<1> QED BY <1>0, <1>4, <1>5 DEF Invoke

\* The call at the cursor gets the result of a call that touched the world, or the
\* word that its outcome is unknown.
LEMMA AnswerEnds ==
  ASSUME Inv, Inv', run.phase = "EXECUTING", NEW res \in {"ok", "unknown"},
         res = "ok" => batch[run.cursor].invs = 1, orphan' = orphan,
         batch' = Answered(batch, run, res), run'.phase = Advance(batch, run).phase
  PROVE  \E i \in DOMAIN batch : TB!End(i)
<1>0. PICK k : k = run.cursor
  OBVIOUS
<1> DEFINE S == [i \in DOMAIN batch |-> StageOf(i)]
           E == [i \in DOMAIN batch |-> batch[i].invs]
           s == StagesOf(batch, run)
           t == StagesOf(batch', run')
           e == EffectsOf(batch)
           last == IF res = "ok" THEN "done" ELSE "unknown"
<1>1. run \in ARun /\ batch \in Seq(Call) /\ batch' \in Seq(Call)
  BY DEF Inv, RunInv, RunTypes
<1>2. k \in 1..Len(batch) /\ DOMAIN batch = 1..Len(batch) /\ k \in Nat /\ Len(batch) \in Nat
  BY <1>0, <1>1 DEF Inv, RunInv, RunShape, ARun
<1>3. run'.phase # "EXECUTING"
  BY <1>0, <1>1, <1>2, AdvanceFacts
<1>4. /\ Len(batch') = Len(batch)
      /\ \A i \in 1..Len(batch) :
           /\ batch'[i].invs = batch[i].invs
           /\ batch'[i].res = IF i = k THEN res ELSE batch[i].res
  BY <1>0, <1>1, <1>2, AnsweredFacts
<1>5. /\ \A i \in 1..Len(batch) : i # k => StageAt(batch', run', i) = StageAt(batch, run, i)
      /\ StageAt(batch', run', k) = last
  BY <1>0, <1>2, <1>3, <1>4 DEF StageAt
<1>6. t = [s EXCEPT ![k] = last] /\ EffectsOf(batch') = e
  <2>1. EffectsOf(batch') = e
    BY <1>4 DEF EffectsOf
  <2> QED BY <1>2, <1>4, <1>5, <2>1, OneCall
<1>7. s[k] = "running" /\ (res = "ok" => e[k] = 1)
  BY <1>0, <1>1, <1>2, StagesShape, StageFacts
<1>8. S = s /\ S' = t /\ E = e /\ E' = EffectsOf(batch')
  BY <1>1, MappedState, MappedNext
<1>9. /\ S[k] = "running"
      /\ \/ E[k] = 1 /\ S' = [S EXCEPT ![k] = "done"]
         \/ S' = [S EXCEPT ![k] = "unknown"]
      /\ E' = E
  <2> HIDE DEF S, E, s, t, e
  <2> QED BY <1>6, <1>7, <1>8
<1> QED BY <1>2, <1>9 DEF TB!End

\* The model's next batch comes when all calls have ended, or a batch was lost.
LEMMA BatchBegins ==
  ASSUME Inv, Inv', StartBatch, BatchSize \in Nat
  PROVE  TB!NewBatch
<1> DEFINE S == [i \in DOMAIN batch |-> StageOf(i)]
           E == [i \in DOMAIN batch |-> batch[i].invs]
           s == StagesOf(batch, run)
           t == StagesOf(batch', run')
<1>1. /\ run \in ARun /\ batch \in Seq(Call) /\ batch' \in Seq(Call) /\ orphan \in BOOLEAN
      /\ run.phase = "MODEL" /\ run'.phase = "TOOL" /\ orphan' = orphan
  BY DriverFacts DEF Inv, RunInv, RunTypes, StartBatch, MidModel, ARun
<1>2. PICK n \in 1..BatchSize : \E kinds \in [1..n -> Exposed] :
         batch' = [i \in 1..n |-> FreshCall(kinds[i])]
  BY DEF StartBatch
<1>3. n \in Nat /\ n >= 1 /\ Len(batch') = n
      /\ \A i \in 1..n : batch'[i].res = "open" /\ batch'[i].invs = 0
  <2>1. n \in Nat /\ n >= 1
    BY <1>2
  <2>2. PICK kinds \in [1..n -> Exposed] : batch' = [i \in 1..n |-> FreshCall(kinds[i])]
    BY <1>2
  <2>3. batch' \in [1..n -> {FreshCall(kinds[i]) : i \in 1..n}]
    BY <2>2
  <2> QED BY <2>1, <2>2, <2>3, FunIsSeq DEF FreshCall
<1>4. /\ DOMAIN t = 1..n /\ Len(t) = n /\ \A i \in 1..n : t[i] = "waiting"
      /\ EffectsOf(batch') = [i \in 1..n |-> 0]
  <2>1. \A i \in 1..n : StageAt(batch', run', i) = "waiting"
    BY <1>1, <1>3 DEF StageAt
  <2>2. /\ DOMAIN t = 1..n /\ Len(t) = n
        /\ \A i \in 1..n : t[i] = StageAt(batch', run', i)
    BY <1>1, <1>3, StagesShape
  <2> QED BY <1>3, <2>1, <2>2 DEF EffectsOf
<1>5. /\ DOMAIN s = 1..Len(batch)
      /\ orphan \/ \A i \in DOMAIN s : s[i] \in {"done", "unknown", "skipped"}
  BY <1>1, StagesShape, StageFacts
<1>6. S = s /\ S' = t /\ E' = EffectsOf(batch')
  BY <1>1, MappedState, MappedNext
<1>7. /\ orphan \/ \A i \in DOMAIN S : S[i] \in {"done", "unknown", "skipped"}
      /\ Len(S') > 0 /\ \A i \in DOMAIN S' : S'[i] = "waiting"
      /\ E' = [i \in DOMAIN S' |-> 0]
  <2> HIDE DEF S, E, s, t
  <2> QED BY <1>3, <1>4, <1>5, <1>6
<1> QED BY <1>1, <1>7 DEF TB!NewBatch, TB!Ended

\* A message that is no correction gives up the calls of a run that waits for an
\* approval.
LEMMA SubmitLoses ==
  ASSUME Inv, Inv', SubmitMessage, goal.status \notin Open, run.status = "AWAITING_APPROVAL"
  PROVE  TB!Lose
<1> DEFINE S == [i \in DOMAIN batch |-> StageOf(i)]
           E == [i \in DOMAIN batch |-> batch[i].invs]
           s == StagesOf(batch, run)
<1>1. /\ run \in ARun /\ batch \in Seq(Call) /\ run.phase = "TOOL"
      /\ batch' = batch /\ orphan' = TRUE /\ run' = NewRun
  BY DEF Inv, RunInv, RunTypes, RunShape, SubmitMessage
<1>2. run'.phase = "MODEL"
  BY <1>1 DEF NewRun, NoRun
<1>3. run.cursor \in 1..Len(batch) /\ run.cursor >= run.cursor
  BY <1>1 DEF Inv, RunInv, RunShape, ARun
<1>4. /\ DOMAIN s = 1..Len(batch) /\ s[run.cursor] = "waiting"
      /\ \A i \in 1..Len(batch) : s[i] # "running"
  BY <1>1, <1>3, StagesShape, StageFacts
<1>5. StagesOf(batch', run') = s /\ EffectsOf(batch') = EffectsOf(batch)
  BY <1>1, <1>2 DEF StagesOf, StageAt
<1>6. S = s /\ S' = s /\ E' = E
  BY <1>1, <1>5, MappedState, MappedNext
<1>7. /\ \E i \in DOMAIN S : S[i] = "waiting"
      /\ \A i \in DOMAIN S : S[i] # "running"
      /\ S' = S
  <2> HIDE DEF S, s
  <2> QED BY <1>3, <1>4, <1>6
<1> QED BY <1>1, <1>6, <1>7 DEF TB!Lose

\* A step that drops the run when it is not in the middle of a call, and one that
\* leaves the batch alone.
Drops ==
  /\ run.phase # "EXECUTING" /\ run'.phase = "MODEL"
  /\ batch' = Suffix(batch, run) /\ orphan' = orphan
Stays ==
  /\ UNCHANGED <<batch, orphan>>
  /\ run'.phase = run.phase /\ run'.cursor = run.cursor

LEMMA DropIs ==
  ASSUME run.phase # "EXECUTING", DropRun, orphan' = orphan
  PROVE  Drops
  BY DEF DropRun, Drops, NoRun

LEMMA StayIs ==
  ASSUME run \in ARun, UNCHANGED <<batch, orphan>>,
         \/ run' = run
         \/ \E st \in RunStatus : run' = [run EXCEPT !.status = st]
         \/ \E st \in RunStatus : run' = [run EXCEPT !.status = st, !.owned = FALSE]
         \/ \E g \in Nat : run' = [run EXCEPT !.status = "RUNNABLE", !.grant = g]
         \/ run' = [run EXCEPT !.owned = TRUE]
         \/ run' = [run EXCEPT !.used = @ + 1]
         \/ run.phase = "EXECUTING" /\ run' = Recovering(run)
  PROVE  Stays
  BY DEF Stays, ARun, Recovering, Stopped

LEMMA UserBatch ==
  ASSUME Inv, Inv', UserAction
  PROVE  [TB!Next]_TB!vars
<1> USE KernelAssumption
<1>1. run \in ARun /\ RunShape(run, batch) /\ batch \in Seq(Call)
  BY DEF Inv, RunInv, RunTypes
<1>2. CASE Stays
  BY <1>2, QuietStep DEF Stays
<1>3. CASE Drops
  BY <1>3, DropSkips DEF Drops
<1>4. CASE SubmitMessage
  <2>1. /\ run.status = "none" => run.phase = "MODEL"
        /\ run.status = "AWAITING_APPROVAL" => run.phase = "TOOL"
        /\ run.status \in {"none", "AWAITING_APPROVAL"}
    BY <1>1, <1>4 DEF RunShape, SubmitMessage
  <2>2. run' = NewRun /\ run'.phase = "MODEL" /\ orphan = FALSE
    BY <1>1, <1>4 DEF SubmitMessage, NewRun, NoRun, Accepts, Inv, RunInv, RunTypes
  <2>3. CASE goal.status \in Open
    <3>1. Drops
      BY <1>4, <2>1, <2>2, <2>3 DEF SubmitMessage, Drops
    <3> QED BY <1>3, <3>1
  <2>4. CASE goal.status \notin Open /\ run.status = "none"
    <3>1. UNCHANGED <<batch, orphan>> /\ run.phase = "MODEL"
      BY <1>4, <2>1, <2>2, <2>4 DEF SubmitMessage
    <3> QED BY <2>2, <3>1, QuietStep
  <2>5. CASE goal.status \notin Open /\ run.status = "AWAITING_APPROVAL"
    BY <1>4, <2>5, SubmitLoses DEF TB!Next
  <2> QED BY <2>1, <2>3, <2>4, <2>5
<1>5. CASE PauseGoal \/ CancelGoal \/ Reject \/ CancelRun
  <2>1. run.status = "AWAITING_APPROVAL" => run.phase # "EXECUTING"
    BY <1>1 DEF RunShape
  <2>2. run.phase # "EXECUTING" /\ DropRun /\ orphan' = orphan
    BY <1>5, <2>1 DEF PauseGoal, CancelGoal, Reject, CancelRun, MayPause, MayCancel,
                PauseTheGoal, CancelTheGoal, UnknownEffect
  <2> QED BY <1>3, <2>2, DropIs
<1>6. CASE ResumeGoal \/ ConfirmCriterion \/ RevokeGoalTargetAuthority \/ RefuseAction
  <2>1. UNCHANGED <<run, batch, orphan>>
    BY <1>6 DEF ResumeGoal, ConfirmCriterion, RevokeGoalTargetAuthority, RefuseAction, vars
  <2> QED BY <1>2, <2>1 DEF Stays
<1>7. CASE AnswerDisclosure
  <2>1. UNCHANGED <<batch, orphan>>
    BY <1>7 DEF AnswerDisclosure
  <2>2. CASE run' = [run EXCEPT !.status = "RUNNABLE"]
    BY <1>1, <1>2, <2>1, <2>2, StayIs DEF RunStatus
  <2>3. CASE run.status = "none" /\ run' = NewRun
    <3>1. run.phase = "MODEL" /\ run'.phase = "MODEL"
      BY <1>1, <2>3 DEF RunShape, NewRun, NoRun
    <3> QED BY <2>1, <3>1, QuietStep
  <2> QED BY <1>7, <2>2, <2>3 DEF AnswerDisclosure
<1>8. CASE RevokeConsent \/ RevokeProcessAuthority
  <2>1. UNCHANGED <<batch, orphan>> /\ run' \in {run, [run EXCEPT !.status = "RUNNABLE"]}
    BY <1>8 DEF RevokeConsent, RevokeProcessAuthority
  <2> QED BY <1>1, <1>2, <2>1, StayIs DEF RunStatus
<1>9. CASE Approve
  <2>1. /\ UNCHANGED <<batch, orphan>> /\ run.cursor \in Nat
        /\ run' = [run EXCEPT !.status = "RUNNABLE", !.grant = run.cursor]
    BY <1>1, <1>9 DEF Approve, ARun
  <2> QED BY <1>1, <1>2, <2>1, StayIs
<1>10. CASE ResolveUnknownToolOutcome \/ RecoverUnknownObservation
  <2>1. run.phase = "EXECUTING" /\ Classified
    BY <1>1, <1>10 DEF ResolveUnknownToolOutcome, RecoverUnknownObservation, RunShape, UnknownEffect
  <2>2. run.cursor \in 1..Len(batch)
    BY <1>1, <2>1 DEF RunShape
  <2>3. Advance(batch, run) \in ARun
    BY <1>1, <2>2, AdvanceFacts
  <2>4. /\ batch' = Answered(batch, run, "unknown") /\ orphan' = orphan
        /\ run'.phase = Advance(batch, run).phase
    BY <2>1, <2>3 DEF Classified, ARun
  <2> QED BY <2>1, <2>4, AnswerEnds DEF TB!Next
<1>11. CASE Resume
  <2>1. /\ UNCHANGED <<batch, orphan>>
        /\ \/ run' = run
           \/ run.phase = "EXECUTING" /\ run' = Recovering(run)
           \/ run' = [run EXCEPT !.status = "RUNNABLE", !.owned = FALSE]
    BY <1>11 DEF Resume, UnknownEffect
  <2> QED BY <1>1, <1>2, <2>1, StayIs DEF RunStatus
<1> QED BY <1>4, <1>5, <1>6, <1>7, <1>8, <1>9, <1>10, <1>11
        DEF UserAction, GoalAction, PermissionAction, RunAction

LEMMA DriveBatch ==
  ASSUME Inv, Inv', Drive \/ Crash
  PROVE  [TB!Next]_TB!vars
<1> USE KernelAssumption
<1>1. run \in ARun /\ RunShape(run, batch) /\ batch \in Seq(Call)
  BY DEF Inv, RunInv, RunTypes
<1>2. CASE Stays
  BY <1>2, QuietStep DEF Stays
<1>3. CASE Drops
  BY <1>3, DropSkips DEF Drops
<1>4. ASSUME DropRun, orphan' = orphan, run.phase # "EXECUTING"
      PROVE  [TB!Next]_TB!vars
  BY <1>3, <1>4, DropIs
<1>5. ASSUME UNCHANGED <<run, batch, orphan>>
      PROVE  [TB!Next]_TB!vars
  BY <1>2, <1>5 DEF Stays
<1>6. ASSUME Raise, orphan' = orphan, Driving \/ pc = "sent"
      PROVE  [TB!Next]_TB!vars
  <2>1. run.phase # "EXECUTING"
    BY <1>6, DriverFacts DEF MidModel
  <2> QED BY <1>4, <1>5, <1>6, <2>1 DEF Raise
<1>7. CASE Claim
  <2>1. run.phase # "EXECUTING" /\ orphan' = orphan
    BY <1>7, DriverFacts DEF Claim
  <2>2. CASE DropRun
    BY <1>4, <2>1, <2>2
  <2>3. CASE run' = [run EXCEPT !.owned = TRUE] /\ UNCHANGED batch
    BY <1>1, <1>2, <2>1, <2>3, StayIs
  <2> QED BY <1>7, <2>2, <2>3 DEF Claim
<1>8. CASE Poll
  <2>1. Driving \/ pc = "sent"
    BY <1>8 DEF Poll, PollPause, PollCancel, PollCorrect
  <2>2. run.phase # "EXECUTING"
    BY <2>1, DriverFacts DEF MidModel
  <2> QED BY <1>4, <1>6, <1>8, <2>1, <2>2 
          DEF Poll, PollPause, PollCancel, PollCorrect, PauseTheGoal, CancelTheGoal
<1>9. CASE Stop
  <2>1. CASE \E st \in RunStatus : run' = Stopped(run, st) /\ UNCHANGED <<batch, orphan>>
    BY <1>1, <1>2, <2>1, StayIs DEF Stopped
  <2>2. {"PAUSED_LIMIT", "PAUSED_RETRYABLE", "AWAITING_DISCLOSURE"} \subseteq RunStatus
    BY DEF RunStatus, Waiting, Paused
  <2>3. CASE LimitReached /\ ~(run' = Stopped(run, "PAUSED_LIMIT") /\ UNCHANGED batch)
    <3>1. Raise /\ ~MayStop(run) /\ orphan' = orphan /\ (Driving \/ MidModel)
      BY <2>3 DEF LimitReached
    <3>2. MidModel => run.phase = "MODEL"
      BY DriverFacts
    <3>3. Driving
      BY <1>1, <3>1, <3>2 DEF RunShape, MayStop
    <3> QED BY <1>6, <3>1, <3>3
  <2>4. CASE EndRun
    <3>1. run.phase # "EXECUTING" /\ DropRun /\ orphan' = orphan
      BY <2>4, DriverFacts DEF EndRun
    <3> QED BY <1>4, <3>1
  <2>5. \/ \E st \in RunStatus : run' = Stopped(run, st) /\ UNCHANGED <<batch, orphan>>
        \/ LimitReached /\ ~(run' = Stopped(run, "PAUSED_LIMIT") /\ UNCHANGED batch)
        \/ EndRun
    BY <1>9, <2>2 DEF Stop, LimitReached, PauseRetryable, AskDisclosure
  <2> QED BY <2>1, <2>3, <2>4, <2>5
<1>10. CASE DriveTool
  <2>1. CASE Refuse
    BY <2>1, RefuseSkips DEF TB!Next
  <2>2. CASE NeedApproval
    <3>1. CASE run' = Stopped(run, "AWAITING_APPROVAL") /\ UNCHANGED <<batch, orphan>>
      BY <1>1, <1>2, <3>1, StayIs DEF Stopped, RunStatus, Waiting
    <3>2. CASE Raise /\ orphan' = orphan
      BY <1>6, <2>2, <3>2 DEF NeedApproval, AtTool
    <3> QED BY <2>2, <3>1, <3>2 DEF NeedApproval
  <2>3. CASE MarkExecuting
    BY <2>3, MarkBegins DEF TB!Next
  <2>4. CASE Invoke
    <3>1. CASE \E i \in DOMAIN batch : TB!Touch(i)
      BY <3>1 DEF TB!Next
    <3>2. CASE UNCHANGED TB!vars
      BY <3>2
    <3> QED BY <2>4, <3>1, <3>2, InvokeTouches
  <2>5. CASE RecordResult
    <3>1. /\ run.phase = "EXECUTING" /\ batch[run.cursor].invs = 1
          /\ batch' = Answered(batch, run, "ok") /\ run' = Advance(batch, run)
          /\ orphan' = orphan
      BY <2>5 DEF RecordResult, Inv, RunInv, PlaceShape
    <3> QED BY <3>1, AnswerEnds DEF TB!Next
  <2> QED BY <1>10, <2>1, <2>2, <2>3, <2>4, <2>5 DEF DriveTool
<1>11. CASE DriveModel
  <2>1. /\ MidModel => run.phase = "MODEL"
        /\ pc = "verified" => run.phase = "MODEL"
    BY DEF Inv, RunInv, PlaceShape, MidModel
  <2>2. CASE Attempt
    <3>1. run' = [run EXCEPT !.used = @ + 1] /\ UNCHANGED <<batch, orphan>>
      BY <2>2 DEF Attempt, Counted
    <3> QED BY <1>1, <1>2, <3>1, StayIs
  <2>3. CASE \/ Repair \/ ProposeGoal \/ RecordProgress \/ AcceptDelta \/ NoopDelta
             \/ RecordEvidence \/ RecordClaim \/ Verify
    BY <1>5, <2>3 DEF Repair, ProposeGoal, RecordProgress, AcceptDelta, NoopDelta,
                      RecordEvidence, RecordClaim, Verify
  <2>4. CASE EndsInProse \/ AcceptBlockedClaim \/ CompleteRun
    BY <1>4, <2>1, <2>4 DEF EndsInProse, AcceptBlockedClaim, CompleteRun, MidModel
  <2>5. CASE StartBatch
    BY <2>5, BatchBegins DEF TB!Next
  <2> QED BY <1>11, <2>2, <2>3, <2>4, <2>5 DEF DriveModel
<1>12. CASE SaveFails
  <2>1. CASE run.phase = "EXECUTING" /\ run' = Recovering(run) /\ UNCHANGED <<batch, orphan>>
    BY <1>1, <1>2, <2>1, StayIs
  <2>2. CASE run.phase # "EXECUTING" /\ DropRun /\ orphan' = orphan
    BY <1>4, <2>2
  <2> QED BY <1>12, <2>1, <2>2 DEF SaveFails, UnknownEffect
<1>13. CASE Crash
  BY <1>5, <1>13 DEF Crash
<1> QED BY <1>7, <1>8, <1>9, <1>10, <1>11, <1>12, <1>13 DEF Drive

\* The kernel implements ToolBatch: seen from outside, the calls of a batch are
\* begun, run, answered, skipped or given up as the abstract specification says,
\* whatever the user, the control inbox, failing saves and crashes do to the run
\* (mark_executing, record_tool_result, _unstarted_batch_suffix_facts).
THEOREM ImplementsToolBatch == Spec => BatchProtocol
<1>1. Init => TB!Init
  BY DEF Init, TB!Init, NoRun
<1>2. Inv /\ Inv' /\ [Next]_vars => [TB!Next]_TB!vars
  <2> SUFFICES ASSUME Inv, Inv', [Next]_vars PROVE [TB!Next]_TB!vars
    OBVIOUS
  <2>1. CASE UNCHANGED vars
    BY <2>1, QuietStep DEF vars
  <2> QED BY <2>1, UserBatch, DriveBatch DEF Next
<1> QED BY RunInvariant, <1>1, <1>2, PTL DEF Spec, BatchProtocol, TB!Spec

-----------------------------------------------------------------------------
(* Types                                                                   *)

Permits == [Permitted -> [rev : 0..MaxRev, uses : 0..PermitUses]]

GoalTypes ==
  /\ goal \in [status : GoalStatus, rev : 0..MaxRev]
  /\ corrections \in 0..MaxCorrections
  /\ evidence \in 0..MaxRev /\ claim \in 0..MaxRev
  /\ permit \in Permits
  /\ asked \in BOOLEAN

\* No permission is one, and so are one withdrawn, minted or used once.
LEMMA PermitTypes ==
  ASSUME permit \in Permits, goal.rev \in 0..MaxRev
  PROVE  /\ NoPermits \in Permits
         /\ \A k \in Permitted :
              /\ [permit EXCEPT ![k] = NoPermit] \in Permits
              /\ [permit EXCEPT ![k] = [rev |-> goal.rev, uses |-> PermitUses]] \in Permits
              /\ Live(k) => Spend(k) \in Permits
<1>1. PermitUses \in Nat /\ MaxRev \in Nat
  BY KernelAssumption
<1>2. NoPermit \in [rev : 0..MaxRev, uses : 0..PermitUses]
  BY <1>1 DEF NoPermit
<1>3. NoPermits \in Permits
  BY <1>2 DEF NoPermits, Permits
<1>4. ASSUME NEW k \in Permitted, Live(k)
      PROVE  Spend(k) \in Permits
  <2>1. permit[k] \in [rev : 0..MaxRev, uses : 0..PermitUses] /\ permit[k].uses > 0
    BY <1>4 DEF Permits, Live
  <2>2. [permit[k] EXCEPT !.uses = permit[k].uses - 1]
          \in [rev : 0..MaxRev, uses : 0..PermitUses]
    BY <1>1, <2>1
  <2> QED
    BY <2>2 DEF Spend, Permits
<1>5. ASSUME NEW k \in Permitted
      PROVE  /\ [permit EXCEPT ![k] = NoPermit] \in Permits
             /\ [permit EXCEPT ![k] = [rev |-> goal.rev, uses |-> PermitUses]] \in Permits
  BY <1>1, <1>2 DEF Permits
<1> QED
  BY <1>3, <1>4, <1>5

LEMMA InitTypes ==
  ASSUME Init
  PROVE  GoalTypes
<1> USE KernelAssumption
<1>1. permit \in Permits
  BY DEF Init, NoPermits, NoPermit, Permits
<1>2. 0 \in 0..MaxRev /\ 0 \in 0..MaxCorrections
  OBVIOUS
<1>3. goal \in [status : GoalStatus, rev : 0..MaxRev]
  BY <1>2 DEF Init, GoalStatus
<1> QED
  BY <1>1, <1>2, <1>3 DEF Init, GoalTypes

LEMMA UserTypes ==
  ASSUME GoalTypes, UserAction
  PROVE  GoalTypes'
<1> USE KernelAssumption DEF GoalTypes
<1>1. /\ permit \in Permits /\ goal.rev \in 0..MaxRev
      /\ \A st \in GoalStatus : [goal EXCEPT !.status = st]
                                  \in [status : GoalStatus, rev : 0..MaxRev]
  OBVIOUS
<1>2. {"GOAL_READY", "PAUSED", "CANCELLED"} \subseteq GoalStatus
  BY DEF GoalStatus, Terminal
<1>3. CASE SubmitMessage
  BY <1>3 DEF SubmitMessage
<1>4. CASE PauseGoal \/ CancelGoal
  BY <1>1, <1>2, <1>4, PermitTypes DEF PauseGoal, CancelGoal, PauseTheGoal, CancelTheGoal
<1>5. CASE ResumeGoal
  BY <1>1, <1>2, <1>5 DEF ResumeGoal
<1>6. CASE ConfirmCriterion
  BY <1>1, <1>6 DEF ConfirmCriterion
<1>7. CASE AnswerDisclosure
  BY <1>1, <1>2, <1>7 DEF AnswerDisclosure
<1>8. CASE RevokeConsent
  BY <1>8 DEF RevokeConsent, goalVars
<1>9. CASE RevokeGoalTargetAuthority \/ RevokeProcessAuthority
  <2>1. {"write", "proc"} \subseteq Permitted
    BY DEF Permitted
  <2> QED
    BY <1>1, <1>9, <2>1, PermitTypes
       DEF RevokeGoalTargetAuthority, RevokeProcessAuthority, goalVars
<1>10. CASE Approve
  <2>1. "write" \in Permitted /\ "proc" \in Permitted
    BY DEF Permitted
  <2> DEFINE fresh == [rev |-> goal.rev, uses |-> PermitUses]
  <2>2. [permit EXCEPT !["write"] = fresh] \in Permits /\ [permit EXCEPT !["proc"] = fresh] \in Permits
    BY <1>1, <2>1, PermitTypes
  <2>3. /\ goal' = goal /\ corrections' = corrections /\ evidence' = evidence /\ claim' = claim
        /\ asked' = asked
    BY <1>10 DEF Approve, goalVars
  <2>4. permit' \in Permits
    BY <1>1, <1>10, <2>2 DEF Approve
  <2> QED
    BY <2>3, <2>4
<1>11. CASE Reject \/ CancelRun
  BY <1>11 DEF Reject, CancelRun, goalVars
<1>12. CASE ResolveUnknownToolOutcome \/ RecoverUnknownObservation
  BY <1>12 DEF ResolveUnknownToolOutcome, RecoverUnknownObservation, Classified, goalVars
<1>13. CASE Resume
  BY <1>13 DEF Resume, goalVars
<1>14. CASE RefuseAction
  BY <1>14 DEF RefuseAction, vars
<1> QED
  BY <1>3, <1>4, <1>5, <1>6, <1>7, <1>8, <1>9, <1>10, <1>11, <1>12, <1>13, <1>14
     DEF UserAction, GoalAction, PermissionAction, RunAction

LEMMA DriveTypes ==
  ASSUME GoalTypes, Drive \/ Crash
  PROVE  GoalTypes'
<1> USE KernelAssumption DEF GoalTypes
<1>1. /\ permit \in Permits /\ goal.rev \in 0..MaxRev
      /\ \A st \in GoalStatus : [goal EXCEPT !.status = st]
                                  \in [status : GoalStatus, rev : 0..MaxRev]
  OBVIOUS
<1>2. {"GOAL_READY", "PAUSED", "CANCELLED", "EXECUTING", "BLOCKED",
       "NEEDS_AUTHORITY", "VERIFIED_DONE"} \subseteq GoalStatus
  BY DEF GoalStatus, Terminal
<1>3. CASE Poll
  <2>1. CASE PollPause \/ PollCancel
    BY <1>1, <1>2, <2>1, PermitTypes
       DEF PollPause, PollCancel, PauseTheGoal, CancelTheGoal, goalVars
  <2>2. CASE PollCorrect
    BY <1>1, <1>2, <2>2, PermitTypes DEF PollCorrect
  <2> QED
    BY <1>3, <2>1, <2>2 DEF Poll
<1>4. CASE MarkExecuting
  BY <1>1, <1>4, PermitTypes DEF MarkExecuting, WarrantsFor, goalVars
<1>5. CASE AskDisclosure
  BY <1>1, <1>2, <1>5 DEF AskDisclosure
<1>6. CASE ProposeGoal \/ RecordProgress \/ AcceptBlockedClaim
  BY <1>1, <1>2, <1>6 DEF ProposeGoal, RecordProgress, AcceptBlockedClaim
<1>7. CASE AcceptDelta \/ NoopDelta
  BY <1>1, <1>2, <1>7, PermitTypes DEF AcceptDelta, NoopDelta, PermitsAfterDelta
<1>8. CASE RecordEvidence \/ RecordClaim \/ Verify
  BY <1>1, <1>2, <1>8, PermitTypes DEF RecordEvidence, RecordClaim, Verify
<1>9. ASSUME UNCHANGED <<goalVars, permit, asked>>
      PROVE  GoalTypes'
  BY <1>9 DEF goalVars
<1>10. CASE Claim \/ LimitReached \/ PauseRetryable \/ EndRun \/ SaveFails \/ Crash
  BY <1>9, <1>10 DEF Claim, LimitReached, PauseRetryable, EndRun, SaveFails, Crash
<1>11. CASE Refuse \/ NeedApproval \/ Invoke \/ RecordResult
  BY <1>9, <1>11 DEF Refuse, NeedApproval, Invoke, RecordResult
<1>12. CASE Attempt \/ Repair \/ EndsInProse \/ CompleteRun \/ StartBatch
  BY <1>9, <1>12 DEF Attempt, Repair, EndsInProse, CompleteRun, StartBatch
<1> QED
  BY <1>3, <1>4, <1>5, <1>6, <1>7, <1>8, <1>10, <1>11, <1>12
     DEF Drive, Stop, DriveTool, DriveModel

LEMMA TypesInvariant == Spec => []GoalTypes
<1>1. Init => GoalTypes
  BY InitTypes
<1>2. GoalTypes /\ [Next]_vars => GoalTypes'
  <2>1. ASSUME GoalTypes, UNCHANGED vars
        PROVE  GoalTypes'
    BY <2>1 DEF GoalTypes, vars
  <2> QED
    BY <2>1, UserTypes, DriveTypes DEF Next
<1> QED
  BY <1>1, <1>2, PTL DEF Spec

\* Type correctness: the types of the goal are inductive by themselves, the
\* bounds on the run's cursor and grant come from RunShape.
THEOREM TypeCorrect == Spec => []TypeOK
<1>1. Inv /\ GoalTypes => TypeOK
  <2>1. ASSUME Inv
        PROVE  /\ batch \in Seq(Call) /\ orphan \in BOOLEAN /\ pc \in Places
               /\ run \in ARun /\ run.cursor \in 0..Len(batch)
               /\ run.grant \in 0..Len(batch)
    BY <2>1 DEF Inv, RunInv, RunTypes, RunShape, ARun
  <2> QED
    BY <2>1 DEF GoalTypes, TypeOK, Permits, Places, ARun
<1> QED
  BY <1>1, RunInvariant, TypesInvariant, PTL

-----------------------------------------------------------------------------
(* Authority                                                               *)

\* A batch with an effect in it is worked on only while its goal is open.
EffectGoal(g, r, b) ==
  r.phase # "MODEL" =>
    g.status \in Open \/ \A i \in DOMAIN b : b[i].kind \notin Effectful

\* No correction waits behind an approval, nor behind a completion claim.
NoCorrection(r, p, c) ==
  \/ r.status = "AWAITING_APPROVAL"
  \/ r.grant # 0
  \/ p \in {"invoke", "evidence", "claimed", "verified"}
  => c = 0

\* On whose word the call that is about to be invoked runs.
Word(g, r, b) ==
  /\ b[r.cursor].kind \in Effectful => g.status \in Open
  /\ b[r.cursor].kind = "proc" => b[r.cursor].by = "permit"
  /\ b[r.cursor].kind \in {"net", "write"} => b[r.cursor].by \in {"user", "permit"}

AuthInv ==
  /\ EffectGoal(goal, run, batch)
  /\ NoCorrection(run, pc, corrections)
  /\ pc = "invoke" => Word(goal, run, batch)
  /\ PermitsCurrent

\* A run that is dropped is in no batch and carries no grant.
LEMMA DropAuth ==
  ASSUME DropRun, pc' = "idle"
  PROVE  /\ EffectGoal(goal', run', batch')
         /\ NoCorrection(run', pc', corrections')
         /\ ~(pc' = "invoke")
BY DEF DropRun, NoRun, EffectGoal, NoCorrection

\* So does a run at the model, wherever its turn is, when no correction waits or
\* the turn is not at a claim.
LEMMA ModelAuth ==
  ASSUME run'.phase = "MODEL", run'.grant = 0, run'.status # "AWAITING_APPROVAL",
         pc' # "invoke", pc' \notin {"evidence", "claimed", "verified"} \/ corrections' = 0
  PROVE  /\ EffectGoal(goal', run', batch')
         /\ NoCorrection(run', pc', corrections')
         /\ ~(pc' = "invoke")
BY DEF EffectGoal, NoCorrection

\* Without permissions there is nothing to be stale.
LEMMA NoPermitsCurrent ==
  ASSUME permit' = NoPermits
  PROVE  PermitsCurrent'
BY DEF PermitsCurrent, NoPermits, NoPermit

\* Withdrawing a permission, or using one, leaves the rest as they are.
LEMMA LessPermitsCurrent ==
  ASSUME GoalTypes, PermitsCurrent, goal' = goal, NEW k \in Permitted,
         permit' = [permit EXCEPT ![k] = NoPermit] \/ (Live(k) /\ permit' = Spend(k))
  PROVE  PermitsCurrent'
<1>1. permit \in Permits
  BY DEF GoalTypes
<1>2. ASSUME NEW j \in Permitted, permit'[j].uses > 0
      PROVE  permit'[j].rev = permit[j].rev /\ permit[j].uses > 0
  <2>1. CASE permit' = [permit EXCEPT ![k] = NoPermit]
    BY <1>1, <1>2, <2>1 DEF Permits, NoPermit
  <2>2. CASE Live(k) /\ permit' = Spend(k)
    <3>1. CASE j = k
      BY <1>1, <2>2, <3>1 DEF Permits, Spend, Live
    <3>2. CASE j # k
      BY <1>1, <1>2, <2>2, <3>2 DEF Permits, Spend
    <3> QED
      BY <3>1, <3>2
  <2> QED
    BY <2>1, <2>2
<1> QED
  BY <1>2 DEF PermitsCurrent

\* The kinds of the calls of a batch never change.
LEMMA KindsKept ==
  ASSUME NEW b \in Seq(Call), NEW r, r.cursor \in 1..Len(b),
         NEW res \in {"ok", "notrun", "unknown"}
  PROVE  /\ DOMAIN Answered(b, r, res) = DOMAIN b
         /\ \A i \in DOMAIN b : Answered(b, r, res)[i].kind = b[i].kind
<1>1. DOMAIN b = 1..Len(b) /\ \A i \in DOMAIN b : b[i] \in Call
  OBVIOUS
<1> QED
  BY <1>1 DEF Answered, Call

\* What the invariants say together of a state.
Safe == Inv /\ GoalTypes /\ AuthInv

LEMMA UserAuth ==
  ASSUME Safe, UserAction
  PROVE  AuthInv'
<1> USE DEF Safe, Accepts, Finish
<1>1. /\ RunShape(run, batch) /\ run \in ARun /\ batch \in Seq(Call)
      /\ permit \in Permits
  BY DEF Inv, RunInv, RunTypes, GoalTypes
<1>2. CASE SubmitMessage
  <2>1. /\ run' = NewRun /\ pc' = "claim" /\ goal' = goal /\ permit' = permit
    BY <1>2 DEF SubmitMessage
  <2> QED
    BY <2>1, ModelAuth DEF AuthInv, PermitsCurrent, NewRun, NoRun
<1>3. CASE PauseGoal \/ CancelGoal
  BY <1>3, DropAuth, NoPermitsCurrent
     DEF PauseGoal, CancelGoal, PauseTheGoal, CancelTheGoal, AuthInv
<1>4. CASE ResumeGoal
  <2>1. run.phase = "MODEL" /\ run' = run /\ permit' = permit /\ pc' = "idle"
        /\ corrections' = corrections
    BY <1>1, <1>4 DEF ResumeGoal, RunShape
  <2>2. goal'.status \in Open /\ goal'.rev = goal.rev
    BY <1>4 DEF ResumeGoal, GoalTypes, Open, GoalStatus, Terminal
  <2> QED
    BY <2>1, <2>2 DEF AuthInv, EffectGoal, NoCorrection, PermitsCurrent
<1>5. CASE ConfirmCriterion \/ RevokeConsent
  <2>1. /\ goal' = goal /\ permit' = permit /\ corrections' = corrections
        /\ batch' = batch /\ pc' \in {"idle", "claim"}
        /\ run'.phase = run.phase /\ run'.grant = run.grant
        /\ run'.status = "AWAITING_APPROVAL" => run.status = "AWAITING_APPROVAL"
    BY <1>1, <1>5 DEF ConfirmCriterion, RevokeConsent, Route, goalVars, ARun
  <2> QED
    BY <2>1 DEF AuthInv, EffectGoal, NoCorrection, PermitsCurrent
<1>6. CASE AnswerDisclosure
  <2>1. /\ permit' = permit /\ pc' = "claim" /\ run'.phase = "MODEL" /\ run'.grant = 0
        /\ run'.status = "RUNNABLE"
    BY <1>1, <1>6 DEF AnswerDisclosure, RunShape, ARun, NewRun, NoRun
  <2>2. goal' = goal \/ (goal'.status \in Open /\ goal'.rev = goal.rev)
    BY <1>6 DEF AnswerDisclosure, GoalTypes, Open, GoalStatus, Terminal
  <2> QED
    BY <2>1, <2>2, ModelAuth DEF AuthInv, PermitsCurrent
<1>7. CASE RevokeGoalTargetAuthority \/ RevokeProcessAuthority
  <2>1. PICK k \in Permitted : permit' = [permit EXCEPT ![k] = NoPermit]
    BY <1>7 DEF RevokeGoalTargetAuthority, RevokeProcessAuthority, Permitted
  <2>2. /\ goal' = goal /\ corrections' = corrections /\ batch' = batch
        /\ run' = run /\ pc' \in {"idle", "claim"}
    BY <1>7 DEF RevokeGoalTargetAuthority, RevokeProcessAuthority, Route, goalVars
  <2>3. PermitsCurrent'
    BY <2>1, <2>2, LessPermitsCurrent DEF AuthInv
  <2> QED
    BY <2>2, <2>3 DEF AuthInv, EffectGoal, NoCorrection
<1>8. CASE Approve
  <2> DEFINE kind == batch[run.cursor].kind
  <2>1. /\ run.phase = "TOOL" /\ run.cursor \in DOMAIN batch
        /\ goal' = goal /\ corrections' = corrections /\ batch' = batch
        /\ pc' = "claim" /\ run'.phase = "TOOL" /\ run'.status = "RUNNABLE"
        /\ corrections = 0
    BY <1>1, <1>8 DEF Approve, RunShape, ARun, goalVars, AuthInv, NoCorrection
  <2>2. PermitsCurrent'
    <3>1. CASE permit' = permit
      BY <2>1, <3>1 DEF AuthInv, PermitsCurrent
    <3>2. CASE /\ kind \in {"write", "proc"}
               /\ permit' = [permit EXCEPT ![kind] = [rev |-> goal.rev, uses |-> PermitUses]]
      <4>1. goal.status \in Open
        BY <2>1, <3>2 DEF AuthInv, EffectGoal, Effectful
      <4>2. \A j \in Permitted :
              permit'[j].uses > 0 => permit'[j].rev = goal.rev
        BY <1>1, <2>1, <3>2 DEF Permits, Permitted, AuthInv, PermitsCurrent
      <4> QED
        BY <2>1, <4>1, <4>2 DEF PermitsCurrent
    <3> QED
      BY <1>8, <3>1, <3>2 DEF Approve
  <2> QED
    BY <2>1, <2>2 DEF AuthInv, EffectGoal, NoCorrection
<1>9. CASE Reject \/ CancelRun
  <2>1. goal' = goal /\ permit' = permit /\ DropRun /\ pc' = "idle"
    BY <1>9 DEF Reject, CancelRun, goalVars
  <2> QED
    BY <2>1, DropAuth DEF AuthInv, PermitsCurrent
<1>10. CASE ResolveUnknownToolOutcome \/ RecoverUnknownObservation
  <2>1. run.phase = "EXECUTING"
    BY <1>1, <1>10 DEF ResolveUnknownToolOutcome, RecoverUnknownObservation,
                       UnknownEffect, RunShape
  <2>2. run.cursor \in 1..Len(batch)
    BY <1>1, <2>1 DEF RunShape
  <2>3. /\ batch' = Answered(batch, run, "unknown") /\ goal' = goal /\ permit' = permit
        /\ pc' = "claim" /\ corrections' = corrections
        /\ run' = [Advance(batch, run) EXCEPT !.status = "RUNNABLE", !.owned = FALSE]
    BY <1>10 DEF ResolveUnknownToolOutcome, RecoverUnknownObservation, Classified, goalVars
  <2>4. run'.status = "RUNNABLE" /\ run'.grant = 0
    BY <1>1, <2>3 DEF Advance, ARun
  <2>5. EffectGoal(goal', run', batch')
    BY <1>1, <2>1, <2>2, <2>3, KindsKept DEF AuthInv, EffectGoal
  <2> QED
    BY <2>3, <2>4, <2>5 DEF AuthInv, NoCorrection, PermitsCurrent
<1>11. CASE Resume
  <2>1. /\ goal' = goal /\ permit' = permit /\ batch' = batch
        /\ corrections' = corrections /\ pc' \in {"idle", "claim"}
        /\ run'.grant = run.grant
        /\ run'.phase = run.phase
        /\ run'.status = "AWAITING_APPROVAL" => run.status = "AWAITING_APPROVAL"
    BY <1>1, <1>11 DEF Resume, Recovering, Stopped, UnknownEffect, goalVars, ARun
  <2> QED
    BY <2>1 DEF AuthInv, EffectGoal, NoCorrection, PermitsCurrent
<1>12. CASE RefuseAction
  BY <1>12 DEF RefuseAction, vars, AuthInv, EffectGoal, NoCorrection, Word, PermitsCurrent
<1> QED
  BY <1>2, <1>3, <1>4, <1>5, <1>6, <1>7, <1>8, <1>9, <1>10, <1>11, <1>12
     DEF UserAction, GoalAction, PermissionAction, RunAction

\* Saving that the call is in progress is what gives it its word.
LEMMA MarkAuth ==
  ASSUME Safe, MarkExecuting
  PROVE  AuthInv'
<1> USE DEF Safe
<1>1. /\ run.phase = "TOOL" /\ run.cursor \in 1..Len(batch) /\ batch \in Seq(Call)
      /\ run \in ARun /\ corrections = 0 /\ run.status = "RUNNABLE"
  BY DEF Inv, RunInv, RunTypes, RunShape, PlaceShape, MarkExecuting, AtTool, Driving,
         Governed, InDriver, Places
<1>2. DOMAIN batch = 1..Len(batch) /\ batch[run.cursor] \in Call
  BY <1>1
<1>3. PICK w \in WarrantsFor(batch[run.cursor].kind) :
        /\ batch' = [batch EXCEPT ![run.cursor] = [batch[run.cursor] EXCEPT !.by = w]]
        /\ permit' = IF w = "permit" THEN Spend(batch[run.cursor].kind) ELSE permit
  BY DEF MarkExecuting, Current
<1>4. /\ run' = [run EXCEPT !.phase = "EXECUTING", !.grant = 0] /\ pc' = "invoke"
      /\ goal' = goal /\ corrections' = corrections
  BY DEF MarkExecuting, Executing, goalVars
<1>5. /\ run'.phase = "EXECUTING" /\ run'.cursor = run.cursor
      /\ run'.status = "RUNNABLE" /\ run'.grant = 0
  BY <1>1, <1>4 DEF ARun
<1>6. /\ DOMAIN batch' = DOMAIN batch
      /\ \A i \in DOMAIN batch : batch'[i].kind = batch[i].kind
      /\ batch'[run.cursor].by = w
  <2>1. \A i \in DOMAIN batch : batch[i] \in Call
    BY <1>1
  <2> QED
    BY <1>1, <1>2, <1>3, <2>1 DEF Call
<1>7. PermitsCurrent'
  <2>1. CASE w = "permit"
    BY <1>3, <1>4, <2>1, LessPermitsCurrent DEF WarrantsFor, AuthInv
  <2>2. CASE w # "permit"
    BY <1>3, <1>4, <2>2 DEF AuthInv, PermitsCurrent
  <2> QED
    BY <2>1, <2>2
<1>8. EffectGoal(goal', run', batch') /\ NoCorrection(run', pc', corrections')
  BY <1>1, <1>4, <1>5, <1>6 DEF AuthInv, EffectGoal, NoCorrection
<1>9. Word(goal', run', batch')
  <2>1. batch[run.cursor].kind \in Effectful => goal.status \in Open
    BY <1>1, <1>2 DEF AuthInv, EffectGoal
  <2>2. /\ batch[run.cursor].kind = "proc" => w = "permit"
        /\ batch[run.cursor].kind \in {"net", "write"} => w \in {"user", "permit"}
    BY <1>3 DEF WarrantsFor
  <2> QED
    BY <1>2, <1>4, <1>5, <1>6, <2>1, <2>2, <1>1 DEF Word
<1> QED
  BY <1>7, <1>8, <1>9 DEF AuthInv

LEMMA ToolAuth ==
  ASSUME Safe, Refuse \/ NeedApproval \/ Invoke \/ RecordResult
  PROVE  AuthInv'
<1> USE DEF Safe, Continue, Finish
<1>1. /\ run \in ARun /\ batch \in Seq(Call) /\ RunShape(run, batch)
      /\ run.phase \in {"TOOL", "EXECUTING"} /\ run.status = "RUNNABLE"
      /\ goal' = goal /\ permit' = permit /\ corrections' = corrections
  BY DEF Inv, RunInv, RunTypes, PlaceShape, Refuse, NeedApproval, Invoke, RecordResult,
         AtTool, Driving, InDriver, Places, goalVars
<1>2. run.cursor \in 1..Len(batch) /\ DOMAIN batch = 1..Len(batch)
  BY <1>1 DEF RunShape
<1>3. CASE Refuse \/ RecordResult
  <2>1. PICK res \in {"notrun", "ok"} :
          /\ batch' = Answered(batch, run, res) /\ run' = Advance(batch, run)
          /\ pc' = "loop"
    BY <1>3 DEF Refuse, RecordResult
  <2>2. run'.status = "RUNNABLE" /\ run'.grant = 0
    BY <1>1, <2>1 DEF Advance, ARun
  <2>3. EffectGoal(goal', run', batch')
    <3>1. goal.status \in Open \/ \A i \in DOMAIN batch : batch[i].kind \notin Effectful
      BY <1>1 DEF AuthInv, EffectGoal
    <3>2. /\ DOMAIN batch' = DOMAIN batch
          /\ \A i \in DOMAIN batch : batch'[i].kind = batch[i].kind
      BY <1>1, <1>2, <2>1, KindsKept
    <3> QED
      BY <1>1, <3>1, <3>2 DEF EffectGoal
  <2> QED
    BY <1>1, <2>1, <2>2, <2>3 DEF AuthInv, NoCorrection, PermitsCurrent
<1>4. CASE NeedApproval
  <2>1. CASE MayStop(run) /\ run' = Stopped(run, "AWAITING_APPROVAL") /\ pc' = "idle"
             /\ batch' = batch
    <3>1. run'.phase = run.phase /\ corrections = 0
      BY <1>1, <1>4, <2>1 DEF NeedApproval, Governed, Stopped, ARun
    <3> QED
      BY <1>1, <2>1, <3>1 DEF AuthInv, EffectGoal, NoCorrection, PermitsCurrent
  <2>2. CASE Raise
    BY <1>1, <2>2, DropAuth DEF Raise, AuthInv, EffectGoal, NoCorrection, PermitsCurrent
  <2> QED
    BY <1>4, <2>1, <2>2 DEF NeedApproval
<1>5. CASE Invoke
  <2>1. /\ DOMAIN batch' = DOMAIN batch
        /\ \A i \in DOMAIN batch : batch'[i].kind = batch[i].kind
    <3>1. \A i \in DOMAIN batch : batch[i] \in Call
      BY <1>1
    <3>2. \/ batch' = batch
          \/ batch' = [batch EXCEPT ![run.cursor] =
                         [batch[run.cursor] EXCEPT !.invs = batch[run.cursor].invs + 1]]
      BY <1>5 DEF Invoke
    <3> QED
      BY <1>2, <3>1, <3>2 DEF Call
  <2>2. run.phase = "EXECUTING" /\ corrections = 0
    BY <1>5 DEF Invoke, Inv, RunInv, PlaceShape, AuthInv, NoCorrection
  <2>3. /\ run'.grant = run.grant /\ pc' \in {"record", "idle"}
        /\ run'.status # "AWAITING_APPROVAL"
    BY <1>1, <1>5 DEF Invoke, Recovering, Stopped, ARun
  <2>4. EffectGoal(goal', run', batch')
    <3>1. goal.status \in Open \/ \A i \in DOMAIN batch : batch[i].kind \notin Effectful
      BY <2>2 DEF AuthInv, EffectGoal
    <3> QED
      BY <1>1, <2>1, <3>1 DEF EffectGoal
  <2> QED
    BY <1>1, <2>2, <2>3, <2>4 DEF AuthInv, NoCorrection, PermitsCurrent
<1> QED
  BY <1>3, <1>4, <1>5

LEMMA ModelAuthStep ==
  ASSUME Safe, DriveModel
  PROVE  AuthInv'
<1> USE DEF Safe, Continue, Finish
<1>1. /\ run \in ARun /\ RunShape(run, batch) /\ run.status = "RUNNABLE"
      /\ run.phase = "MODEL" /\ run.grant = 0
  <2>1. run \in ARun /\ RunShape(run, batch)
    BY DEF Inv, RunInv, RunTypes
  <2>2. run.phase = "MODEL" /\ run.status = "RUNNABLE"
    BY DEF Inv, RunInv, PlaceShape, DriveModel, Attempt, Repair, EndsInProse, ProposeGoal,
           RecordProgress, AcceptDelta, NoopDelta, AcceptBlockedClaim, RecordEvidence,
           RecordClaim, Verify, CompleteRun, StartBatch, AtModel, MidModel, Driving,
           InDriver, Places
  <2> QED
    BY <2>1, <2>2 DEF RunShape
<1>2. CASE Attempt \/ Repair \/ NoopDelta
  <2>1. /\ goal' = goal /\ permit' = permit /\ pc' \in {"sent", "loop"}
        /\ run'.phase = "MODEL" /\ run'.grant = 0 /\ run'.status = "RUNNABLE"
    BY <1>1, <1>2 DEF Attempt, Counted, Repair, NoopDelta, ARun, goalVars
  <2> QED
    BY <2>1, ModelAuth DEF AuthInv, PermitsCurrent
<1>3. CASE ProposeGoal \/ RecordProgress
  <2>1. /\ permit' = permit /\ pc' = "loop" /\ run' = run
        /\ goal'.status \in Open
        /\ goal.status \in Open => goal'.rev = goal.rev
    BY <1>3 DEF ProposeGoal, RecordProgress, GoalTypes, Open, GoalStatus, Terminal
  <2>2. PermitsCurrent'
    BY <2>1 DEF AuthInv, PermitsCurrent
  <2> QED
    BY <1>1, <2>1, <2>2, ModelAuth DEF AuthInv
<1>4. CASE AcceptDelta
  <2>1. permit' = NoPermits /\ pc' = "loop" /\ run' = run
    BY <1>4 DEF AcceptDelta, PermitsAfterDelta
  <2> QED
    BY <1>1, <2>1, ModelAuth, NoPermitsCurrent DEF AuthInv
<1>5. CASE EndsInProse \/ CompleteRun
  BY <1>5, DropAuth DEF EndsInProse, CompleteRun, AuthInv, PermitsCurrent, goalVars
<1>6. CASE AcceptBlockedClaim
  <2>1. /\ goal'.status \in Open /\ goal'.rev = goal.rev
        /\ permit' = permit /\ DropRun /\ pc' = "idle"
    BY <1>6 DEF AcceptBlockedClaim, GoalTypes, Open, GoalStatus, Terminal
  <2> QED
    BY <2>1, DropAuth DEF AuthInv, PermitsCurrent
<1>7. CASE RecordEvidence \/ RecordClaim
  <2>1. /\ goal' = goal /\ permit' = permit /\ run' = run
        /\ pc' \in {"evidence", "claimed"} /\ corrections' = 0
    BY <1>7 DEF RecordEvidence, RecordClaim, Governed, AuthInv, NoCorrection
  <2> QED
    BY <1>1, <2>1, ModelAuth DEF AuthInv, PermitsCurrent
<1>8. CASE Verify
  <2>1. permit' = NoPermits /\ run' = run /\ pc' = "verified" /\ corrections' = 0
    BY <1>8 DEF Verify, AuthInv, NoCorrection
  <2> QED
    BY <1>1, <2>1, ModelAuth, NoPermitsCurrent DEF AuthInv
<1>9. CASE StartBatch
  <2>1. /\ run'.phase = "TOOL" /\ run'.grant = 0 /\ run'.status = "RUNNABLE"
        /\ pc' = "loop" /\ goal' = goal /\ permit' = permit
    BY <1>1, <1>9 DEF StartBatch, ARun, goalVars
  <2>2. goal.status \in Open \/ \A i \in DOMAIN batch' : batch'[i].kind \notin Effectful
    <3>1. PICK n \in 1..BatchSize : \E kinds \in [1..n -> Exposed] :
            batch' = [i \in 1..n |-> FreshCall(kinds[i])]
      BY <1>9 DEF StartBatch
    <3>2. PICK kinds \in [1..n -> Exposed] : batch' = [i \in 1..n |-> FreshCall(kinds[i])]
      BY <3>1
    <3>3. goal.status \notin Open => \A k \in Exposed : k \notin Effectful
      BY DEF Exposed
    <3> QED
      BY <3>2, <3>3 DEF FreshCall
  <2> QED
    BY <2>1, <2>2 DEF AuthInv, EffectGoal, NoCorrection, PermitsCurrent
<1> QED
  BY <1>2, <1>3, <1>4, <1>5, <1>6, <1>7, <1>8, <1>9 DEF DriveModel

LEMMA DriveAuth ==
  ASSUME Safe, Drive \/ Crash
  PROVE  AuthInv'
<1> USE DEF Safe, Finish
<1>1. run \in ARun /\ RunShape(run, batch)
  BY DEF Inv, RunInv, RunTypes
<1>2. ASSUME DropRun, pc' = "idle", UNCHANGED <<goal, permit>>
      PROVE  AuthInv'
  BY <1>2, DropAuth DEF AuthInv, PermitsCurrent
<1>3. ASSUME UNCHANGED <<goal, permit, corrections, batch>>, run'.phase = run.phase,
             run'.grant = run.grant \/ run'.grant = 0, run'.status # "AWAITING_APPROVAL",
             pc' \in {"idle", "first"}
      PROVE  AuthInv'
  BY <1>3 DEF AuthInv, EffectGoal, NoCorrection, PermitsCurrent
<1>4. ASSUME Raise, UNCHANGED <<goal, permit, corrections>>
      PROVE  AuthInv'
  BY <1>2, <1>4 DEF Raise, AuthInv, EffectGoal, NoCorrection, PermitsCurrent
<1>5. CASE Claim
  BY <1>1, <1>2, <1>3, <1>5 DEF Claim, ARun, goalVars
<1>6. CASE Poll
  <2>1. CASE PollPause
    BY <1>4, <2>1, DropAuth, NoPermitsCurrent
       DEF PollPause, PauseTheGoal, AuthInv, goalVars
  <2>2. CASE PollCancel
    BY <1>4, <2>2, DropAuth, NoPermitsCurrent
       DEF PollCancel, CancelTheGoal, AuthInv, goalVars
  <2>3. CASE PollCorrect
    BY <2>3, DropAuth, NoPermitsCurrent DEF PollCorrect, AuthInv
  <2> QED
    BY <1>6, <2>1, <2>2, <2>3 DEF Poll
<1>7. CASE LimitReached \/ PauseRetryable
  <2>1. goal' = goal /\ permit' = permit /\ corrections' = corrections
    BY <1>7 DEF LimitReached, PauseRetryable, goalVars
  <2>2. \/ Raise
        \/ /\ pc' = "idle" /\ batch' = batch
           /\ run' \in {Stopped(run, "PAUSED_LIMIT"), Stopped(run, "PAUSED_RETRYABLE")}
    BY <1>7 DEF LimitReached, PauseRetryable
  <2>3. \A st \in {"PAUSED_LIMIT", "PAUSED_RETRYABLE"} :
          /\ Stopped(run, st).phase = run.phase /\ Stopped(run, st).grant = run.grant
          /\ Stopped(run, st).status # "AWAITING_APPROVAL"
    BY <1>1 DEF Stopped, ARun
  <2> QED
    BY <1>3, <1>4, <2>1, <2>2, <2>3
<1>8. CASE EndRun
  BY <1>2, <1>8 DEF EndRun, goalVars
<1>9. CASE AskDisclosure
  <2>1. run.phase = "MODEL" /\ run.grant = 0
    BY <1>1, <1>9 DEF AskDisclosure, AtModel, Inv, RunInv, PlaceShape, RunShape
  <2>2. /\ run'.phase = "MODEL" /\ run'.grant = 0 /\ run'.status # "AWAITING_APPROVAL"
        /\ pc' = "idle" /\ permit' = permit
    BY <1>1, <1>9, <2>1 DEF AskDisclosure, Stopped, ARun
  <2>3. goal' = goal \/ (goal'.status \in Open /\ goal'.rev = goal.rev)
    BY <1>9 DEF AskDisclosure, GoalTypes, Open, GoalStatus, Terminal
  <2> QED
    BY <2>2, <2>3, ModelAuth DEF AuthInv, PermitsCurrent
<1>10. CASE SaveFails
  <2>1. goal' = goal /\ permit' = permit /\ corrections' = corrections /\ pc' = "idle"
    BY <1>10 DEF SaveFails, goalVars
  <2>2. CASE UnknownEffect /\ run' = Recovering(run) /\ batch' = batch
    <3>1. run'.phase = run.phase /\ run'.grant = run.grant
          /\ run'.status # "AWAITING_APPROVAL"
      BY <1>1, <2>2 DEF Recovering, Stopped, UnknownEffect, ARun
    <3> QED
      BY <1>3, <2>1, <2>2, <3>1
  <2> QED
    BY <1>2, <1>10, <2>1, <2>2 DEF SaveFails
<1>11. CASE Crash
  BY <1>11 DEF Crash, AuthInv, EffectGoal, NoCorrection, PermitsCurrent, goalVars
<1> QED
  BY <1>5, <1>6, <1>7, <1>8, <1>9, <1>10, <1>11, MarkAuth, ToolAuth, ModelAuthStep
     DEF Drive, Stop, DriveTool

LEMMA SafeInvariant == Spec => []Safe
<1>1. Init => AuthInv
  BY DEF Init, NoRun, NoPermits, NoPermit, AuthInv, EffectGoal, NoCorrection,
         PermitsCurrent
<1>2. Inv /\ GoalTypes /\ AuthInv /\ [Next]_vars => AuthInv'
  <2>1. ASSUME AuthInv, UNCHANGED vars
        PROVE  AuthInv'
    BY <2>1 DEF vars, AuthInv, EffectGoal, NoCorrection, Word, PermitsCurrent
  <2> QED
    BY <2>1, UserAuth, DriveAuth DEF Safe, Next
<1>3. Inv /\ GoalTypes /\ AuthInv <=> Safe
  BY DEF Safe
<1> QED
  BY <1>1, <1>2, <1>3, RunInvariant, TypesInvariant, PTL DEF Spec

\* An approval is never applied to anything but what the user saw, and a call
\* that is invoked has the word its kind calls for (accept_action's
\* ResolveApproval, prepare, mark_executing).
THEOREM EffectsAuthorized == Spec => []InvokeAuthorized
<1>1. Safe => InvokeAuthorized
  BY DEF Safe, Inv, RunInv, RunShape, AuthInv, NoCorrection, Word, InvokeAuthorized, Current
<1> QED
  BY <1>1, SafeInvariant, PTL

\* No authorization or lease outlives the revision of the goal it was given for,
\* nor a pause, a cancellation or the verification of that goal.
THEOREM PermitsNeverStale == Spec => []PermitsCurrent
<1>1. Safe => PermitsCurrent
  BY DEF Safe, AuthInv
<1> QED
  BY <1>1, SafeInvariant, PTL

\* A goal is verified with evidence and a claim of its revision, and with no
\* correction waiting: the four saves of a completion leave no room for one.
THEOREM DoneMeansProved == Spec => VerifiedIsProved
<1> DEFINE Becomes == goal'.status = "VERIFIED_DONE" /\ goal.status # "VERIFIED_DONE"
<1>1. Safe /\ [Next]_vars /\ Becomes
        => evidence = goal'.rev /\ claim = goal'.rev /\ corrections = 0
  <2> SUFFICES ASSUME Safe, [Next]_vars, Becomes
               PROVE  evidence = goal'.rev /\ claim = goal'.rev /\ corrections = 0
    OBVIOUS
  <2> USE DEF Safe
  <2>1. goal \in [status : GoalStatus, rev : 0..MaxRev]
    BY DEF GoalTypes
  <2>2. CASE Verify
    BY <2>1, <2>2 DEF Verify, Proved, AuthInv, NoCorrection
  <2>3. ~UserAction
    BY <2>1 DEF UserAction, GoalAction, PermissionAction, RunAction, SubmitMessage,
                PauseGoal, CancelGoal, PauseTheGoal, CancelTheGoal, ResumeGoal,
                ConfirmCriterion, AnswerDisclosure, RevokeConsent,
                RevokeGoalTargetAuthority, RevokeProcessAuthority, Approve, Reject,
                ResolveUnknownToolOutcome, RecoverUnknownObservation, Classified,
                Resume, CancelRun, RefuseAction, goalVars, vars
  <2>4. ~(Poll \/ Stop \/ Claim \/ SaveFails \/ Crash)
    BY <2>1 DEF Poll, PollPause, PollCancel, PollCorrect, PauseTheGoal, CancelTheGoal,
                Stop, LimitReached, PauseRetryable, EndRun, AskDisclosure, Claim,
                SaveFails, Crash, goalVars
  <2>5. ~DriveTool
    BY DEF DriveTool, Refuse, NeedApproval, MarkExecuting, Invoke, RecordResult, goalVars
  <2>6. DriveModel => Verify
    BY <2>1 DEF DriveModel, Attempt, Repair, EndsInProse, ProposeGoal, RecordProgress,
                AcceptDelta, NoopDelta, AcceptBlockedClaim, RecordEvidence, RecordClaim,
                CompleteRun, StartBatch, goalVars
  <2>7. ~UNCHANGED vars
    BY DEF vars
  <2> QED
    BY <2>2, <2>3, <2>4, <2>5, <2>6, <2>7 DEF Next, Drive
<1> QED
  BY <1>1, SafeInvariant, PTL DEF Spec, VerifiedIsProved
=============================================================================
