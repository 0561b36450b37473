------------------------ MODULE BackgroundRunProofs ------------------------
(***************************************************************************)
(* Proofs about BackgroundRun, for any budgets, any size of a batch and    *)
(* any number of deaths and failures: nothing is done twice, the budget is *)
(* that of the occurrence, what was marked without a claim has no effect,  *)
(* and a death alone is no failure.                                        *)
(*                                                                         *)
(* The proof follows the checkpoint.  Whoever is in a turn holds the       *)
(* flock; whoever saved since it took it has a snapshot that is the file;  *)
(* and the file covers the world: every question that was asked and every  *)
(* call that ran is counted in it, before it happens.                      *)
(***************************************************************************)
EXTENDS BackgroundRun, FiniteSetTheorems, TLAPS

-----------------------------------------------------------------------------
(* Types                                                                   *)

Terminal == {"model_unknown", "recovery", "paused", "approval", "disclosure", "over"}
Stages == {"new", "model", "tool", "executing", "asking", "answered"} \cup Terminal
Finals == {"COMPLETED", "UNKNOWN", "RECOVERY", "MISMATCH", "LIMIT", "DISCLOSURE",
           "APPROVAL", "INVALID"}
\* What a checkpoint records of its action, and what a turn returns.
Recorded == Finals \cup {"FAILED", "none"}
AllResults == Recorded \cup {"BUSY", "CONFLICT"}

Checkpoint ==
  [st : Stages, claims : Nat, answer : Answers \cup {<<>>}, calls : Batches \cup {<<>>},
   at : Nat, pos : 0..ModelLimit, models : 0..ModelLimit, tools : 0..ToolLimit,
   fin : Recorded]

InTurn == {"turn", "own", "model", "send", "got", "lost", "reduce", "tool", "mark", "verify",
           "invoke", "done", "unsure", "handle", "handle2"}
\* The places whose snapshot is the file: nothing was saved since but by the process.
Synced == InTurn \ {"turn", "unsure", "handle", "handle2"}

Process ==
  [pc : InTurn \cup {"off", "ready", "report", "over"}, tok : Checkpoint, eaten : BOOLEAN,
   fresh : BOOLEAN, again : BOOLEAN, resp : Answers \cup {<<>>}, result : AllResults]

Verdicts == {"running", "effect_unknown", "cleanup_unknown", "completed", "model_unknown",
             "human", "failed"}

Types ==
  /\ disk \in Checkpoint
  /\ lease \in Runners \cup {"nobody"}
  /\ run \in [Runners -> Process]
  /\ claim \in [phase : Verdicts, why : AllResults, cancel : BOOLEAN, late : BOOLEAN]
  /\ parent \in BOOLEAN
  /\ asked \in [Questions -> {0, 1}] /\ ran \in [Calls -> {0, 1}] /\ void \subseteq Calls
  /\ crashes \in Nat /\ fails \in Nat

-----------------------------------------------------------------------------
(* The inductive invariant                                                 *)

\* What the counters of a checkpoint have to do with its stage, and that a run
\* has its result when it cannot go on.
Good(d) ==
  /\ d.st \in {"new", "model", "tool", "executing"} => d.models = d.pos
  /\ d.st \in {"asking", "answered"} => d.models = d.pos + 1 /\ d.pos >= 0
  /\ d.st \in {"tool", "executing"} =>
       d.pos >= 1 /\ d.at \in 1..Len(d.calls)
  /\ d.st \in Terminal => d.fin # "none"
  /\ d.fin # "none" => d.st \in Terminal \cup {"executing"}

\* The file covers what was asked (ak) and what had its effect (rn).
Done(rn) == {c \in Calls : rn[c] > 0}
Counted(d, rn) == IF d.st = "executing" THEN Done(rn) \cup {Current(d)} ELSE Done(rn)
Unasked(m, ak) == \A i \in Questions : i > m => ak[i] = 0
Unrun(n, rn) == \A c \in Calls : c[1] > n => rn[c] = 0
Covers(d, ak, rn) ==
  /\ Unasked(d.models, ak) /\ Unrun(d.pos, rn)
  /\ d.st = "tool" => \A c \in Calls : c[1] = d.pos /\ c[2] >= d.at => rn[c] = 0
  /\ d.st = "executing" => \A c \in Calls : c[1] = d.pos /\ c[2] > d.at => rn[c] = 0
  /\ Cardinality(Counted(d, rn)) <= d.tools

\* The stage of the snapshot at each place of the driver.
Stage(pc) ==
  CASE pc = "own" -> {"model"}
    [] pc = "model" -> {"model", "answered"}
    [] pc \in {"send", "got", "lost"} -> {"asking"}
    [] pc = "reduce" -> {"answered"}
    [] pc \in {"tool", "mark"} -> {"tool"}
    [] pc \in {"verify", "invoke", "done", "unsure", "handle2"} -> {"executing"}
    [] OTHER -> Stages

\* What a process x knows at its place, given the file d and the failures so far.
Place(x, d, fs) ==
  /\ Good(x.tok)
  /\ x.tok.st \in Stage(x.pc)
  /\ x.tok.fin # "none" => d = x.tok
  /\ x.pc \in InTurn \ {"turn"} => x.tok.fin = "none"
  /\ x.pc \in Synced => d = x.tok
  /\ x.eaten => x.pc \in {"reduce", "handle"} /\ x.tok.st = "answered"
  /\ x.pc = "reduce" => x.eaten
  /\ x.pc = "got" => x.resp \in Answers
  /\ x.pc = "mark" => x.tok.tools < ToolLimit
  /\ x.pc \in {"handle", "handle2"} => fs > 0
  /\ x.pc = "report" /\ fs = 0 =>
       x.result \in {"BUSY", "CONFLICT"} \/ (x.result \in Finals /\ d.fin = x.result)

\* What has not happened yet when a process is about to do it.
Pending(x, ak, rn, vd) ==
  /\ x.pc = "send" => ak[x.tok.pos + 1] = 0
  /\ x.pc \in {"verify", "invoke"} => rn[Current(x.tok)] = 0
  /\ x.pc = "invoke" => Current(x.tok) \notin vd

DiskInv == Good(disk) /\ Covers(disk, asked, ran) /\ (fails = 0 => disk.fin # "FAILED")
LeaseInv == \A p \in Runners : run[p].pc \in InTurn => lease = p
PlaceInv == \A p \in Runners : Place(run[p], disk, fails) /\ Pending(run[p], asked, ran, void)
VoidInv == (\A c \in void : ran[c] = 0) /\ (void # {} => ~Live)

Inv == Types /\ DiskInv /\ LeaseInv /\ PlaceInv /\ VoidInv /\ CrashIsNotFailure

-----------------------------------------------------------------------------
(* Facts about the data                                                    *)

LEMMA CallsFinite == IsFiniteSet(Calls)
<1>1. IsFiniteSet(Questions) /\ IsFiniteSet(1..BatchSize)
  BY FS_Interval, BackgroundAssumption DEF Questions
<1> QED BY <1>1, FS_Product DEF Calls

\* The counters of a checkpoint are within their limits.
LEMMA Numbers ==
  ASSUME NEW d \in Checkpoint
  PROVE  /\ d.pos \in Nat /\ d.pos <= ModelLimit /\ d.models \in Nat /\ d.models <= ModelLimit
         /\ d.tools \in Nat /\ d.tools <= ToolLimit /\ d.at \in Nat /\ d.claims \in Nat
         /\ d.st \in Stages /\ ModelLimit \in Nat /\ ToolLimit \in Nat
  BY BackgroundAssumption DEF Checkpoint

\* A batch is a sequence of at most BatchSize calls.
LEMMA BatchShape ==
  ASSUME NEW r \in Batches
  PROVE  Len(r) \in 1..BatchSize
<1>1. PICK n \in 1..BatchSize : r \in [1..n -> Kinds]
  BY DEF Batches
<1>2. r \in Seq(Kinds) /\ Len(r) = n
  BY <1>1, BackgroundAssumption
<1> QED BY <1>1, <1>2

\* The call that a batch has come to is a call.
LEMMA CurrentIsCall ==
  ASSUME NEW d \in Checkpoint, Good(d), d.st \in {"tool", "executing"}
  PROVE  Current(d) \in Calls /\ Current(d)[1] = d.pos /\ Current(d)[2] = d.at
<1>1. d.pos \in 1..ModelLimit + 1 /\ d.at \in 1..BatchSize
  <2>1. d.pos \in 0..ModelLimit /\ d.at \in Nat
    BY DEF Checkpoint
  <2>2. d.pos >= 1 /\ d.at >= 1 /\ d.at <= BatchSize
    <3>1. d.calls \in Batches \cup {<<>>} /\ d.at \in 1..Len(d.calls)
      BY DEF Good, Checkpoint
    <3>2. d.calls \in Batches
      BY <3>1
    <3> QED BY <3>1, <3>2, BatchShape, BackgroundAssumption DEF Good
  <2> QED BY <2>1, <2>2, BackgroundAssumption
<1> QED BY <1>1 DEF Current, Calls, Questions

\* Of the two runners, what is not one is the other; only one is in a turn.
LEMMA OneTurn ==
  ASSUME Inv, NEW p \in Runners, run[p].pc \in InTurn, NEW q \in Runners, q # p
  PROVE  run[q].pc \notin InTurn
  BY DEF Inv, LeaseInv

-----------------------------------------------------------------------------
(* What the reducers keep                                                  *)

Ok(d, ak, rn) == d \in Checkpoint /\ Good(d) /\ Covers(d, ak, rn)

LEMMA DoneShrinks ==
  ASSUME NEW d, NEW rn
  PROVE  Cardinality(Done(rn)) <= Cardinality(Counted(d, rn))
         /\ Cardinality(Done(rn)) \in Nat /\ Cardinality(Counted(d, rn)) \in Nat
         /\ IsFiniteSet(Done(rn))
<1>1. IsFiniteSet(Done(rn))
  <2>1. Done(rn) \subseteq Calls
    BY DEF Done
  <2> QED BY <2>1, CallsFinite, FS_Subset
<1>2. IsFiniteSet(Counted(d, rn)) /\ Done(rn) \subseteq Counted(d, rn)
  BY <1>1, FS_AddElement DEF Counted
<1> QED BY <1>1, <1>2, FS_Subset, FS_CardinalityType

\* Outside a batch only the counters count, and they never go back.
LEMMA CoversOn ==
  ASSUME NEW d \in Checkpoint, NEW e \in Checkpoint, NEW ak, NEW rn, Covers(d, ak, rn),
         e.models >= d.models, e.pos >= d.pos, e.tools >= d.tools,
         e.st \notin {"tool", "executing"}
  PROVE  Covers(e, ak, rn)
<1>0. Unasked(d.models, ak) /\ Unrun(d.pos, rn)
  BY DEF Covers
<1>1. Unasked(e.models, ak)
  <2> SUFFICES ASSUME NEW i \in Questions, i > e.models PROVE ak[i] = 0
    BY DEF Unasked
  <2>1. i \in Int /\ d.models \in Int /\ e.models \in Int
    BY Numbers DEF Questions
  <2>2. i > d.models
    BY <2>1
  <2> QED BY <2>2, <1>0 DEF Unasked
<1>2. Unrun(e.pos, rn)
  <2> SUFFICES ASSUME NEW c \in Calls, c[1] > e.pos PROVE rn[c] = 0
    BY DEF Unrun
  <2>1. c[1] \in Int /\ d.pos \in Int /\ e.pos \in Int
    BY Numbers DEF Calls, Questions
  <2>2. c[1] > d.pos
    BY <2>1
  <2> QED BY <2>2, <1>0 DEF Unrun
<1>3. Cardinality(Counted(e, rn)) <= e.tools
  <2>1. Counted(e, rn) = Done(rn)
    BY DEF Counted
  <2>2. Cardinality(Counted(d, rn)) <= d.tools /\ d.tools \in Nat /\ e.tools \in Nat
    BY DEF Covers, Checkpoint
  <2> QED BY <2>1, <2>2, DoneShrinks
<1> QED BY <1>1, <1>2, <1>3 DEF Covers

\* What is not counted may change.
LEMMA CoversSame ==
  ASSUME NEW d, NEW e, NEW ak, NEW rn, Covers(d, ak, rn),
         e.st = d.st, e.at = d.at, e.pos = d.pos, e.models = d.models, e.tools = d.tools
  PROVE  Covers(e, ak, rn)
  BY DEF Covers, Counted, Current

LEMMA AcceptedKeeps ==
  ASSUME NEW d, NEW ak, NEW rn, Ok(d, ak, rn), d.st = "new"
  PROVE  /\ Ok(Accepted(d), ak, rn) /\ Accepted(d).st = "model" /\ Accepted(d).fin = "none"
         /\ d.fin = "none"
<1>1. Accepted(d) \in Checkpoint /\ Accepted(d).st = "model" /\ d.fin = "none"
  BY DEF Accepted, Ok, Checkpoint, Stages, Terminal, Good
<1>2. /\ Accepted(d).fin = d.fin /\ Accepted(d).models = d.models
      /\ Accepted(d).pos = d.pos /\ Accepted(d).tools = d.tools
  BY DEF Accepted, Ok, Checkpoint
<1>3. Good(Accepted(d))
  BY <1>1, <1>2 DEF Good, Ok, Terminal
<1>4. d \in Checkpoint /\ d.pos \in Nat /\ d.models \in Nat /\ d.tools \in Nat
  BY Numbers DEF Ok
<1>5. Covers(Accepted(d), ak, rn)
  <2>1. Accepted(d).st \notin {"tool", "executing"} /\ Accepted(d) \in Checkpoint
    BY <1>1
  <2>2. Accepted(d).models >= d.models /\ Accepted(d).pos >= d.pos /\ Accepted(d).tools >= d.tools
    BY <1>2, <1>4
  <2>3. d \in Checkpoint /\ Covers(d, ak, rn)
    BY DEF Ok
  <2> QED BY <2>1, <2>2, <2>3, CoversOn, Zenon
<1> QED BY <1>1, <1>2, <1>3, <1>5 DEF Ok

LEMMA ClaimedKeeps ==
  ASSUME NEW d, NEW ak, NEW rn, Ok(d, ak, rn)
  PROVE  Ok(Claimed(d), ak, rn) /\ Claimed(d).st = d.st /\ Claimed(d).fin = d.fin
<1>1. Claimed(d) \in Checkpoint
  BY DEF Claimed, Ok, Checkpoint
<1>2. /\ Claimed(d).st = d.st /\ Claimed(d).at = d.at /\ Claimed(d).pos = d.pos
      /\ Claimed(d).models = d.models /\ Claimed(d).tools = d.tools
      /\ Claimed(d).calls = d.calls /\ Claimed(d).fin = d.fin
  BY DEF Claimed, Ok, Checkpoint
<1>3. Good(Claimed(d))
  BY <1>2 DEF Good, Ok
<1> QED BY <1>1, <1>2, <1>3, CoversSame DEF Ok

\* A question is counted before it is sent; the next one was never asked.
LEMMA AskingKeeps ==
  ASSUME NEW d, NEW ak, NEW rn, Ok(d, ak, rn), d.st = "model", d.models < ModelLimit
  PROVE  /\ Ok(Asking(d), ak, rn) /\ Asking(d).st = "asking" /\ Asking(d).fin = d.fin
         /\ Asking(d).pos + 1 \in Questions /\ ak[Asking(d).pos + 1] = 0
<1>1. Asking(d) \in Checkpoint /\ Asking(d).st = "asking" /\ Asking(d).fin = d.fin
  <2>1. d.models + 1 \in 0..ModelLimit
    BY Numbers DEF Ok
  <2> QED BY <2>1 DEF Asking, Ok, Checkpoint, Stages
<1>2. /\ Asking(d).pos = d.pos /\ Asking(d).models = d.models + 1
      /\ Asking(d).tools = d.tools /\ d.models = d.pos /\ d.models \in Nat
  BY Numbers DEF Asking, Ok, Checkpoint, Good
<1>3. Good(Asking(d))
  BY <1>1, <1>2 DEF Good, Ok, Terminal
<1>4. d \in Checkpoint /\ d.pos \in Nat /\ d.tools \in Nat /\ ModelLimit \in Nat
  BY Numbers DEF Ok
<1>6. Covers(Asking(d), ak, rn)
  <2>1. Asking(d).st \notin {"tool", "executing"} /\ Asking(d) \in Checkpoint
    BY <1>1
  <2>2. Asking(d).models >= d.models /\ Asking(d).pos >= d.pos /\ Asking(d).tools >= d.tools
    BY <1>2, <1>4
  <2>3. d \in Checkpoint /\ Covers(d, ak, rn)
    BY DEF Ok
  <2> QED BY <2>1, <2>2, <2>3, CoversOn, Zenon
<1>5. d.pos + 1 \in Questions /\ ak[d.pos + 1] = 0
  <2>1. d.pos + 1 \in Questions
    BY <1>2, <1>4 DEF Questions
  <2>2. Unasked(d.models, ak) /\ d.pos + 1 > d.models
    BY <1>2 DEF Ok, Covers
  <2> QED BY <2>1, <2>2 DEF Unasked
<1> QED BY <1>1, <1>2, <1>3, <1>5, <1>6 DEF Ok

LEMMA AnsweredKeeps ==
  ASSUME NEW d, NEW ak, NEW rn, Ok(d, ak, rn), d.st = "asking", NEW r \in Answers
  PROVE  Ok(Answered(d, r), ak, rn) /\ Answered(d, r).st = "answered" /\ Answered(d, r).fin = d.fin
<1>1. /\ Answered(d, r) \in Checkpoint
      /\ Answered(d, r).st = "answered" /\ Answered(d, r).fin = d.fin
  BY DEF Answered, Ok, Checkpoint, Stages
<1>2. /\ Answered(d, r).pos = d.pos /\ Answered(d, r).models = d.models
      /\ Answered(d, r).tools = d.tools
  BY DEF Answered, Ok, Checkpoint
<1>3. Good(Answered(d, r))
  BY <1>1, <1>2 DEF Good, Ok, Terminal
<1>4. d \in Checkpoint /\ d.pos \in Nat /\ d.models \in Nat /\ d.tools \in Nat
  BY Numbers DEF Ok
<1>5. Covers(Answered(d, r), ak, rn)
  <2>1. Answered(d, r).st \notin {"tool", "executing"} /\ Answered(d, r) \in Checkpoint
    BY <1>1
  <2>2. Answered(d, r).models >= d.models /\ Answered(d, r).pos >= d.pos /\ Answered(d, r).tools >= d.tools
    BY <1>2, <1>4
  <2>3. d \in Checkpoint /\ Covers(d, ak, rn)
    BY DEF Ok
  <2> QED BY <2>1, <2>2, <2>3, CoversOn, Zenon
<1> QED BY <1>1, <1>2, <1>3, <1>5 DEF Ok

\* What a checkpoint may become outside a batch.
LEMMA OkOn ==
  ASSUME NEW d, NEW ak, NEW rn, Ok(d, ak, rn), NEW e \in Checkpoint, Good(e),
         e.models >= d.models, e.pos >= d.pos, e.tools >= d.tools,
         e.st \notin {"tool", "executing"}
  PROVE  Ok(e, ak, rn)
<1>1. d \in Checkpoint /\ Covers(d, ak, rn)
  BY DEF Ok
<1>2. Covers(e, ak, rn)
  BY <1>1, CoversOn, Zenon
<1> QED BY <1>2 DEF Ok

LEMMA ConsumedKeeps ==
  ASSUME NEW d, NEW ak, NEW rn, Ok(d, ak, rn), d.st = "answered"
  PROVE  /\ Ok(Consumed(d), ak, rn) /\ Consumed(d).st = "model" /\ Consumed(d).fin = "none"
         /\ Consumed(d).pos = d.pos + 1
<1>1. d \in Checkpoint /\ d.models = d.pos + 1 /\ d.fin = "none"
  BY DEF Ok, Good, Terminal
<1>2. d.pos \in Nat /\ d.models \in Nat /\ d.tools \in Nat /\ d.pos + 1 \in 0..ModelLimit
  BY <1>1, Numbers
<1>3. Consumed(d) \in Checkpoint
  BY <1>1, <1>2 DEF Consumed, Checkpoint, Stages
<1>4. /\ Consumed(d).st = "model" /\ Consumed(d).fin = "none" /\ Consumed(d).pos = d.pos + 1
      /\ Consumed(d).models = d.models /\ Consumed(d).tools = d.tools
  BY <1>1 DEF Consumed, Checkpoint
<1>5. Good(Consumed(d))
  BY <1>1, <1>4 DEF Good, Terminal
<1>6. /\ Consumed(d).models >= d.models /\ Consumed(d).pos >= d.pos
      /\ Consumed(d).tools >= d.tools /\ Consumed(d).st \notin {"tool", "executing"}
  BY <1>2, <1>4
<1> QED BY <1>3, <1>4, <1>5, <1>6, OkOn, Zenon

\* None of the calls of a new batch has run: it came with an answer not acted on yet.
LEMMA StartedKeeps ==
  ASSUME NEW d, NEW ak, NEW rn, Ok(d, ak, rn), d.st = "answered", NEW r \in Batches
  PROVE  LET e == Started(Consumed(d), r) IN
         Ok(e, ak, rn) /\ e.st = "tool" /\ e.fin = "none"
<1> DEFINE m == Consumed(d)
           e == Started(m, r)
<1>1. Ok(m, ak, rn) /\ m.st = "model" /\ m.fin = "none" /\ m.pos = d.pos + 1
  BY ConsumedKeeps
<1>2. d \in Checkpoint /\ m \in Checkpoint /\ Unrun(d.pos, rn)
  BY <1>1 DEF Ok, Covers
<1>3. d.pos \in Nat /\ m.pos \in Nat /\ m.models \in Nat /\ m.tools \in Nat /\ m.models = m.pos
  <2>1. Good(m)
    BY <1>1 DEF Ok
  <2> QED BY <1>1, <1>2, <2>1, Numbers DEF Good
<1> HIDE DEF m
<1>4. e \in Checkpoint
  BY <1>2 DEF Started, Checkpoint, Stages
<1>5. /\ e.st = "tool" /\ e.calls = r /\ e.at = 1 /\ e.pos = m.pos /\ e.models = m.models
      /\ e.tools = m.tools /\ e.fin = "none"
  BY <1>1, <1>2 DEF Started, Checkpoint
<1> HIDE DEF e
<1>6. Good(e)
  <2>1. 1 \in 1..Len(r)
    BY BatchShape
  <2> QED BY <1>1, <1>3, <1>5, <2>1 DEF Good, Terminal
<1>7. Covers(e, ak, rn)
  <2>1. Unasked(e.models, ak) /\ Unrun(e.pos, rn)
    BY <1>1, <1>5 DEF Ok, Covers
  <2>2. \A c \in Calls : c[1] = e.pos /\ c[2] >= e.at => rn[c] = 0
    <3> SUFFICES ASSUME NEW c \in Calls, c[1] = e.pos PROVE rn[c] = 0
      OBVIOUS
    <3>1. c[1] > d.pos
      BY <1>1, <1>3, <1>5
    <3> QED BY <3>1, <1>2 DEF Unrun
  <2>3. Cardinality(Counted(e, rn)) <= e.tools
    <3>1. Counted(e, rn) = Counted(m, rn)
      BY <1>1, <1>5 DEF Counted
    <3> QED BY <3>1, <1>1, <1>5 DEF Ok, Covers
  <2> QED BY <2>1, <2>2, <2>3, <1>5 DEF Covers
<1>8. e = Started(Consumed(d), r)
  BY DEF e, m
<1>9. Ok(e, ak, rn)
  BY <1>4, <1>6, <1>7 DEF Ok
<1> QED BY <1>5, <1>8, <1>9

\* A call is counted before it has its effect, and it had none.
LEMMA ExecutingKeeps ==
  ASSUME NEW d, NEW ak, NEW rn, Ok(d, ak, rn), d.st = "tool", d.tools < ToolLimit
  PROVE  LET e == Executing(d) IN
         /\ Ok(e, ak, rn) /\ e.st = "executing" /\ e.fin = d.fin /\ Current(e) = Current(d)
         /\ rn[Current(d)] = 0 /\ Current(d) \in Calls
<1> DEFINE e == Executing(d)
<1>1. d \in Checkpoint /\ Good(d) /\ Covers(d, ak, rn)
  BY DEF Ok
<1>2. /\ d.tools \in Nat /\ d.tools + 1 \in 0..ToolLimit /\ d.at \in Nat /\ d.pos \in Nat
  BY <1>1, Numbers
<1>3. e \in Checkpoint
  BY <1>1, <1>2 DEF Executing, Checkpoint, Stages
<1>4. /\ e.st = "executing" /\ e.calls = d.calls /\ e.at = d.at /\ e.pos = d.pos
      /\ e.models = d.models /\ e.tools = d.tools + 1 /\ e.fin = d.fin
  BY <1>1 DEF Executing, Checkpoint
<1> HIDE DEF e
<1>5. Good(e)
  BY <1>1, <1>4 DEF Good, Terminal
<1>6. Current(e) = Current(d)
  BY <1>4 DEF Current
<1>7. Current(d) \in Calls /\ Current(d)[1] = d.pos /\ Current(d)[2] = d.at
  BY <1>1, CurrentIsCall
<1>8. \A c \in Calls : c[1] = d.pos /\ c[2] >= d.at => rn[c] = 0
  BY <1>1 DEF Covers
<1>9. rn[Current(d)] = 0
  BY <1>2, <1>7, <1>8
<1>10. Covers(e, ak, rn)
  <2>1. Unasked(e.models, ak) /\ Unrun(e.pos, rn)
    BY <1>1, <1>4 DEF Covers
  <2>2. \A c \in Calls : c[1] = e.pos /\ c[2] > e.at => rn[c] = 0
    <3> SUFFICES ASSUME NEW c \in Calls, c[1] = e.pos, c[2] > e.at PROVE rn[c] = 0
      OBVIOUS
    <3>1. c[2] \in Nat
      BY BackgroundAssumption DEF Calls
    <3>2. c[1] = d.pos /\ c[2] >= d.at
      BY <3>1, <1>2, <1>4
    <3> QED BY <3>2, <1>8
  <2>3. Cardinality(Counted(e, rn)) <= e.tools
    <3>1. Counted(d, rn) = Done(rn) /\ Counted(e, rn) = Done(rn) \cup {Current(d)}
      BY <1>4, <1>6 DEF Counted
    <3>2. IsFiniteSet(Done(rn)) /\ Cardinality(Done(rn)) \in Nat
      BY DoneShrinks
    <3>3. Cardinality(Done(rn) \cup {Current(d)}) <= Cardinality(Done(rn)) + 1
      BY <3>2, FS_AddElement
    <3>4. Cardinality(Done(rn)) <= d.tools
      BY <3>1, <1>1 DEF Covers
    <3>5. Cardinality(Counted(e, rn)) \in Nat
      BY DoneShrinks
    <3> QED BY <3>1, <3>2, <3>3, <3>4, <3>5, <1>2, <1>4
  <2> QED BY <2>1, <2>2, <2>3, <1>4 DEF Covers
<1>11. Ok(e, ak, rn)
  BY <1>3, <1>5, <1>10 DEF Ok
<1>12. e = Executing(d)
  BY DEF e
<1> QED BY <1>4, <1>6, <1>7, <1>9, <1>11, <1>12

\* With a result recorded the batch goes on behind the call.
LEMMA AdvancedKeeps ==
  ASSUME NEW d, NEW ak, NEW rn, Ok(d, ak, rn), d.st \in {"tool", "executing"}, d.fin = "none"
  PROVE  LET e == Advanced(d) IN
         Ok(e, ak, rn) /\ e.st = After(e) /\ e.st \in {"tool", "model"} /\ e.fin = "none"
<1> DEFINE e == Advanced(d)
<1>1. d \in Checkpoint /\ Good(d) /\ Covers(d, ak, rn)
  BY DEF Ok
<1>2. /\ d.tools \in Nat /\ d.at \in Nat /\ d.pos \in Nat /\ d.models \in Nat
      /\ d.models = d.pos /\ d.pos >= 1 /\ d.at \in 1..Len(d.calls)
  BY <1>1, Numbers DEF Good
<1>3. CASE d.at < Len(d.calls)
  <2>0. [d EXCEPT !.st = "tool", !.at = @ + 1] \in Checkpoint
    <3>1. d.at + 1 \in Nat /\ d \in Checkpoint
      BY <1>1, <1>2
    <3> QED BY <3>1 DEF Checkpoint, Stages
  <2>1. e = [d EXCEPT !.st = "tool", !.at = @ + 1]
    BY <1>3 DEF Advanced
  <2>2. e \in Checkpoint
    BY <2>0, <2>1
  <2>3. /\ e.st = "tool" /\ e.calls = d.calls /\ e.at = d.at + 1 /\ e.pos = d.pos
        /\ e.models = d.models /\ e.tools = d.tools /\ e.fin = "none"
    BY <1>1, <2>1 DEF Checkpoint
  <2> HIDE DEF e
  <2>4. Good(e)
    <3>1. Len(d.calls) \in Nat /\ d.at + 1 \in 1..Len(d.calls)
      <4>1. d.calls \in Batches \cup {<<>>}
        BY <1>1 DEF Checkpoint
      <4>2. d.calls \in Batches
        BY <4>1, <1>2
      <4> QED BY <4>2, <1>2, <1>3, BatchShape, BackgroundAssumption
    <3> QED BY <1>2, <2>3, <3>1 DEF Good, Terminal
  <2>5. Unasked(e.models, ak) /\ Unrun(e.pos, rn)
    BY <1>1, <2>3 DEF Covers
  <2>6. \A c \in Calls : c[1] = e.pos /\ c[2] >= e.at => rn[c] = 0
    <3> SUFFICES ASSUME NEW c \in Calls, c[1] = e.pos, c[2] >= e.at PROVE rn[c] = 0
      OBVIOUS
    <3>1. c[2] \in Nat
      BY BackgroundAssumption DEF Calls
    <3>2. c[1] = d.pos /\ c[2] >= d.at /\ c[2] > d.at
      BY <3>1, <1>2, <2>3
    <3> QED BY <3>2, <1>1 DEF Covers
  <2>7. Cardinality(Counted(e, rn)) <= e.tools
    <3>1. Counted(e, rn) = Done(rn)
      BY <2>3 DEF Counted
    <3>2. Cardinality(Counted(d, rn)) <= d.tools
      BY <1>1 DEF Covers
    <3> QED BY <3>1, <3>2, <1>2, <2>3, DoneShrinks
  <2>8. Covers(e, ak, rn)
    BY <2>3, <2>5, <2>6, <2>7 DEF Covers
  <2>9. Ok(e, ak, rn) /\ e.st = After(e)
    BY <2>2, <2>3, <2>4, <2>8 DEF Ok, After
  <2>10. e = Advanced(d)
    BY DEF e
  <2> QED BY <2>3, <2>9, <2>10
<1>4. CASE ~(d.at < Len(d.calls))
  <2>0. [d EXCEPT !.st = "model", !.calls = <<>>, !.at = 1] \in Checkpoint
    <3>1. 1 \in Nat /\ d \in Checkpoint
      BY <1>1, <1>2
    <3> QED BY <3>1 DEF Checkpoint, Stages
  <2>1. e = [d EXCEPT !.st = "model", !.calls = <<>>, !.at = 1]
    BY <1>4 DEF Advanced
  <2>2. e \in Checkpoint
    BY <2>0, <2>1
  <2>3. /\ e.st = "model" /\ e.pos = d.pos
        /\ e.models = d.models /\ e.tools = d.tools /\ e.fin = "none"
    BY <1>1, <2>1 DEF Checkpoint
  <2> HIDE DEF e
  <2>4. Good(e)
    BY <1>2, <2>3 DEF Good, Terminal
  <2>5. e.models >= d.models /\ e.pos >= d.pos /\ e.tools >= d.tools
        /\ e.st \notin {"tool", "executing"}
    BY <1>2, <2>3
  <2>6. Ok(e, ak, rn) /\ e.st = After(e)
    BY <2>2, <2>3, <2>4, <2>5, OkOn DEF After
  <2>7. e = Advanced(d)
    BY DEF e
  <2> QED BY <2>3, <2>6, <2>7
<1> QED BY <1>3, <1>4

\* The ends of a run, each with the result of its action.
LEMMA EndKeeps ==
  ASSUME NEW d, NEW ak, NEW rn, Ok(d, ak, rn), NEW result \in Recorded \ {"none"},
         NEW e \in {Unknown(d), Ended(d)} \cup {Stopped(d, st) : st \in Terminal}
  PROVE  LET f == Finished(e, result) IN
         /\ Ok(f, ak, rn) /\ f.st \in Terminal /\ f.fin = result
         /\ e = Ended(d) => f.st = "over"
<1> DEFINE f == Finished(e, result)
<1>1. d \in Checkpoint /\ d.models \in Nat /\ d.pos \in Nat /\ d.tools \in Nat
  BY Numbers DEF Ok
<1>2. /\ e \in Checkpoint /\ e.st \in Terminal
      /\ e.models = d.models /\ e.pos = d.pos /\ e.tools = d.tools
  <2>1. CASE e = Unknown(d)
    BY <1>1, <2>1 DEF Unknown, Checkpoint, Stages, Terminal
  <2>2. CASE e = Ended(d)
    BY <1>1, <2>2 DEF Ended, Checkpoint, Stages, Terminal
  <2>3. CASE e \in {Stopped(d, st) : st \in Terminal}
    <3>1. PICK st \in Terminal : e = Stopped(d, st)
      BY <2>3
    <3>2. st \in Stages
      BY DEF Stages
    <3> QED BY <1>1, <3>1, <3>2 DEF Stopped, Checkpoint
  <2> QED BY <2>1, <2>2, <2>3
<1>3. /\ f \in Checkpoint /\ f.st \in Terminal /\ f.fin = result
      /\ f.models = d.models /\ f.pos = d.pos /\ f.tools = d.tools
  BY <1>2 DEF Finished, Checkpoint
<1> HIDE DEF f
<1>4. Good(f)
  BY <1>3 DEF Good, Terminal
<1>5. /\ f.models >= d.models /\ f.pos >= d.pos /\ f.tools >= d.tools
      /\ f.st \notin {"tool", "executing"}
  BY <1>1, <1>3 DEF Terminal
<1>6. Ok(f, ak, rn)
  BY <1>3, <1>4, <1>5, OkOn
<1>7. e = Ended(d) => f.st = "over"
  <2> SUFFICES ASSUME e = Ended(d) PROVE f.st = "over"
    OBVIOUS
  <2>1. e.st = "over" /\ e \in Checkpoint
    BY <1>1, <1>2 DEF Ended, Checkpoint
  <2> QED BY <2>1 DEF f, Finished, Checkpoint
<1> QED BY <1>3, <1>6, <1>7 DEF f

\* The action fails while its call of a tool stays open.
LEMMA FinishedOpen ==
  ASSUME NEW d, NEW ak, NEW rn, Ok(d, ak, rn), d.st = "executing",
         NEW result \in Recorded \ {"none"}
  PROVE  LET f == Finished(d, result) IN
         Ok(f, ak, rn) /\ f.fin = result /\ f.st = "executing"
<1> DEFINE f == Finished(d, result)
<1>1. /\ f \in Checkpoint /\ f.fin = result /\ f.st = d.st /\ f.at = d.at /\ f.pos = d.pos
      /\ f.models = d.models /\ f.tools = d.tools /\ f.calls = d.calls
  BY DEF Finished, Ok, Checkpoint
<1> HIDE DEF f
<1>2. Good(f)
  BY <1>1 DEF Good, Ok, Terminal
<1>3. Covers(f, ak, rn)
  BY <1>1, CoversSame DEF Ok
<1>4. Ok(f, ak, rn)
  BY <1>1, <1>2, <1>3 DEF Ok
<1> QED BY <1>1, <1>4 DEF f

-----------------------------------------------------------------------------
(* What a step keeps                                                       *)

Moved(p) == \A q \in Runners : q # p => run'[q] = run[q]

\* What a process in its turn does to the file: nothing, or it replaces its own snapshot,
\* in which the action has no result yet, and completes the run only when it ends it.
Wrote(p) ==
  \/ disk' = disk
  \/ /\ Fits(p) /\ run[p].tok.fin = "none" /\ disk'.st # "new"
     /\ disk'.fin = "COMPLETED" => disk'.st = "over"

\* It goes on, or it returns, or it found the file changed and tries once more.
GoesOn(p) ==
  /\ run'[p].pc \in InTurn \ {"turn"} /\ lease' = lease /\ run'[p].again = run[p].again
  /\ run'[p].pc = "unsure" => disk'.fin = "none" /\ (fails' = 0 => disk' = run'[p].tok)
Leaves(p) ==
  /\ run'[p].pc = "report" /\ lease' = "nobody" /\ ~run'[p].again /\ run'[p].result # "BUSY"
  /\ run'[p].result = "COMPLETED" => disk'.fin = "COMPLETED"
Retries(p) == run'[p].pc = "ready" /\ lease' = "nobody" /\ ~Fits(p)

Drives(p) ==
  /\ Moved(p) /\ Wrote(p) /\ fails' \in {fails, fails + 1} /\ UNCHANGED <<claim, parent>>
  /\ GoesOn(p) \/ Leaves(p) \/ Retries(p)

\* A step of one process.  The other one is not in a turn when this one is, and when
\* the file has no result nothing that it knows depends on the file.
LEMMA StepKeeps ==
  ASSUME Inv, NEW p \in Runners, Types', Moved(p), fails' >= fails,
         \A q \in Runners : q # p /\ lease = q => lease' = q,
         run'[p].pc \in InTurn => lease' = p,
         \/ run[p].pc \in InTurn
         \/ UNCHANGED <<asked, ran, void>>,
         \/ disk' = disk
         \/ run[p].pc \in InTurn /\ disk.fin = "none",
         DiskInv', Place(run'[p], disk', fails'), Pending(run'[p], asked', ran', void'),
         VoidInv', CrashIsNotFailure'
  PROVE  Inv'
<1>1. LeaseInv'
  <2> SUFFICES ASSUME NEW q \in Runners, run'[q].pc \in InTurn PROVE lease' = q
    BY DEF LeaseInv
  <2>1. CASE q = p
    BY <2>1
  <2>2. CASE q # p
    BY <2>2 DEF Moved, Inv, LeaseInv
  <2> QED BY <2>1, <2>2
<1>2. PlaceInv'
  <2> SUFFICES ASSUME NEW q \in Runners
               PROVE  Place(run'[q], disk', fails') /\ Pending(run'[q], asked', ran', void')
    BY DEF PlaceInv
  <2>1. CASE q = p
    BY <2>1
  <2>2. CASE q # p
    <3>1. run'[q] = run[q] /\ Place(run[q], disk, fails) /\ Pending(run[q], asked, ran, void)
      BY <2>2 DEF Moved, Inv, PlaceInv
    <3>2. fails \in Nat /\ fails' \in Nat
      BY DEF Inv, Types
    <3>3. CASE run[p].pc \in InTurn
      <4>1. run[q].pc \notin InTurn
        BY <2>2, <3>3, OneTurn
      <4>2. Pending(run[q], asked', ran', void')
        BY <4>1 DEF Pending, InTurn
      <4>3. disk' = disk \/ (disk.fin = "none")
        OBVIOUS
      <4>4. Place(run[q], disk', fails')
        BY <3>1, <3>2, <4>1, <4>3 DEF Place, InTurn, Synced, Finals
      <4> QED BY <3>1, <4>2, <4>4
    <3>4. CASE run[p].pc \notin InTurn
      <4>1. disk' = disk /\ UNCHANGED <<asked, ran, void>>
        BY <3>4
      <4>2. Place(run[q], disk, fails')
        BY <3>1, <3>2 DEF Place
      <4> QED BY <3>1, <4>1, <4>2
    <3> QED BY <3>3, <3>4
  <2> QED BY <2>1, <2>2
<1> QED BY <1>1, <1>2 DEF Inv

\* The process goes on in its turn.
LEMMA GoOn ==
  ASSUME Inv, NEW p \in Runners, run[p].pc \in InTurn,
         run' \in [Runners -> Process], Moved(p), run'[p].pc \in InTurn,
         fails' \in Nat, fails' >= fails, disk' = disk \/ disk.fin = "none",
         Ok(disk', asked', ran'), fails' = 0 => disk'.fin # "FAILED",
         asked' \in [Questions -> {0, 1}], ran' \in [Calls -> {0, 1}], void' \subseteq Calls,
         VoidInv', UNCHANGED <<lease, claim, parent, crashes>>,
         Place(run'[p], disk', fails'), Pending(run'[p], asked', ran', void')
  PROVE  Inv'
<1>1. Types'
  BY DEF Inv, Types, Ok
<1>2. DiskInv'
  BY DEF DiskInv, Ok
<1>3. CrashIsNotFailure'
  <2>1. fails \in Nat
    BY DEF Inv, Types
  <2> QED BY <2>1 DEF Inv, CrashIsNotFailure
<1>4. lease' = p
  BY DEF Inv, LeaseInv
<1> QED BY <1>1, <1>2, <1>3, <1>4, StepKeeps

\* The process leaves its turn, or never was in one.
LEMMA Leave ==
  ASSUME Inv, NEW p \in Runners, run' \in [Runners -> Process], Moved(p),
         run'[p].pc \notin InTurn, lease' = IF lease = p THEN "nobody" ELSE lease,
         fails' \in Nat, fails' >= fails,
         disk' = disk \/ (run[p].pc \in InTurn /\ disk.fin = "none"),
         Ok(disk', asked, ran), fails' = 0 => disk'.fin # "FAILED",
         UNCHANGED <<claim, parent, asked, ran, void>>, crashes' \in Nat,
         Place(run'[p], disk', fails')
  PROVE  Inv'
<1>1. Types'
  BY DEF Inv, Types, Ok
<1>2. DiskInv'
  BY DEF DiskInv, Ok
<1>3. CrashIsNotFailure'
  <2>1. fails \in Nat
    BY DEF Inv, Types
  <2> QED BY <2>1 DEF Inv, CrashIsNotFailure
<1>4. VoidInv'
  BY DEF Inv, VoidInv, Live
<1>5. Pending(run'[p], asked', ran', void')
  BY DEF Pending, InTurn
<1>6. \A q \in Runners : q # p /\ lease = q => lease' = q
  OBVIOUS
<1> QED BY <1>1, <1>2, <1>3, <1>4, <1>5, <1>6, StepKeeps

\* What holds of a snapshot.
LEMMA Snapshot ==
  ASSUME Inv, NEW p \in Runners
  PROVE  /\ run[p] \in Process /\ run[p].tok \in Checkpoint /\ Good(run[p].tok)
         /\ Place(run[p], disk, fails) /\ Pending(run[p], asked, ran, void)
         /\ Ok(disk, asked, ran) /\ fails \in Nat
         /\ (fails = 0 => disk.fin # "FAILED")
         /\ run \in [Runners -> Process]
<1>1. run[p] \in Process /\ run \in [Runners -> Process] /\ fails \in Nat /\ disk \in Checkpoint
  BY DEF Inv, Types
<1>2. Place(run[p], disk, fails) /\ Pending(run[p], asked, ran, void)
  BY DEF Inv, PlaceInv
<1>3. Ok(disk, asked, ran) /\ (fails = 0 => disk.fin # "FAILED")
  BY <1>1 DEF Inv, DiskInv, Ok
<1> QED BY <1>1, <1>2, <1>3 DEF Place, Process

LEMMA NewIsGood == New \in Checkpoint /\ Good(New) /\ New.fin = "none" /\ Off \in Process
<1>1. New \in Checkpoint
  <2>1. 0 \in 0..ModelLimit /\ 0 \in 0..ToolLimit
    BY BackgroundAssumption
  <2> QED BY <2>1 DEF New, Checkpoint, Stages, Recorded
<1>2. Good(New) /\ New.fin = "none"
  BY DEF New, Good, Terminal
<1> QED BY <1>1, <1>2 DEF Off, Process, AllResults, Recorded

\* run_turn returns with a result that the file bears out, unless something failed.
LEMMA ReturnKeeps ==
  ASSUME Inv, NEW p \in Runners, run[p].pc \in InTurn \cup {"ready"},
         NEW result \in AllResults, Returns(p, result),
         fails' \in Nat, fails' >= fails,
         disk' = disk \/ (run[p].pc \in InTurn /\ disk.fin = "none"),
         Ok(disk', asked, ran), fails' = 0 => disk'.fin # "FAILED",
         fails' = 0 => \/ result \in {"BUSY", "CONFLICT"}
                       \/ result \in Finals /\ disk'.fin = result,
         UNCHANGED <<claim, parent, asked, ran, void, crashes>>
  PROVE  Inv'
<1> DEFINE y == [Off EXCEPT !.pc = "report", !.result = result]
<1>1. /\ y \in Process /\ y.pc = "report" /\ y.result = result /\ y.tok = New /\ y.eaten = FALSE
  BY NewIsGood DEF Off, Process
<1>2. run' = [run EXCEPT ![p] = y] /\ lease' = IF lease = p THEN "nobody" ELSE lease
  BY DEF Returns
<1> HIDE DEF y
<1>3. run' \in [Runners -> Process] /\ run'[p] = y /\ Moved(p)
  BY <1>1, <1>2, Snapshot DEF Moved
<1>4. Place(y, disk', fails')
  BY <1>1, NewIsGood DEF Place, Stage, Stages, Terminal, InTurn, Synced, New
<1>5. crashes' \in Nat
  BY DEF Inv, Types
<1> QED BY <1>1, <1>2, <1>3, <1>4, <1>5, Leave DEF InTurn

\* What it does when it returns from its turn.
LEMMA ReturnDrives ==
  ASSUME Inv, NEW p \in Runners, run[p].pc \in InTurn, NEW result, Returns(p, result),
         result # "BUSY", result = "COMPLETED" => disk'.fin = "COMPLETED",
         Wrote(p), fails' \in {fails, fails + 1}, UNCHANGED <<claim, parent>>
  PROVE  Drives(p)
<1>1. run' = [run EXCEPT ![p] = [Off EXCEPT !.pc = "report", !.result = result]]
  BY DEF Returns
<1>2. run \in [Runners -> Process] /\ lease = p
  BY Snapshot DEF Inv, LeaseInv
<1>3. /\ run'[p].pc = "report" /\ run'[p].result = result /\ run'[p].again = FALSE
      /\ Moved(p) /\ lease' = "nobody"
  BY <1>1, <1>2 DEF Off, Moved, Returns
<1> QED BY <1>3 DEF Drives, Leaves

LEMMA ConflictDrives ==
  ASSUME Inv, NEW p \in Runners, run[p].pc \in InTurn, ~Fits(p), Conflicts(p, "CONFLICT"),
         UNCHANGED <<disk, fails, claim, parent>>
  PROVE  Drives(p)
<1>1. Wrote(p) /\ fails' \in {fails, fails + 1}
  BY DEF Wrote
<1>2. CASE run[p].again
  <2>1. Returns(p, "CONFLICT")
    BY <1>2 DEF Conflicts
  <2> QED BY <1>1, <2>1, ReturnDrives
<1>3. CASE ~run[p].again
  <2>1. run \in [Runners -> Process] /\ lease = p
    BY Snapshot DEF Inv, LeaseInv
  <2>2. /\ run' = [run EXCEPT ![p] = [Off EXCEPT !.pc = "ready", !.tok = disk, !.again = TRUE]]
        /\ lease' = "nobody"
    BY <1>3, <2>1 DEF Conflicts
  <2>3. run'[p].pc = "ready" /\ Moved(p)
    BY <2>1, <2>2 DEF Off, Moved
  <2> QED BY <1>1, <2>2, <2>3 DEF Drives, Retries
<1> QED BY <1>2, <1>3

\* What it does when it goes on.
LEMMA GoDrives ==
  ASSUME NEW p \in Runners, Moved(p), run'[p].pc \in InTurn \ {"turn"},
         run'[p].again = run[p].again, Wrote(p), fails' \in {fails, fails + 1},
         UNCHANGED <<lease, claim, parent>>,
         run'[p].pc = "unsure" => disk'.fin = "none" /\ (fails' = 0 => disk' = run'[p].tok)
  PROVE  Drives(p)
  BY DEF Drives, GoesOn

LEMMA ConflictKeeps ==
  ASSUME Inv, NEW p \in Runners, run[p].pc \in InTurn \cup {"ready"},
         NEW result \in {"BUSY", "CONFLICT"}, Conflicts(p, result),
         UNCHANGED <<disk, fails, claim, parent, asked, ran, void, crashes>>
  PROVE  Inv'
<1>1. CASE run[p].again
  <2>1. Returns(p, result) /\ result \in AllResults
    BY <1>1 DEF Conflicts, AllResults
  <2> QED BY <2>1, Snapshot, ReturnKeeps
<1>2. CASE ~run[p].again
  <2> DEFINE y == [Off EXCEPT !.pc = "ready", !.tok = disk, !.again = TRUE]
  <2>1. /\ run' = [run EXCEPT ![p] = y] /\ lease' = IF lease = p THEN "nobody" ELSE lease
    BY <1>2 DEF Conflicts
  <2>2. y \in Process /\ y.pc = "ready" /\ y.tok = disk /\ y.eaten = FALSE
    BY NewIsGood DEF Off, Process, Inv, Types
  <2> HIDE DEF y
  <2>3. run' \in [Runners -> Process] /\ run'[p] = y /\ Moved(p)
    BY <2>1, <2>2, Snapshot DEF Moved
  <2>4. Place(y, disk, fails)
    <3>1. disk \in Checkpoint /\ Good(disk)
      BY Snapshot DEF Ok
    <3> QED BY <2>2, <3>1 DEF Place, Stage, InTurn, Synced, Checkpoint
  <2>5. crashes' \in Nat
    BY DEF Inv, Types
  <2> QED BY <2>1, <2>2, <2>3, <2>4, <2>5, Snapshot, Leave DEF InTurn
<1> QED BY <1>1, <1>2

\* A save that fails, before the file is replaced or after, or a call that raises.
LEMMA TroubleKeeps ==
  ASSUME Inv, NEW p \in Runners, run[p].pc \in InTurn \ {"turn"} \/ run[p].tok.fin = "none",
         run[p].pc \in InTurn,
         NEW pc \in {"handle", "handle2", "unsure"}, Goes(p, pc),
         pc # "handle" => run[p].tok.st = "executing",
         fails' = fails + 1, disk' = disk \/ (disk.fin = "none" /\ Ok(disk', asked, ran)),
         Wrote(p), pc = "unsure" => disk'.fin = "none",
         void' \subseteq Calls, VoidInv', UNCHANGED <<lease, claim, parent, asked, ran, crashes>>
  PROVE  Inv' /\ Drives(p)
<1>1. /\ run[p] \in Process /\ Place(run[p], disk, fails) /\ run \in [Runners -> Process]
      /\ Ok(disk, asked, ran) /\ fails \in Nat
  BY Snapshot
<1>2. run' = [run EXCEPT ![p].pc = pc]
  BY DEF Goes
<1>3. run' \in [Runners -> Process] /\ Moved(p)
  BY <1>1, <1>2 DEF Moved, Process, InTurn
<1>4. /\ run'[p].pc = pc /\ run'[p].tok = run[p].tok /\ run'[p].eaten = run[p].eaten
      /\ run'[p].again = run[p].again
  BY <1>1, <1>2 DEF Process
<1>5. Place(run'[p], disk', fails')
  <2>1. run[p].tok.fin = "none" /\ Good(run[p].tok) /\ run[p].tok.st \in Stages
        /\ (run[p].eaten => run[p].tok.st = "answered")
    BY <1>1 DEF Place, Process, Checkpoint
  <2>2. CASE pc = "handle"
    BY <1>1, <1>4, <2>1, <2>2 DEF Place, Stage, InTurn, Synced
  <2>3. CASE pc # "handle"
    <3>1. ~run[p].eaten
      BY <2>1, <2>3
    <3> QED BY <1>1, <1>4, <2>1, <2>3, <3>1 DEF Place, Stage, InTurn, Synced
  <2> QED BY <2>2, <2>3
<1>6. Pending(run'[p], asked', ran', void')
  BY <1>4 DEF Pending
<1>7. /\ asked' \in [Questions -> {0, 1}] /\ ran' \in [Calls -> {0, 1}]
  BY DEF Inv, Types
<1>8. fails' \in Nat /\ fails' >= fails /\ fails' # 0
  BY <1>1
<1>9. run'[p].pc \in InTurn
  BY <1>4 DEF InTurn
<1>10. Ok(disk', asked', ran') /\ (disk' = disk \/ disk.fin = "none")
  BY <1>1
<1>11. Drives(p)
  <2>1. run'[p].pc \in InTurn \ {"turn"}
    BY <1>4, <1>9
  <2> QED BY <1>3, <1>4, <1>8, <2>1, GoDrives
<1> QED BY <1>3, <1>5, <1>6, <1>7, <1>8, <1>9, <1>10, <1>11, GoOn

\* A save of the driver within a turn.
LEMMA SaveKeeps ==
  ASSUME Inv, NEW p \in Runners, run[p].pc \in InTurn, run[p].tok.fin = "none",
         NEW d, NEW pc \in {"own", "model", "send", "tool", "verify"},
         Fits(p) => /\ Ok(d, asked, ran) /\ d.fin = "none" /\ d.st \in Stage(pc)
                    /\ pc = "send" => asked[d.pos + 1] = 0
                    /\ pc = "verify" => ran[Current(d)] = 0,
         SaveAnd(p, d, pc), disk' = disk => void' = void,
         void' \subseteq Calls, VoidInv', UNCHANGED <<claim, parent, asked, ran, crashes>>
  PROVE  Inv' /\ Drives(p)
<1>1. /\ run[p] \in Process /\ Place(run[p], disk, fails) /\ run \in [Runners -> Process]
      /\ Ok(disk, asked, ran) /\ fails \in Nat /\ (fails = 0 => disk.fin # "FAILED")
  BY Snapshot
<1>2. asked \in [Questions -> {0, 1}] /\ ran \in [Calls -> {0, 1}]
  BY DEF Inv, Types
<1>3. CASE /\ Writes(p, d) /\ UNCHANGED lease
           /\ run' = [run EXCEPT ![p].tok = d, ![p].pc = pc, ![p].eaten = FALSE,
                                 ![p].fresh = FALSE]
  <2>1. /\ Fits(p) /\ disk' = d /\ fails' = fails /\ disk = run[p].tok
    BY <1>3 DEF Writes, Fits
  <2>2. /\ Ok(d, asked, ran) /\ d.fin = "none" /\ d.st \in Stage(pc) /\ d \in Checkpoint /\ Good(d)
        /\ pc = "send" => asked[d.pos + 1] = 0
        /\ pc = "verify" => ran[Current(d)] = 0
    BY <2>1 DEF Ok
  <2>3. run' \in [Runners -> Process] /\ Moved(p)
    BY <1>1, <1>3, <2>2 DEF Moved, Process, InTurn
  <2>4. /\ run'[p].pc = pc /\ run'[p].tok = d /\ run'[p].eaten = FALSE
        /\ run'[p].again = run[p].again
    BY <1>1, <1>3 DEF Process
  <2>5. Place(run'[p], disk', fails')
    BY <2>1, <2>2, <2>4 DEF Place, InTurn, Synced
  <2>6. Pending(run'[p], asked', ran', void')
    BY <2>2, <2>4 DEF Pending
  <2>7. run'[p].pc \in InTurn
    BY <2>4 DEF InTurn
  <2>8. /\ fails' \in Nat /\ fails' >= fails /\ disk.fin = "none" /\ disk'.fin # "FAILED"
        /\ Ok(disk', asked', ran')
    BY <1>1, <2>1, <2>2
  <2>9. UNCHANGED <<lease, claim, parent, crashes>>
    BY <1>3
  <2>10. Drives(p)
    <3>1. Wrote(p)
      BY <2>1, <2>2 DEF Wrote, Stage
    <3>2. run'[p].pc \in InTurn \ {"turn"} /\ run'[p].pc # "unsure"
      BY <2>4, <2>7
    <3> QED BY <2>1, <2>3, <2>4, <2>9, <3>1, <3>2, GoDrives
  <2> QED BY <1>2, <2>3, <2>5, <2>6, <2>7, <2>8, <2>9, <2>10, GoOn
<1>4. CASE Loses(p, d) /\ Goes(p, "handle") /\ UNCHANGED lease
  <2>1. Fits(p) /\ fails' = fails + 1 /\ disk' \in {disk, d} /\ disk = run[p].tok
    BY <1>4 DEF Loses, Fails, Fits
  <2>2. disk' = disk \/ (disk.fin = "none" /\ Ok(disk', asked, ran))
    BY <2>1
  <2>3. Wrote(p)
    BY <2>1 DEF Wrote, Stage
  <2> QED BY <1>4, <2>1, <2>2, <2>3, TroubleKeeps
<1>5. CASE ~Fits(p) /\ Conflicts(p, "CONFLICT") /\ UNCHANGED <<disk, fails>>
  BY <1>5, ConflictKeeps, ConflictDrives
<1> QED BY <1>3, <1>4, <1>5 DEF SaveAnd

\* The last save of a turn.
LEMMA FinishKeeps ==
  ASSUME Inv, NEW p \in Runners, run[p].pc \in InTurn, run[p].tok.fin = "none",
         NEW d, NEW result \in Finals, Finish(p, d, result),
         Fits(p) => /\ Ok(Finished(d, result), asked, ran) /\ Finished(d, result).fin = result
                    /\ Finished(d, result).st # "new"
                    /\ result = "COMPLETED" => Finished(d, result).st = "over",
         UNCHANGED <<claim, parent, asked, ran, void, crashes>>
  PROVE  Inv' /\ Drives(p)
<1>1. /\ Ok(disk, asked, ran) /\ fails \in Nat /\ (fails = 0 => disk.fin # "FAILED")
  BY Snapshot
<1>2. CASE Writes(p, Finished(d, result)) /\ Returns(p, result)
  <2>1. /\ Fits(p) /\ disk' = Finished(d, result) /\ fails' = fails /\ disk = run[p].tok
    BY <1>2 DEF Writes, Fits
  <2>2. Ok(disk', asked, ran) /\ disk'.fin = result /\ result \in AllResults /\ result # "FAILED"
    BY <2>1 DEF AllResults, Recorded, Finals
  <2>3. fails' \in Nat /\ fails' >= fails
    BY <1>1, <2>1
  <2>4. Wrote(p) /\ fails' \in {fails, fails + 1} /\ result # "BUSY"
    BY <2>1 DEF Wrote, Finals
  <2> QED BY <1>2, <2>1, <2>2, <2>3, <2>4, ReturnKeeps, ReturnDrives
<1>3. CASE Loses(p, Finished(d, result)) /\ Goes(p, "handle") /\ UNCHANGED lease
  <2>1. /\ Fits(p) /\ fails' = fails + 1 /\ disk' \in {disk, Finished(d, result)}
        /\ disk = run[p].tok
    BY <1>3 DEF Loses, Fails, Fits
  <2>2. disk' = disk \/ (disk.fin = "none" /\ Ok(disk', asked, ran))
    BY <2>1
  <2>3. void' \subseteq Calls /\ VoidInv'
    BY DEF Inv, Types, VoidInv, Live
  <2>4. Wrote(p)
    BY <2>1 DEF Wrote
  <2> QED BY <1>3, <2>1, <2>2, <2>3, <2>4, TroubleKeeps
<1>4. CASE ~Fits(p) /\ Conflicts(p, "CONFLICT") /\ UNCHANGED <<disk, fails>>
  BY <1>4, ConflictKeeps, ConflictDrives
<1> QED BY <1>2, <1>3, <1>4 DEF Finish

\* A save that is only tried, by whom something failed already.
LEMMA TryKeeps ==
  ASSUME Inv, NEW p \in Runners, run[p].pc \in InTurn, run[p].tok.fin = "none",
         NEW d, NEW result \in {"RECOVERY", "FAILED"}, fails > 0,
         TryFinish(p, d, result),
         Fits(p) => /\ Ok(Finished(d, result), asked, ran)
                    /\ Finished(d, result).fin = result /\ Finished(d, result).st # "new",
         UNCHANGED <<claim, parent, asked, ran, void, crashes>>
  PROVE  Inv' /\ Drives(p)
<1>1. /\ Ok(disk, asked, ran) /\ fails \in Nat
  BY Snapshot
<1>2. Returns(p, result)
  BY DEF TryFinish
<1>3. \/ disk' = disk
      \/ Fits(p) /\ disk' = Finished(d, result)
  BY DEF TryFinish, Writes, Loses
<1>4. fails' = fails \/ fails' = fails + 1
  BY DEF TryFinish, Writes, Loses, Fails
<1>5. fails' \in Nat /\ fails' >= fails /\ fails' # 0
  BY <1>1, <1>4
<1>6. Ok(disk', asked, ran) /\ (disk' = disk \/ disk.fin = "none")
  BY <1>1, <1>3 DEF Fits
<1>7. Wrote(p) /\ result \in AllResults
  BY <1>3 DEF Wrote, AllResults, Recorded, Finals
<1> QED BY <1>2, <1>4, <1>5, <1>6, <1>7, ReturnKeeps, ReturnDrives

-----------------------------------------------------------------------------
(* What is asked, and what runs                                            *)

\* The question of an open call of the provider is counted, and is the last counted.
LEMMA AskedKeeps ==
  ASSUME NEW d, NEW ak \in [Questions -> {0, 1}], NEW rn, Ok(d, ak, rn), d.st = "asking"
  PROVE  LET i == d.pos + 1 IN i \in Questions /\ Ok(d, [ak EXCEPT ![i] = 1], rn)
<1> DEFINE i == d.pos + 1
           a == [ak EXCEPT ![i] = 1]
<1>1. d \in Checkpoint /\ Good(d) /\ Covers(d, ak, rn)
  BY DEF Ok
<1>2. /\ d.pos \in Nat /\ d.models \in Nat /\ d.models <= ModelLimit /\ d.models = i
      /\ ModelLimit \in Nat
  BY <1>1, Numbers DEF Good
<1>3. i \in Questions
  BY <1>2 DEF Questions
<1>4. Unasked(d.models, a)
  <2> SUFFICES ASSUME NEW j \in Questions, j > d.models PROVE a[j] = 0
    BY DEF Unasked
  <2>1. j # i
    BY <1>2 DEF Questions
  <2>2. a[j] = ak[j]
    BY <2>1
  <2>3. ak[j] = 0
    BY <1>1 DEF Covers, Unasked
  <2> QED BY <2>2, <2>3
<1> HIDE DEF a
<1>5. Covers(d, a, rn)
  BY <1>1, <1>4 DEF Covers
<1>6. Ok(d, a, rn)
  BY <1>1, <1>5 DEF Ok
<1> QED BY <1>3, <1>6 DEF a

\* The call of an open call of a tool is counted, and is the last counted.
LEMMA RanKeeps ==
  ASSUME NEW d, NEW ak, NEW rn \in [Calls -> {0, 1}], Ok(d, ak, rn), d.st = "executing"
  PROVE  LET c == Current(d) IN c \in Calls /\ Ok(d, ak, [rn EXCEPT ![c] = 1])
<1> DEFINE cur == Current(d)
           n == [rn EXCEPT ![cur] = 1]
<1>1. d \in Checkpoint /\ Good(d) /\ Covers(d, ak, rn)
  BY DEF Ok
<1>2. d.pos \in Nat /\ d.at \in Nat
  BY <1>1, Numbers
<1>3. cur \in Calls /\ cur[1] = d.pos /\ cur[2] = d.at
  BY <1>1, CurrentIsCall
<1> HIDE DEF cur
<1>4. \A c \in Calls : c # cur => n[c] = rn[c]
  OBVIOUS
<1>5. n[cur] = 1 /\ \A c \in Calls : rn[c] \in {0, 1}
  BY <1>3
<1> HIDE DEF n
<1>6. Unrun(d.pos, n)
  <2> SUFFICES ASSUME NEW c \in Calls, c[1] > d.pos PROVE n[c] = 0
    BY DEF Unrun
  <2>1. c # cur
    BY <1>2, <1>3
  <2>2. rn[c] = 0
    BY <1>1 DEF Covers, Unrun
  <2> QED BY <2>1, <2>2, <1>4
<1>7. \A c \in Calls : c[1] = d.pos /\ c[2] > d.at => n[c] = 0
  <2> SUFFICES ASSUME NEW c \in Calls, c[1] = d.pos, c[2] > d.at PROVE n[c] = 0
    OBVIOUS
  <2>1. c # cur
    BY <1>2, <1>3
  <2>2. rn[c] = 0
    BY <1>1 DEF Covers
  <2> QED BY <2>1, <2>2, <1>4
<1>8. Counted(d, n) = Counted(d, rn)
  <2>1. Done(n) = Done(rn) \cup {cur}
    <3>1. \A c \in Calls : n[c] > 0 <=> (c = cur \/ rn[c] > 0)
      BY <1>4, <1>5
    <3> QED BY <3>1, <1>3 DEF Done
  <2>2. Counted(d, n) = Done(n) \cup {cur} /\ Counted(d, rn) = Done(rn) \cup {cur}
    BY DEF Counted, cur
  <2> QED BY <2>1, <2>2
<1>9. Covers(d, ak, n)
  BY <1>1, <1>6, <1>7, <1>8 DEF Covers
<1>10. Ok(d, ak, n)
  BY <1>1, <1>9 DEF Ok
<1> QED BY <1>3, <1>10 DEF n, cur

-----------------------------------------------------------------------------
(* The steps up to the driver                                              *)

\* What holds of a process in its turn.
LEMMA TurnFacts ==
  ASSUME Inv, NEW p \in Runners, run[p].pc \in InTurn
  PROVE  /\ run[p].pc # "turn" => run[p].tok.fin = "none"
         /\ run[p].pc \in Synced => disk = run[p].tok /\ Ok(run[p].tok, asked, ran)
         /\ Fits(p) => Ok(run[p].tok, asked, ran)
         /\ run[p].tok.st \in Stage(run[p].pc)
         /\ void \subseteq Calls /\ asked \in [Questions -> {0, 1}] /\ ran \in [Calls -> {0, 1}]
         /\ lease = p
<1>1. Place(run[p], disk, fails) /\ Ok(disk, asked, ran)
  BY Snapshot
<1> QED BY <1>1 DEF Place, Fits, Inv, Types, LeaseInv, Synced, InTurn

LEMMA VoidSame ==
  ASSUME Inv, UNCHANGED <<claim, ran, void>>
  PROVE  VoidInv' /\ void' \subseteq Calls
  BY DEF Inv, VoidInv, Live, Types

LEMMA StartKeeps ==
  ASSUME Inv, NEW p \in Runners, run[p].pc = "off",
         run' = [run EXCEPT ![p] = [Off EXCEPT !.pc = "ready", !.tok = disk]],
         UNCHANGED <<disk, lease, claim, parent, asked, ran, void, crashes, fails>>
  PROVE  Inv'
<1> DEFINE y == [Off EXCEPT !.pc = "ready", !.tok = disk]
<1>1. run' = [run EXCEPT ![p] = y]
  OBVIOUS
<1>2. y \in Process /\ y.pc = "ready" /\ y.tok = disk /\ y.eaten = FALSE
  BY NewIsGood DEF Off, Process, Inv, Types
<1> HIDE DEF y
<1>3. run' \in [Runners -> Process] /\ run'[p] = y /\ Moved(p)
  BY <1>1, <1>2, Snapshot DEF Moved
<1>4. Place(y, disk, fails)
  <2>1. disk \in Checkpoint /\ Good(disk)
    BY Snapshot DEF Ok
  <2> QED BY <1>2, <2>1 DEF Place, Stage, InTurn, Synced, Checkpoint
<1>5. Types'
  BY <1>3 DEF Inv, Types
<1>6. Pending(y, asked, ran, void)
  BY <1>2 DEF Pending
<1>7. DiskInv' /\ VoidInv' /\ CrashIsNotFailure' /\ fails' >= fails
  BY Snapshot DEF Inv, DiskInv, VoidInv, Live, CrashIsNotFailure
<1>8. run'[p].pc \notin InTurn
  BY <1>2, <1>3 DEF InTurn
<1> QED BY <1>3, <1>4, <1>5, <1>6, <1>7, <1>8, StepKeeps

LEMMA TakeKeeps ==
  ASSUME Inv, NEW p \in Runners, Take(p)
  PROVE  Inv'
<1>1. run[p].pc = "ready" /\ UNCHANGED <<disk, claim, parent, asked, ran, void, crashes, fails>>
  BY DEF Take, At
<1>2. CASE lease = "nobody" /\ lease' = p /\ Goes(p, "turn")
  <2>1. run' = [run EXCEPT ![p].pc = "turn"] /\ run \in [Runners -> Process]
    BY <1>2, Snapshot DEF Goes
  <2>2. run' \in [Runners -> Process] /\ Moved(p)
    BY <2>1 DEF Moved, Process, InTurn
  <2>3. run'[p].pc = "turn" /\ run'[p].tok = run[p].tok /\ run'[p].eaten = run[p].eaten
    BY <2>1 DEF Process
  <2>4. Place(run'[p], disk', fails')
    <3>1. /\ Place(run[p], disk, fails) /\ run[p].tok \in Checkpoint
      BY Snapshot
    <3> QED BY <1>1, <2>3, <3>1 DEF Place, Stage, InTurn, Synced, Checkpoint
  <2>5. Pending(run'[p], asked', ran', void')
    BY <2>3 DEF Pending
  <2>6. Types'
    BY <1>1, <1>2, <2>2 DEF Inv, Types
  <2>7. DiskInv' /\ VoidInv' /\ CrashIsNotFailure' /\ fails' >= fails
    BY <1>1, Snapshot DEF Inv, DiskInv, VoidInv, Live, CrashIsNotFailure
  <2>8. \A q \in Runners : q # p /\ lease = q => lease' = q
    BY <1>2 DEF Runners
  <2> QED BY <1>1, <1>2, <2>2, <2>4, <2>5, <2>6, <2>7, <2>8, StepKeeps
<1>3. CASE lease # "nobody" /\ Conflicts(p, "BUSY")
  BY <1>1, <1>3, ConflictKeeps
<1> QED BY <1>2, <1>3 DEF Take

LEMMA AcceptKeeps ==
  ASSUME Inv, NEW p \in Runners, Accept(p)
  PROVE  Inv' /\ Drives(p)
<1>1. /\ run[p].pc = "turn" /\ run[p].tok.st = "new" /\ SaveAnd(p, Accepted(run[p].tok), "own")
      /\ UNCHANGED <<claim, parent, asked, ran, void, crashes>> /\ run[p].pc \in InTurn
  BY DEF Accept, At, InTurn
<1>2. run[p].tok.fin = "none"
  <2>1. Good(run[p].tok)
    BY Snapshot
  <2> QED BY <1>1, <2>1 DEF Good, Terminal
<1>3. Fits(p) => /\ Ok(Accepted(run[p].tok), asked, ran) /\ Accepted(run[p].tok).fin = "none"
                 /\ Accepted(run[p].tok).st \in Stage("own")
  BY <1>1, TurnFacts, AcceptedKeeps DEF Stage
<1>4. VoidInv' /\ void' \subseteq Calls
  BY <1>1, VoidSame
<1> QED BY <1>1, <1>2, <1>3, <1>4, SaveKeeps

LEMMA OwnKeeps ==
  ASSUME Inv, NEW p \in Runners, Own(p)
  PROVE  Inv' /\ Drives(p)
<1> DEFINE d == Claimed(run[p].tok)
<1>1. /\ run[p].pc = "own" /\ run[p].pc \in InTurn /\ run[p].pc \in Synced
      /\ UNCHANGED <<claim, parent, asked, ran, void, crashes>>
  BY DEF Own, At, InTurn, Synced
<1>2. /\ run[p].tok.fin = "none" /\ disk = run[p].tok /\ Ok(run[p].tok, asked, ran)
      /\ run[p].tok.st = "model" /\ asked \in [Questions -> {0, 1}] /\ ran \in [Calls -> {0, 1}]
  BY <1>1, TurnFacts DEF Stage
<1>3. Ok(d, asked, ran) /\ d.fin = "none" /\ d.st = "model" /\ d \in Checkpoint /\ Good(d)
  BY <1>2, ClaimedKeeps DEF Ok
<1>4. VoidInv' /\ void' \subseteq Calls
  BY <1>1, VoidSame
<1>5. /\ run \in [Runners -> Process] /\ Place(run[p], disk, fails) /\ fails \in Nat
  BY Snapshot
<1>6. CASE /\ Writes(p, d) /\ UNCHANGED lease
           /\ run' = [run EXCEPT ![p].tok = d, ![p].pc = "model", ![p].fresh = TRUE]
  <2> HIDE DEF d
  <2>1. run' \in [Runners -> Process] /\ Moved(p)
    <3> DEFINE y == [run[p] EXCEPT !.tok = d, !.pc = "model", !.fresh = TRUE]
    <3>1. d \in Checkpoint /\ "model" \in InTurn /\ run[p] \in Process
      BY <1>3, <1>5 DEF InTurn
    <3>2. y \in Process
      BY <3>1 DEF Process
    <3>3. run' = [run EXCEPT ![p] = y]
      BY <1>6
    <3> HIDE DEF y
    <3> QED BY <1>5, <3>2, <3>3 DEF Moved
  <2>2. /\ run'[p].pc = "model" /\ run'[p].tok = d /\ run'[p].eaten = run[p].eaten
        /\ run'[p].again = run[p].again
    BY <1>5, <1>6 DEF Process
  <2>3. disk' = d /\ fails' = fails
    BY <1>6 DEF Writes
  <2>4. Place(run'[p], disk', fails')
    BY <1>1, <1>3, <1>5, <2>2, <2>3 DEF Place, Stage, InTurn, Synced
  <2>5. Pending(run'[p], asked', ran', void') /\ run'[p].pc \in InTurn
    BY <2>2 DEF Pending, InTurn
  <2>6. Ok(disk', asked', ran') /\ disk.fin = "none" /\ disk'.fin # "FAILED"
    BY <1>1, <1>2, <1>3, <2>3
  <2>7. /\ asked' \in [Questions -> {0, 1}] /\ ran' \in [Calls -> {0, 1}]
        /\ fails' \in Nat /\ fails' >= fails /\ UNCHANGED <<lease, claim, parent, crashes>>
    BY <1>1, <1>2, <1>5, <1>6, <2>3
  <2>8. Wrote(p)
    BY <1>2, <1>3, <2>3 DEF Wrote, Fits
  <2>9. Drives(p)
    BY <2>1, <2>2, <2>3, <2>5, <2>7, <2>8, GoDrives
  <2> QED BY <1>1, <1>4, <2>1, <2>4, <2>5, <2>6, <2>7, <2>9, GoOn
<1>7. CASE Loses(p, d) /\ Goes(p, "handle") /\ UNCHANGED lease
  <2>1. fails' = fails + 1 /\ disk' \in {disk, d}
    BY <1>7 DEF Loses, Fails
  <2>2. disk' = disk \/ (disk.fin = "none" /\ Ok(disk', asked, ran))
    BY <1>2, <1>3, <2>1
  <2>3. Wrote(p)
    BY <1>2, <1>3, <2>1 DEF Wrote, Fits
  <2> QED BY <1>1, <1>2, <1>4, <1>7, <2>1, <2>2, <2>3, TroubleKeeps
<1>8. CASE ~Fits(p) /\ Conflicts(p, "CONFLICT") /\ UNCHANGED <<disk, fails>>
  BY <1>1, <1>8, ConflictKeeps, ConflictDrives
<1> QED BY <1>6, <1>7, <1>8 DEF Own

\* A turn that ends with the run in one of its ends.
LEMMA EndOfTurn ==
  ASSUME Inv, NEW p \in Runners, run[p].pc \in InTurn, run[p].tok.fin = "none",
         NEW m, Fits(p) => Ok(m, asked, ran), NEW result \in Finals,
         NEW e \in {Unknown(m), Ended(m)} \cup {Stopped(m, st) : st \in Terminal},
         result = "COMPLETED" => e = Ended(m),
         Finish(p, e, result), UNCHANGED <<claim, parent, asked, ran, void, crashes>>
  PROVE  Inv' /\ Drives(p)
<1>1. result \in Recorded \ {"none"}
  BY DEF Recorded, Finals
<1>2. Fits(p) => /\ Ok(Finished(e, result), asked, ran) /\ Finished(e, result).fin = result
                 /\ Finished(e, result).st \in Terminal
                 /\ e = Ended(m) => Finished(e, result).st = "over"
  BY <1>1, EndKeeps
<1>3. Finished(e, result).st \in Terminal => Finished(e, result).st # "new"
  BY DEF Terminal
<1> QED BY <1>2, <1>3, FinishKeeps

LEMMA ReplayKeeps ==
  ASSUME Inv, NEW p \in Runners, Replay(p)
  PROVE  Inv' /\ Drives(p)
<1> DEFINE d == run[p].tok
<1>1. /\ run[p].pc = "turn" /\ run[p].pc \in InTurn /\ d.st # "new"
      /\ UNCHANGED <<claim, parent, asked, ran, void, crashes>>
  BY DEF Replay, At, InTurn
<1>2. /\ Fits(p) => Ok(d, asked, ran)
      /\ asked \in [Questions -> {0, 1}] /\ ran \in [Calls -> {0, 1}]
  BY <1>1, TurnFacts
<1>3. /\ Place(run[p], disk, fails) /\ d \in Checkpoint /\ Good(d) /\ Ok(disk, asked, ran)
      /\ fails \in Nat /\ (fails = 0 => disk.fin # "FAILED")
  BY Snapshot
<1>4. VoidInv' /\ void' \subseteq Calls
  BY <1>1, VoidSame
<1>5. CASE d.fin # "none" /\ Returns(p, d.fin) /\ UNCHANGED <<disk, fails>>
  <2>1. disk = d /\ d.fin \in Recorded /\ d.fin \in AllResults
    BY <1>3, <1>5 DEF Place, Checkpoint, AllResults
  <2>2. fails = 0 => d.fin \in {"BUSY", "CONFLICT"} \/ (d.fin \in Finals /\ disk'.fin = d.fin)
    BY <1>3, <1>5, <2>1 DEF Recorded
  <2>3. fails' \in Nat /\ fails' >= fails /\ disk' = disk /\ fails' = fails
    BY <1>3, <1>5
  <2>4. d.fin # "BUSY" /\ Wrote(p) /\ fails' \in {fails, fails + 1}
    BY <1>3, <1>5, <2>1 DEF Wrote, Checkpoint, Recorded, Finals
  <2> QED BY <1>1, <1>3, <1>5, <2>1, <2>2, <2>3, <2>4, ReturnKeeps, ReturnDrives
<1>6. CASE d.fin = "none" /\ d.st = "asking" /\ Finish(p, Unknown(d), "UNKNOWN")
  <2>1. Unknown(d) \in {Unknown(d), Ended(d)} /\ "UNKNOWN" \in Finals
    BY DEF Finals
  <2> QED BY <1>1, <1>2, <1>6, <2>1, EndOfTurn
<1>7. CASE d.fin = "none" /\ d.st = "executing" /\ Finish(p, Stopped(d, "recovery"), "RECOVERY")
  <2>1. "RECOVERY" \in Finals /\ Stopped(d, "recovery") \in {Stopped(d, st) : st \in Terminal}
    BY DEF Finals, Terminal
  <2> QED BY <1>1, <1>2, <1>7, <2>1, EndOfTurn
<1>8. CASE /\ d.fin = "none" /\ Reclaimable(d)
           /\ SaveAnd(p, Claimed(d), IF d.st = "tool" THEN "tool" ELSE "model")
  <2> DEFINE pc == IF d.st = "tool" THEN "tool" ELSE "model"
  <2>1. Fits(p) => /\ Ok(Claimed(d), asked, ran) /\ Claimed(d).fin = "none"
                   /\ Claimed(d).st = d.st
    BY <1>2, <1>8, ClaimedKeeps
  <2>2. d.st \in Stage(pc) /\ pc \in {"own", "model", "send", "tool", "verify"}
        /\ pc # "send" /\ pc # "verify"
    BY <1>8 DEF Stage, Reclaimable
  <2>3. SaveAnd(p, Claimed(d), pc)
    BY <1>8
  <2> HIDE DEF pc
  <2> QED BY <1>1, <1>4, <1>8, <2>1, <2>2, <2>3, SaveKeeps
<1>9. CASE d.fin = "none" /\ ~Reclaimable(d) /\ d.st \notin {"asking", "executing"}
  BY <1>1, <1>3, <1>9 DEF Good, Reclaimable, Checkpoint, Stages
<1> QED BY <1>5, <1>6, <1>7, <1>8, <1>9 DEF Replay

-----------------------------------------------------------------------------
(* The steps of the driver at the provider                                 *)

\* A move within the turn that saves nothing.
LEMMA MoveKeeps ==
  ASSUME Inv, NEW p \in Runners, run[p].pc \in InTurn,
         run' \in [Runners -> Process], Moved(p), run'[p].pc \in InTurn,
         run'[p].pc # "turn", run'[p].again = run[p].again,
         run'[p].pc = "unsure" => disk.fin = "none" /\ disk = run'[p].tok,
         UNCHANGED <<disk, lease, claim, parent, asked, ran, void, crashes, fails>>,
         Place(run'[p], disk, fails), Pending(run'[p], asked, ran, void)
  PROVE  Inv' /\ Drives(p)
<1>1. /\ Ok(disk, asked, ran) /\ fails \in Nat /\ (fails = 0 => disk.fin # "FAILED")
  BY Snapshot
<1>2. /\ asked' \in [Questions -> {0, 1}] /\ ran' \in [Calls -> {0, 1}]
      /\ void' \subseteq Calls /\ VoidInv'
  BY TurnFacts, VoidSame
<1>3. fails' \in Nat /\ fails' >= fails
  BY <1>1
<1>4. Drives(p)
  <2>1. Wrote(p) /\ fails' \in {fails, fails + 1}
    BY DEF Wrote
  <2>2. run'[p].pc \in InTurn \ {"turn"}
    OBVIOUS
  <2> QED BY <2>1, <2>2, GoDrives
<1> QED BY <1>1, <1>2, <1>3, <1>4, GoOn

LEMMA TakeUpKeeps ==
  ASSUME Inv, NEW p \in Runners, TakeUp(p)
  PROVE  Inv' /\ Drives(p)
<1> DEFINE d == run[p].tok
<1>1. /\ run[p].pc = "model" /\ run[p].pc \in InTurn /\ d.st = "answered"
      /\ run[p].pc \in Synced
      /\ UNCHANGED <<claim, parent, asked, ran, void, crashes>>
  BY DEF TakeUp, At, InTurn, Synced
<1>2. d.fin = "none" /\ disk = d /\ (Fits(p) => Ok(d, asked, ran))
  BY <1>1, TurnFacts
<1>3. CASE /\ run' = [run EXCEPT ![p].eaten = TRUE, ![p].pc = "reduce"]
           /\ UNCHANGED <<disk, lease, fails>>
  <2>1. run \in [Runners -> Process] /\ Place(run[p], disk, fails)
    BY Snapshot
  <2>2. run' \in [Runners -> Process] /\ Moved(p)
    <3> DEFINE y == [run[p] EXCEPT !.eaten = TRUE, !.pc = "reduce"]
    <3>1. TRUE \in BOOLEAN /\ "reduce" \in InTurn /\ run[p] \in Process
      BY <2>1 DEF InTurn
    <3>2. y \in Process
      BY <3>1 DEF Process
    <3>3. run' = [run EXCEPT ![p] = y]
      BY <1>3
    <3> HIDE DEF y
    <3> QED BY <2>1, <3>2, <3>3 DEF Moved
  <2>3. /\ run'[p].pc = "reduce" /\ run'[p].tok = d /\ run'[p].eaten = TRUE
        /\ run'[p].again = run[p].again
    BY <2>1, <1>3 DEF Process
  <2>4. Place(run'[p], disk, fails)
    BY <1>1, <1>2, <2>1, <2>3 DEF Place, Stage, InTurn, Synced
  <2>5. Pending(run'[p], asked, ran, void) /\ run'[p].pc \in InTurn
    BY <2>3 DEF Pending, InTurn
  <2> QED BY <1>1, <1>3, <2>2, <2>3, <2>4, <2>5, MoveKeeps
<1>4. CASE Finish(p, Unknown(d), "MISMATCH") \/ Finish(p, Ended(d), "LIMIT")
  <2>1. "MISMATCH" \in Finals /\ "LIMIT" \in Finals
    BY DEF Finals
  <2> QED BY <1>1, <1>2, <1>4, <2>1, EndOfTurn
<1> QED BY <1>3, <1>4 DEF TakeUp

LEMMA LimitKeeps ==
  ASSUME Inv, NEW p \in Runners, Limit(p)
  PROVE  Inv' /\ Drives(p)
<1> DEFINE d == run[p].tok
<1>1. /\ run[p].pc \in {"model", "tool"} /\ run[p].pc \in InTurn
      /\ UNCHANGED <<claim, parent, asked, ran, void, crashes>>
      /\ Finish(p, Stopped(d, "paused"), "LIMIT") \/ Finish(p, Ended(d), "LIMIT")
  BY DEF Limit, At, InTurn
<1>2. d.fin = "none" /\ (Fits(p) => Ok(d, asked, ran))
  BY <1>1, TurnFacts
<1>3. "LIMIT" \in Finals /\ Stopped(d, "paused") \in {Stopped(d, st) : st \in Terminal}
  BY DEF Finals, Terminal
<1> QED BY <1>1, <1>2, <1>3, EndOfTurn

LEMMA AskKeeps ==
  ASSUME Inv, NEW p \in Runners, Ask(p)
  PROVE  Inv' /\ Drives(p)
<1> DEFINE d == run[p].tok
<1>1. /\ run[p].pc = "model" /\ run[p].pc \in InTurn /\ d.st = "model"
      /\ UNCHANGED <<claim, parent, asked, ran, void, crashes>>
  BY DEF Ask, At, InTurn
<1>2. d.fin = "none" /\ (Fits(p) => Ok(d, asked, ran))
  BY <1>1, TurnFacts
<1>3. CASE \/ Finish(p, Stopped(d, "paused"), "LIMIT")
           \/ Finish(p, Stopped(d, "disclosure"), "DISCLOSURE")
  <2>1. /\ {Stopped(d, "paused"), Stopped(d, "disclosure")} \subseteq {Stopped(d, st) : st \in Terminal}
        /\ "LIMIT" \in Finals /\ "DISCLOSURE" \in Finals
    BY DEF Finals, Terminal
  <2> QED BY <1>1, <1>2, <1>3, <2>1, EndOfTurn
<1>4. CASE d.models < ModelLimit /\ SaveAnd(p, Asking(d), "send")
  <2>1. Fits(p) => /\ Ok(Asking(d), asked, ran) /\ Asking(d).fin = "none"
                   /\ Asking(d).st \in Stage("send") /\ asked[Asking(d).pos + 1] = 0
    BY <1>1, <1>2, <1>4, AskingKeeps DEF Stage
  <2>2. VoidInv' /\ void' \subseteq Calls
    BY <1>1, VoidSame
  <2> QED BY <1>1, <1>2, <1>4, <2>1, <2>2, SaveKeeps
<1> QED BY <1>3, <1>4 DEF Ask

LEMMA SendKeeps ==
  ASSUME Inv, NEW p \in Runners, Send(p)
  PROVE  Inv' /\ Drives(p)
<1> DEFINE d == run[p].tok
           i == d.pos + 1
<1>1. /\ run[p].pc = "send" /\ run[p].pc \in InTurn /\ run[p].pc \in Synced
      /\ asked' = [asked EXCEPT ![i] = Once(@)]
      /\ UNCHANGED <<disk, lease, claim, parent, ran, void, crashes, fails>>
  BY DEF Send, At, InTurn, Synced
<1>2. /\ d.fin = "none" /\ disk = d /\ Ok(d, asked, ran) /\ d.st = "asking"
      /\ asked \in [Questions -> {0, 1}] /\ ran \in [Calls -> {0, 1}]
  BY <1>1, TurnFacts DEF Stage
<1>3. /\ run \in [Runners -> Process] /\ Place(run[p], disk, fails) /\ fails \in Nat
      /\ Pending(run[p], asked, ran, void) /\ (fails = 0 => disk.fin # "FAILED")
  BY Snapshot
<1>4. i \in Questions /\ Ok(d, [asked EXCEPT ![i] = 1], ran)
  BY <1>2, AskedKeeps
<1>5. asked[i] = 0
  BY <1>1, <1>3 DEF Pending
<1>6. asked' = [asked EXCEPT ![i] = 1]
  BY <1>1, <1>2, <1>4, <1>5 DEF Once
<1>7. asked' \in [Questions -> {0, 1}] /\ Ok(disk', asked', ran')
  BY <1>1, <1>2, <1>4, <1>6
<1>8. VoidInv' /\ void' \subseteq Calls
  BY <1>1, VoidSame
<1>9. fails' \in Nat /\ fails' >= fails
  BY <1>1, <1>3
<1>12. Wrote(p) /\ fails' \in {fails, fails + 1}
  BY <1>1 DEF Wrote
<1>10. CASE \E r \in Answers : run' = [run EXCEPT ![p].pc = "got", ![p].resp = r]
  <2>1. PICK r \in Answers : run' = [run EXCEPT ![p].pc = "got", ![p].resp = r]
    BY <1>10
  <2>2. run' \in [Runners -> Process] /\ Moved(p)
    <3> DEFINE y == [run[p] EXCEPT !.pc = "got", !.resp = r]
    <3>1. r \in Answers \cup {<<>>} /\ "got" \in InTurn /\ run[p] \in Process
      BY <1>3 DEF InTurn
    <3>2. y \in Process
      BY <3>1 DEF Process
    <3>3. run' = [run EXCEPT ![p] = y]
      BY <2>1
    <3> HIDE DEF y
    <3> QED BY <1>3, <3>2, <3>3 DEF Moved
  <2>3. /\ run'[p].pc = "got" /\ run'[p].tok = d /\ run'[p].eaten = run[p].eaten
        /\ run'[p].resp = r /\ run'[p].again = run[p].again
    BY <1>3, <2>1 DEF Process
  <2>4. Place(run'[p], disk', fails')
    BY <1>1, <1>2, <1>3, <2>3 DEF Place, Stage, InTurn, Synced
  <2>5. Pending(run'[p], asked', ran', void') /\ run'[p].pc \in InTurn
    BY <2>3 DEF Pending, InTurn
  <2>6. run'[p].pc \in InTurn \ {"turn"} /\ run'[p].pc # "unsure"
    BY <2>3, <2>5
  <2>7. Drives(p)
    BY <1>1, <1>12, <2>2, <2>3, <2>6, GoDrives
  <2> QED BY <1>1, <1>2, <1>3, <1>7, <1>8, <1>9, <2>2, <2>4, <2>5, <2>7, GoOn
<1>11. CASE Goes(p, "lost")
  <2>1. run' = [run EXCEPT ![p].pc = "lost"]
    BY <1>11 DEF Goes
  <2>2. run' \in [Runners -> Process] /\ Moved(p)
    BY <2>1, <1>3 DEF Moved, Process, InTurn
  <2>3. /\ run'[p].pc = "lost" /\ run'[p].tok = d /\ run'[p].eaten = run[p].eaten
        /\ run'[p].again = run[p].again
    BY <1>3, <2>1 DEF Process
  <2>4. Place(run'[p], disk', fails')
    BY <1>1, <1>2, <1>3, <2>3 DEF Place, Stage, InTurn, Synced
  <2>5. Pending(run'[p], asked', ran', void') /\ run'[p].pc \in InTurn
    BY <2>3 DEF Pending, InTurn
  <2>6. run'[p].pc \in InTurn \ {"turn"} /\ run'[p].pc # "unsure"
    BY <2>3, <2>5
  <2>7. Drives(p)
    BY <1>1, <1>12, <2>2, <2>3, <2>6, GoDrives
  <2> QED BY <1>1, <1>2, <1>3, <1>7, <1>8, <1>9, <2>2, <2>4, <2>5, <2>7, GoOn
<1> QED BY <1>10, <1>11 DEF Send

LEMMA LostKeeps ==
  ASSUME Inv, NEW p \in Runners, Lost(p)
  PROVE  Inv' /\ Drives(p)
<1> DEFINE d == run[p].tok
<1>1. /\ run[p].pc = "lost" /\ run[p].pc \in InTurn /\ Finish(p, Unknown(d), "UNKNOWN")
      /\ UNCHANGED <<claim, parent, asked, ran, void, crashes>>
  BY DEF Lost, At, InTurn
<1>2. d.fin = "none" /\ (Fits(p) => Ok(d, asked, ran)) /\ "UNKNOWN" \in Finals
  BY <1>1, TurnFacts DEF Finals
<1> QED BY <1>1, <1>2, EndOfTurn

LEMMA KeepKeeps ==
  ASSUME Inv, NEW p \in Runners, Keep(p)
  PROVE  Inv' /\ Drives(p)
<1> DEFINE d == Answered(run[p].tok, run[p].resp)
<1>1. /\ run[p].pc = "got" /\ run[p].pc \in InTurn /\ run[p].pc \in Synced
      /\ UNCHANGED <<claim, parent, asked, ran, void, crashes>>
  BY DEF Keep, At, InTurn, Synced
<1>2. /\ run[p].tok.fin = "none" /\ disk = run[p].tok /\ Ok(run[p].tok, asked, ran)
      /\ run[p].tok.st = "asking" /\ asked \in [Questions -> {0, 1}] /\ ran \in [Calls -> {0, 1}]
  BY <1>1, TurnFacts DEF Stage
<1>3. /\ run \in [Runners -> Process] /\ Place(run[p], disk, fails) /\ fails \in Nat
  BY Snapshot
<1>4. Ok(d, asked, ran) /\ d.fin = "none" /\ d.st = "answered" /\ d \in Checkpoint /\ Good(d)
  <2>1. run[p].resp \in Answers
    BY <1>1, <1>3 DEF Place
  <2> QED BY <1>2, <2>1, AnsweredKeeps DEF Ok
<1>5. VoidInv' /\ void' \subseteq Calls
  BY <1>1, VoidSame
<1> HIDE DEF d
<1>6. CASE /\ Writes(p, d) /\ UNCHANGED lease
           /\ run' = [run EXCEPT ![p].tok = d, ![p].eaten = TRUE, ![p].fresh = FALSE,
                                 ![p].resp = <<>>, ![p].pc = "reduce"]
  <2>1. run' \in [Runners -> Process] /\ Moved(p)
    <3>1. d \in Checkpoint /\ "reduce" \in InTurn /\ <<>> \in Answers \cup {<<>>}
      BY <1>4 DEF InTurn
    <3>2. [run[p] EXCEPT !.tok = d, !.eaten = TRUE, !.fresh = FALSE,
                         !.resp = <<>>, !.pc = "reduce"] \in Process
      BY <3>1, <1>3 DEF Process
    <3>3. run' = [run EXCEPT ![p] = [run[p] EXCEPT !.tok = d, !.eaten = TRUE, !.fresh = FALSE,
                                                   !.resp = <<>>, !.pc = "reduce"]]
      BY <1>3, <1>6
    <3> QED BY <3>2, <3>3, <1>3 DEF Moved
  <2>2. /\ run'[p].pc = "reduce" /\ run'[p].tok = d /\ run'[p].eaten = TRUE
        /\ run'[p].again = run[p].again
    BY <1>3, <1>6 DEF Process
  <2>3. disk' = d /\ fails' = fails
    BY <1>6 DEF Writes
  <2>4. Place(run'[p], disk', fails')
    BY <1>1, <1>3, <1>4, <2>2, <2>3 DEF Place, Stage, InTurn, Synced
  <2>5. Pending(run'[p], asked', ran', void') /\ run'[p].pc \in InTurn
    BY <2>2 DEF Pending, InTurn
  <2>6. Ok(disk', asked', ran') /\ disk.fin = "none" /\ disk'.fin # "FAILED"
    BY <1>1, <1>2, <1>4, <2>3
  <2>7. /\ asked' \in [Questions -> {0, 1}] /\ ran' \in [Calls -> {0, 1}]
        /\ fails' \in Nat /\ fails' >= fails /\ UNCHANGED <<lease, claim, parent, crashes>>
    BY <1>1, <1>2, <1>3, <1>6, <2>3
  <2>8. Wrote(p)
    BY <1>2, <1>4, <2>3 DEF Wrote, Fits
  <2>9. Drives(p)
    <3>1. run'[p].pc \in InTurn \ {"turn"} /\ run'[p].pc # "unsure"
      BY <2>2, <2>5
    <3> QED BY <2>1, <2>2, <2>3, <2>7, <2>8, <3>1, GoDrives
  <2> QED BY <1>1, <1>5, <2>1, <2>4, <2>5, <2>6, <2>7, <2>9, GoOn
<1>7. CASE Loses(p, d) /\ Goes(p, "handle") /\ UNCHANGED lease
  <2>1. fails' = fails + 1 /\ disk' \in {disk, d}
    BY <1>7 DEF Loses, Fails
  <2>2. disk' = disk \/ (disk.fin = "none" /\ Ok(disk', asked, ran))
    BY <1>2, <1>4, <2>1
  <2>3. Wrote(p)
    BY <1>2, <1>4, <2>1 DEF Wrote, Fits
  <2> QED BY <1>1, <1>2, <1>5, <1>7, <2>1, <2>2, <2>3, TroubleKeeps
<1>8. CASE ~Fits(p) /\ Conflicts(p, "CONFLICT") /\ UNCHANGED <<disk, fails>>
  BY <1>1, <1>8, ConflictKeeps, ConflictDrives
<1> QED BY <1>6, <1>7, <1>8 DEF Keep, d

LEMMA ReduceKeeps ==
  ASSUME Inv, NEW p \in Runners, Reduce(p)
  PROVE  Inv' /\ Drives(p)
<1> DEFINE d == run[p].tok
           r == d.answer
           m == Consumed(d)
<1>1. /\ run[p].pc = "reduce" /\ run[p].pc \in InTurn /\ run[p].pc \in Synced
      /\ UNCHANGED <<claim, parent, asked, ran, void, crashes>>
  BY DEF Reduce, At, InTurn, Synced
<1>2. d.fin = "none" /\ Ok(d, asked, ran) /\ d.st = "answered"
  BY <1>1, TurnFacts DEF Stage
<1>3. Mem(p) = m
  <2>1. Place(run[p], disk, fails)
    BY Snapshot
  <2>2. run[p].eaten
    BY <1>1, <2>1 DEF Place
  <2> QED BY <2>2 DEF Mem
<1>4. Ok(m, asked, ran) /\ m.fin = "none" /\ m.st = "model"
  BY <1>2, ConsumedKeeps
<1>5. VoidInv' /\ void' \subseteq Calls
  BY <1>1, VoidSame
<1>6. CASE \/ Finish(p, Ended(Mem(p)), "COMPLETED") \/ Finish(p, Ended(Mem(p)), "INVALID")
           \/ Finish(p, Stopped(Mem(p), "paused"), "LIMIT")
  <2> HIDE DEF m
  <2>1. /\ Stopped(m, "paused") \in {Stopped(m, st) : st \in Terminal}
        /\ "LIMIT" \in Finals /\ "COMPLETED" \in Finals /\ "INVALID" \in Finals
    BY DEF Finals, Terminal
  <2> QED BY <1>1, <1>2, <1>3, <1>4, <1>6, <2>1, EndOfTurn
<1>7. CASE r = <<"control">> /\ SaveAnd(p, Mem(p), "model")
  <2>1. m.st \in Stage("model")
    BY <1>4 DEF Stage
  <2> HIDE DEF m
  <2> QED BY <1>1, <1>2, <1>3, <1>4, <1>5, <1>7, <2>1, SaveKeeps
<1>8. CASE r \in Batches /\ SaveAnd(p, Started(Mem(p), r), "tool")
  <2> DEFINE e == Started(m, r)
  <2>1. Ok(e, asked, ran) /\ e.fin = "none" /\ e.st = "tool"
    BY <1>2, <1>8, StartedKeeps
  <2>2. e.st \in Stage("tool")
    BY <2>1 DEF Stage
  <2>3. SaveAnd(p, e, "tool")
    BY <1>3, <1>8
  <2> HIDE DEF e
  <2> QED BY <1>1, <1>2, <1>5, <2>1, <2>2, <2>3, SaveKeeps
<1> QED BY <1>6, <1>7, <1>8 DEF Reduce

-----------------------------------------------------------------------------
(* The steps of the driver at the tools                                    *)

LEMMA PrepareKeeps ==
  ASSUME Inv, NEW p \in Runners, Prepare(p)
  PROVE  Inv' /\ Drives(p)
<1> DEFINE d == run[p].tok
<1>1. /\ run[p].pc = "tool" /\ run[p].pc \in InTurn /\ run[p].pc \in Synced
      /\ UNCHANGED <<claim, parent, asked, ran, void, crashes>>
  BY DEF Prepare, At, InTurn, Synced
<1>2. d.fin = "none" /\ disk = d /\ Ok(d, asked, ran) /\ d.st = "tool"
  BY <1>1, TurnFacts DEF Stage
<1>3. VoidInv' /\ void' \subseteq Calls
  BY <1>1, VoidSame
<1>4. CASE SaveAnd(p, Advanced(d), After(Advanced(d)))
  <2> DEFINE e == Advanced(d)
             pc == After(e)
  <2>1. Ok(e, asked, ran) /\ e.fin = "none" /\ e.st = After(e) /\ e.st \in {"tool", "model"}
    BY <1>2, AdvancedKeeps
  <2>2. e.st \in Stage(pc) /\ pc \in {"model", "tool"}
    BY <2>1 DEF Stage
  <2>3. SaveAnd(p, e, pc)
    BY <1>4
  <2> HIDE DEF e, pc
  <2> QED BY <1>1, <1>2, <1>3, <2>1, <2>2, <2>3, SaveKeeps
<1>5. CASE Finish(p, Ended(d), "INVALID") \/ Finish(p, Stopped(d, "approval"), "APPROVAL")
  <2>1. /\ Stopped(d, "approval") \in {Stopped(d, st) : st \in Terminal}
        /\ "INVALID" \in Finals /\ "APPROVAL" \in Finals
    BY DEF Finals, Terminal
  <2> QED BY <1>1, <1>2, <1>5, <2>1, EndOfTurn
<1>6. CASE Budget(d) /\ Goes(p, "mark") /\ UNCHANGED <<disk, lease, fails>>
  <2>1. run \in [Runners -> Process] /\ Place(run[p], disk, fails)
    BY Snapshot
  <2>2. run' = [run EXCEPT ![p].pc = "mark"]
    BY <1>6 DEF Goes
  <2>3. run' \in [Runners -> Process] /\ Moved(p)
    BY <2>1, <2>2 DEF Moved, Process, InTurn
  <2>4. /\ run'[p].pc = "mark" /\ run'[p].tok = d /\ run'[p].eaten = run[p].eaten
        /\ run'[p].again = run[p].again
    BY <2>1, <2>2 DEF Process
  <2>5. Place(run'[p], disk, fails)
    BY <1>1, <1>2, <1>6, <2>1, <2>4 DEF Place, Stage, InTurn, Synced, Budget
  <2>6. Pending(run'[p], asked, ran, void) /\ run'[p].pc \in InTurn
    BY <2>4 DEF Pending, InTurn
  <2> QED BY <1>1, <1>6, <2>3, <2>4, <2>5, <2>6, MoveKeeps
<1> QED BY <1>4, <1>5, <1>6 DEF Prepare

\* What is marked without a claim has had no effect, and will not: see VerifyKeeps.
LEMMA MarkKeeps ==
  ASSUME Inv, NEW p \in Runners, Mark(p)
  PROVE  Inv' /\ Drives(p)
<1> DEFINE d == run[p].tok
<1>1. /\ run[p].pc = "mark" /\ run[p].pc \in InTurn /\ run[p].pc \in Synced
      /\ SaveAnd(p, Executing(d), "verify")
      /\ void' = IF disk' # disk /\ ~Live THEN void \cup {Current(d)} ELSE void
      /\ UNCHANGED <<claim, parent, asked, ran, crashes>>
  BY DEF Mark, At, InTurn, Synced
<1>2. d.fin = "none" /\ disk = d /\ Ok(d, asked, ran) /\ d.st = "tool" /\ void \subseteq Calls
  BY <1>1, TurnFacts DEF Stage
<1>3. d.tools < ToolLimit
  <2>1. Place(run[p], disk, fails)
    BY Snapshot
  <2> QED BY <1>1, <2>1 DEF Place
<1> DEFINE e == Executing(d)
<1>4. /\ Ok(e, asked, ran) /\ e.st = "executing" /\ e.fin = "none" /\ Current(e) = Current(d)
      /\ ran[Current(d)] = 0 /\ Current(d) \in Calls
  BY <1>2, <1>3, ExecutingKeeps
<1>5. e.st \in Stage("verify") /\ SaveAnd(p, e, "verify")
  BY <1>1, <1>4 DEF Stage
<1>6. void' \subseteq Calls /\ (disk' = disk => void' = void)
  BY <1>1, <1>2, <1>4
<1>7. VoidInv'
  <2>1. VoidInv /\ UNCHANGED <<claim, ran>>
    BY <1>1 DEF Inv
  <2>2. Live' <=> Live
    BY <2>1 DEF Live
  <2> QED BY <1>1, <1>4, <2>1, <2>2 DEF VoidInv
<1> HIDE DEF e
<1> QED BY <1>1, <1>2, <1>4, <1>5, <1>6, <1>7, SaveKeeps

\* A live claim leaves nothing marked in vain.
LEMMA VerifyKeeps ==
  ASSUME Inv, NEW p \in Runners, Verify(p)
  PROVE  Inv' /\ Drives(p)
<1> DEFINE d == run[p].tok
<1>1. /\ run[p].pc = "verify" /\ run[p].pc \in InTurn /\ run[p].pc \in Synced
      /\ UNCHANGED <<disk, lease, claim, parent, asked, ran, void, crashes, fails>>
  BY DEF Verify, At, InTurn, Synced
<1>2. d.fin = "none" /\ disk = d /\ d.st = "executing"
  BY <1>1, TurnFacts DEF Stage
<1>3. /\ run \in [Runners -> Process] /\ Place(run[p], disk, fails)
      /\ Pending(run[p], asked, ran, void)
  BY Snapshot
<1>4. PICK pc \in {"invoke", "unsure"} : Goes(p, pc) /\ (pc = "invoke" => Live)
  BY DEF Verify, Verified
<1>5. run' = [run EXCEPT ![p].pc = pc]
  BY <1>4 DEF Goes
<1>6. run' \in [Runners -> Process] /\ Moved(p)
  BY <1>3, <1>4, <1>5 DEF Moved, Process, InTurn
<1>7. /\ run'[p].pc = pc /\ run'[p].tok = d /\ run'[p].eaten = run[p].eaten
      /\ run'[p].again = run[p].again
  BY <1>3, <1>5 DEF Process
<1>8. Place(run'[p], disk, fails)
  BY <1>1, <1>2, <1>3, <1>4, <1>7 DEF Place, Stage, InTurn, Synced
<1>9. Pending(run'[p], asked, ran, void) /\ run'[p].pc \in InTurn
  <2>1. ran[Current(d)] = 0
    BY <1>1, <1>3 DEF Pending
  <2>2. pc = "invoke" => void = {}
    BY <1>4 DEF Inv, VoidInv
  <2> QED BY <1>4, <1>7, <2>1, <2>2 DEF Pending, InTurn
<1> QED BY <1>1, <1>2, <1>4, <1>6, <1>7, <1>8, <1>9, MoveKeeps

LEMMA EffectKeeps ==
  ASSUME Inv, NEW p \in Runners, Effect(p)
  PROVE  Inv' /\ Drives(p)
<1> DEFINE d == run[p].tok
           cur == Current(d)
<1>1. /\ run[p].pc = "invoke" /\ run[p].pc \in InTurn /\ run[p].pc \in Synced
      /\ ran' = [ran EXCEPT ![cur] = Once(@)]
      /\ UNCHANGED <<disk, lease, claim, parent, asked, void, crashes, fails>>
  BY DEF Effect, At, InTurn, Synced
<1>2. /\ d.fin = "none" /\ disk = d /\ Ok(d, asked, ran) /\ d.st = "executing"
      /\ asked \in [Questions -> {0, 1}] /\ ran \in [Calls -> {0, 1}] /\ void \subseteq Calls
  BY <1>1, TurnFacts DEF Stage
<1>3. /\ run \in [Runners -> Process] /\ Place(run[p], disk, fails) /\ fails \in Nat
      /\ Pending(run[p], asked, ran, void) /\ (fails = 0 => disk.fin # "FAILED")
  BY Snapshot
<1>4. cur \in Calls /\ Ok(d, asked, [ran EXCEPT ![cur] = 1])
  BY <1>2, RanKeeps
<1>5. ran[cur] = 0 /\ cur \notin void
  BY <1>1, <1>3 DEF Pending
<1>6. ran' = [ran EXCEPT ![cur] = 1]
  BY <1>1, <1>2, <1>4, <1>5 DEF Once
<1>7. ran' \in [Calls -> {0, 1}] /\ Ok(disk', asked', ran') /\ asked' \in [Questions -> {0, 1}]
  BY <1>1, <1>2, <1>4, <1>6
<1>8. VoidInv' /\ void' \subseteq Calls
  <2>1. \A c \in void : ran'[c] = 0
    <3> HIDE DEF cur
    <3> SUFFICES ASSUME NEW c \in void PROVE ran'[c] = 0
      OBVIOUS
    <3>1. c \in Calls /\ c # cur /\ ran[c] = 0
      BY <1>2, <1>5 DEF Inv, VoidInv
    <3> QED BY <3>1, <1>2, <1>6
  <2>2. void # {} => ~Live
    BY DEF Inv, VoidInv
  <2> QED BY <1>1, <1>2, <2>1, <2>2 DEF VoidInv, Live
<1>9. fails' \in Nat /\ fails' >= fails
  BY <1>1, <1>3
<1>10. PICK pc \in {"done", "unsure"} : run' = [run EXCEPT ![p].pc = pc]
  BY DEF Effect, Goes
<1>11. run' \in [Runners -> Process] /\ Moved(p)
  BY <1>3, <1>10 DEF Moved, Process, InTurn
<1>12. /\ run'[p].pc = pc /\ run'[p].tok = d /\ run'[p].eaten = run[p].eaten
       /\ run'[p].again = run[p].again
  BY <1>3, <1>10 DEF Process
<1>13. Place(run'[p], disk', fails')
  BY <1>1, <1>2, <1>3, <1>12 DEF Place, Stage, InTurn, Synced
<1>14. Pending(run'[p], asked', ran', void') /\ run'[p].pc \in InTurn
  BY <1>12 DEF Pending, InTurn
<1>15. Drives(p)
  <2>1. Wrote(p) /\ fails' \in {fails, fails + 1}
    BY <1>1 DEF Wrote
  <2>2. run'[p].pc \in InTurn \ {"turn"} /\ disk' = run'[p].tok /\ disk'.fin = "none"
    BY <1>1, <1>2, <1>12, <1>14
  <2> QED BY <1>1, <1>11, <1>12, <2>1, <2>2, GoDrives
<1> QED BY <1>1, <1>2, <1>3, <1>7, <1>8, <1>9, <1>11, <1>13, <1>14, <1>15, GoOn

LEMMA RecordKeeps ==
  ASSUME Inv, NEW p \in Runners, Record(p)
  PROVE  Inv' /\ Drives(p)
<1> DEFINE d == Advanced(run[p].tok)
<1>1. /\ run[p].pc = "done" /\ run[p].pc \in InTurn /\ run[p].pc \in Synced
      /\ UNCHANGED <<lease, claim, parent, asked, ran, void, crashes>>
  BY DEF Record, At, InTurn, Synced
<1>2. /\ run[p].tok.fin = "none" /\ disk = run[p].tok /\ Ok(run[p].tok, asked, ran)
      /\ run[p].tok.st = "executing"
      /\ asked \in [Questions -> {0, 1}] /\ ran \in [Calls -> {0, 1}]
  BY <1>1, TurnFacts DEF Stage
<1>3. /\ run \in [Runners -> Process] /\ Place(run[p], disk, fails) /\ fails \in Nat
  BY Snapshot
<1>4. /\ Ok(d, asked, ran) /\ d.fin = "none" /\ d.st = After(d) /\ d.st \in {"tool", "model"}
      /\ d \in Checkpoint /\ Good(d)
  BY <1>2, AdvancedKeeps DEF Ok
<1>5. VoidInv' /\ void' \subseteq Calls
  BY <1>1, VoidSame
<1> DEFINE pc == After(d)
<1> HIDE DEF d
<1>6. CASE /\ Writes(p, d)
           /\ run' = [run EXCEPT ![p].tok = d, ![p].pc = pc, ![p].fresh = FALSE]
  <2>0. pc = d.st
    BY <1>4
  <2> HIDE DEF pc
  <2>1. run' \in [Runners -> Process] /\ Moved(p)
    <3>1. d \in Checkpoint /\ pc \in InTurn
      BY <1>4, <2>0 DEF InTurn
    <3>2. [run[p] EXCEPT !.tok = d, !.pc = pc, !.fresh = FALSE] \in Process
      BY <3>1, <1>3 DEF Process
    <3>3. run' = [run EXCEPT ![p] = [run[p] EXCEPT !.tok = d, !.pc = pc, !.fresh = FALSE]]
      BY <1>3, <1>6
    <3> QED BY <3>2, <3>3, <1>3 DEF Moved
  <2>2. /\ run'[p].pc = pc /\ run'[p].tok = d /\ run'[p].eaten = run[p].eaten
        /\ run'[p].again = run[p].again
    BY <1>3, <1>6 DEF Process
  <2>3. disk' = d /\ fails' = fails
    BY <1>6 DEF Writes
  <2>4. Place(run'[p], disk', fails')
    BY <1>1, <1>3, <1>4, <2>0, <2>2, <2>3 DEF Place, Stage, InTurn, Synced
  <2>5. Pending(run'[p], asked', ran', void') /\ run'[p].pc \in InTurn
    BY <1>4, <2>0, <2>2 DEF Pending, InTurn
  <2>6. Ok(disk', asked', ran') /\ disk.fin = "none" /\ disk'.fin # "FAILED"
    BY <1>1, <1>2, <1>4, <2>3
  <2>7. /\ asked' \in [Questions -> {0, 1}] /\ ran' \in [Calls -> {0, 1}]
        /\ fails' \in Nat /\ fails' >= fails
    BY <1>1, <1>2, <1>3, <2>3
  <2>8. Wrote(p)
    BY <1>2, <1>4, <2>3 DEF Wrote, Fits
  <2>9. Drives(p)
    <3>1. run'[p].pc \in InTurn \ {"turn"} /\ run'[p].pc # "unsure"
      BY <1>4, <2>0, <2>2, <2>5
    <3> QED BY <1>1, <2>1, <2>2, <2>3, <2>8, <3>1, GoDrives
  <2> QED BY <1>1, <1>5, <2>1, <2>4, <2>5, <2>6, <2>7, <2>9, GoOn
<1>7. CASE Loses(p, d) /\ Goes(p, "unsure")
  <2>1. fails' = fails + 1 /\ disk' \in {disk, d}
    BY <1>7 DEF Loses, Fails
  <2>2. disk' = disk \/ (disk.fin = "none" /\ Ok(disk', asked, ran))
    BY <1>2, <1>4, <2>1
  <2>3. Wrote(p) /\ disk'.fin = "none"
    BY <1>2, <1>4, <2>1 DEF Wrote, Fits
  <2> QED BY <1>1, <1>2, <1>5, <1>7, <2>1, <2>2, <2>3, TroubleKeeps
<1>8. Fits(p)
  BY <1>2 DEF Fits
<1> QED BY <1>6, <1>7, <1>8 DEF Record, d

LEMMA UnsureKeeps ==
  ASSUME Inv, NEW p \in Runners, Unsure(p)
  PROVE  Inv' /\ Drives(p)
<1> DEFINE d == run[p].tok
<1>1. /\ run[p].pc = "unsure" /\ run[p].pc \in InTurn
      /\ Finish(p, Stopped(d, "recovery"), "RECOVERY")
      /\ UNCHANGED <<claim, parent, asked, ran, void, crashes>>
  BY DEF Unsure, At, InTurn
<1>2. d.fin = "none" /\ (Fits(p) => Ok(d, asked, ran)) /\ "RECOVERY" \in Finals
  BY <1>1, TurnFacts DEF Finals
<1>3. Stopped(d, "recovery") \in {Stopped(d, st) : st \in Terminal}
  BY DEF Terminal
<1> QED BY <1>1, <1>2, <1>3, EndOfTurn

-----------------------------------------------------------------------------
(* The handler of errors                                                   *)

LEMMA HandleKeeps ==
  ASSUME Inv, NEW p \in Runners, Handle(p)
  PROVE  Inv' /\ Drives(p)
<1> DEFINE d == Mem(p)
           f == Finished(Stopped(d, "recovery"), "RECOVERY")
<1>1. /\ run[p].pc = "handle" /\ run[p].pc \in InTurn
      /\ UNCHANGED <<claim, parent, asked, ran, void, crashes>>
  BY DEF Handle, At, InTurn
<1>2. run[p].tok.fin = "none" /\ (Fits(p) => Ok(run[p].tok, asked, ran) /\ disk.fin = "none")
  BY <1>1, TurnFacts DEF Fits
<1>3. /\ Place(run[p], disk, fails) /\ Ok(disk, asked, ran) /\ fails \in Nat
      /\ run[p].tok \in Checkpoint
  BY Snapshot
<1>4. fails > 0 /\ (run[p].eaten => run[p].tok.st = "answered")
  BY <1>1, <1>3 DEF Place
<1>5. Fits(p) => Ok(d, asked, ran)
  BY <1>2, <1>4, ConsumedKeeps DEF Mem
<1>6. d.st = "executing" => run[p].tok.st = "executing"
  BY <1>3 DEF Mem, Consumed, Checkpoint
<1>7. VoidInv' /\ void' \subseteq Calls
  BY <1>1, VoidSame
<1>8. /\ {"RECOVERY", "FAILED"} \subseteq Recorded \ {"none"}
      /\ {"RECOVERY", "FAILED"} \subseteq AllResults \ {"none"}
  BY DEF AllResults, Recorded, Finals
<1> HIDE DEF d
<1>9. Fits(p) => Ok(f, asked, ran) /\ f.fin = "RECOVERY" /\ f.st # "new"
  <2>1. Stopped(d, "recovery") \in {Stopped(d, st) : st \in Terminal}
    BY DEF Terminal
  <2>2. "new" \notin Terminal
    BY DEF Terminal
  <2> QED BY <1>5, <1>8, <2>1, <2>2, EndKeeps
<1> HIDE DEF f
<1>10. CASE Writes(p, f) /\ Returns(p, "RECOVERY")
  <2>1. Fits(p) /\ disk' = f /\ fails' = fails
    BY <1>10 DEF Writes
  <2>2. Ok(disk', asked, ran) /\ disk.fin = "none" /\ fails' \in Nat /\ fails' >= fails /\ fails' # 0
    BY <1>2, <1>3, <1>4, <1>9, <2>1
  <2>3. Wrote(p)
    BY <1>2, <1>9, <2>1 DEF Wrote
  <2> QED BY <1>1, <1>8, <1>10, <2>1, <2>2, <2>3, ReturnKeeps, ReturnDrives
<1>11. CASE d.st = "executing" /\ Loses(p, f) /\ Goes(p, "handle2") /\ UNCHANGED lease
  <2>1. Fits(p) /\ fails' = fails + 1 /\ disk' \in {disk, f}
    BY <1>11 DEF Loses, Fails
  <2>2. disk' = disk \/ (disk.fin = "none" /\ Ok(disk', asked, ran))
    BY <1>2, <1>9, <2>1
  <2>3. Wrote(p)
    BY <1>2, <1>9, <2>1 DEF Wrote
  <2> QED BY <1>1, <1>2, <1>6, <1>7, <1>11, <2>1, <2>2, <2>3, TroubleKeeps
<1>12. CASE Returns(p, "FAILED") /\ UNCHANGED <<disk, fails>>
  <2>1. fails' \in Nat /\ fails' >= fails /\ fails' # 0 /\ Ok(disk', asked, ran)
    BY <1>3, <1>4, <1>12
  <2>2. Wrote(p) /\ fails' \in {fails, fails + 1}
    BY <1>12 DEF Wrote
  <2> QED BY <1>1, <1>8, <1>12, <2>1, <2>2, ReturnKeeps, ReturnDrives
<1>13. CASE TryFinish(p, Ended(d), "FAILED")
  <2> DEFINE g == Finished(Ended(d), "FAILED")
  <2>1. Fits(p) => Ok(g, asked, ran) /\ g.fin = "FAILED" /\ g.st = "over"
    BY <1>5, <1>8, EndKeeps
  <2> QED BY <1>1, <1>2, <1>4, <1>13, <2>1, TryKeeps
<1> QED BY <1>10, <1>11, <1>12, <1>13 DEF Handle, d, f

LEMMA HandleAgainKeeps ==
  ASSUME Inv, NEW p \in Runners, HandleAgain(p)
  PROVE  Inv' /\ Drives(p)
<1> DEFINE d == run[p].tok
<1>1. /\ run[p].pc = "handle2" /\ run[p].pc \in InTurn /\ TryFinish(p, d, "FAILED")
      /\ UNCHANGED <<claim, parent, asked, ran, void, crashes>>
  BY DEF HandleAgain, At, InTurn
<1>2. d.fin = "none" /\ (Fits(p) => Ok(d, asked, ran)) /\ d.st = "executing"
  BY <1>1, TurnFacts DEF Stage
<1>3. Place(run[p], disk, fails)
  BY Snapshot
<1>4. fails > 0 /\ "FAILED" \in Recorded \ {"none"}
  BY <1>1, <1>3 DEF Place, Recorded
<1>5. Fits(p) => /\ Ok(Finished(d, "FAILED"), asked, ran) /\ Finished(d, "FAILED").fin = "FAILED"
                 /\ Finished(d, "FAILED").st # "new"
  BY <1>2, <1>4, FinishedOpen
<1> QED BY <1>1, <1>2, <1>4, <1>5, TryKeeps

LEMMA RaisesKeeps ==
  ASSUME Inv, NEW p \in Runners, Raises(p)
  PROVE  Inv' /\ Drives(p)
<1>1. /\ run[p].pc \in InTurn /\ run[p].pc # "turn" /\ fails' = fails + 1
      /\ UNCHANGED <<disk, claim, parent, asked, ran, void, crashes>>
  BY DEF Raises, At, InTurn, Fails
<1>2. fails \in Nat /\ Ok(disk, asked, ran)
  BY Snapshot
<1>3. VoidInv' /\ void' \subseteq Calls
  BY <1>1, VoidSame
<1>6. Wrote(p)
  BY <1>1 DEF Wrote
<1>4. CASE Goes(p, "handle") /\ UNCHANGED lease
  BY <1>1, <1>3, <1>4, <1>6, TroubleKeeps
<1>5. CASE Returns(p, "FAILED")
  <2>1. fails' \in Nat /\ fails' >= fails /\ fails' # 0 /\ Ok(disk', asked, ran)
        /\ "FAILED" \in AllResults
    BY <1>1, <1>2 DEF AllResults, Recorded
  <2> QED BY <1>1, <1>5, <1>6, <2>1, ReturnKeeps, ReturnDrives
<1> QED BY <1>4, <1>5 DEF Raises

-----------------------------------------------------------------------------
(* The report, the claim and the deaths                                    *)

\* The claim ends or is ended, and never stands again.
LEMMA ClaimKeeps ==
  ASSUME Inv, UNCHANGED <<disk, lease, run, asked, ran, void, fails>>,
         claim' \in [phase : Verdicts, why : AllResults, cancel : BOOLEAN, late : BOOLEAN],
         parent' \in BOOLEAN, crashes' \in Nat, Live' => Live,
         claim'.phase = "failed" => claim.phase = "failed" /\ claim'.why = claim.why
  PROVE  Inv'
<1>1. Types'
  BY DEF Inv, Types
<1>2. DiskInv' /\ LeaseInv' /\ PlaceInv' /\ CrashIsNotFailure'
  BY DEF Inv, DiskInv, LeaseInv, PlaceInv, CrashIsNotFailure
<1>3. VoidInv'
  BY DEF Inv, VoidInv
<1> QED BY <1>1, <1>2, <1>3 DEF Inv

LEMMA OffIsPlaced ==
  ASSUME NEW pc \in {"off", "over"}, NEW d, NEW n
  PROVE  LET y == [Off EXCEPT !.pc = pc] IN
         y \in Process /\ y.pc = pc /\ Place(y, d, n)
<1> DEFINE y == [Off EXCEPT !.pc = pc]
<1>1. y \in Process /\ y.pc = pc /\ y.tok = New /\ y.eaten = FALSE
  BY NewIsGood DEF Off, Process
<1> HIDE DEF y
<1>2. Place(y, d, n)
  BY <1>1, NewIsGood DEF Place, Stage, Stages, Terminal, InTurn, Synced, New
<1> QED BY <1>1, <1>2 DEF y

LEMMA StartWakeKeeps ==
  ASSUME Inv, StartWake
  PROVE  Inv'
<1>1. /\ run["wake"].pc = "off" /\ "wake" \in Runners
      /\ UNCHANGED <<disk, lease, parent, asked, ran, void, crashes, fails>>
  BY DEF StartWake, At, Runners
<1>2. CASE Settle("effect_unknown") /\ UNCHANGED run
  <2>1. /\ claim' \in [phase : Verdicts, why : AllResults, cancel : BOOLEAN, late : BOOLEAN]
        /\ claim'.phase = "effect_unknown"
    BY <1>2 DEF Settle, Inv, Types, Verdicts
  <2>2. Live' => Live
    BY <2>1 DEF Live
  <2>3. parent' \in BOOLEAN /\ crashes' \in Nat
    BY <1>1 DEF Inv, Types
  <2> QED BY <1>1, <1>2, <2>1, <2>2, <2>3, ClaimKeeps
<1>3. CASE /\ run' = [run EXCEPT !["wake"] = [Off EXCEPT !.pc = "ready", !.tok = disk]]
           /\ UNCHANGED claim
  BY <1>1, <1>3, StartKeeps
<1> QED BY <1>2, <1>3 DEF StartWake

\* What is reported of a run in which nothing failed is the result of its action, so
\* that only some results make it failed.
LEMMA ReportKeeps ==
  ASSUME Inv, NEW p \in Runners, Report(p)
  PROVE  Inv'
<1> DEFINE result == run[p].result
           y == [Off EXCEPT !.pc = "over"]
<1>1. /\ run[p].pc = "report" /\ run' = [run EXCEPT ![p] = y]
      /\ UNCHANGED <<disk, lease, parent, asked, ran, void, crashes, fails>>
  BY DEF Report, At
<1>2. /\ Place(run[p], disk, fails) /\ run \in [Runners -> Process] /\ run[p] \in Process
      /\ fails \in Nat
  BY Snapshot
<1>3. y \in Process /\ y.pc = "over" /\ Place(y, disk, fails)
  BY OffIsPlaced
<1> HIDE DEF y
<1>4. run' \in [Runners -> Process] /\ run'[p] = y /\ Moved(p)
  BY <1>1, <1>2, <1>3 DEF Moved
<1>5. \/ claim' = claim
      \/ /\ claim.phase = "running"
         /\ \E o \in {Outcome(result), "cleanup_unknown"} :
              claim' = [claim EXCEPT !.phase = o, !.why = result]
  BY DEF Report
<1>6. Outcome(result) \in Verdicts \ {"running"}
  BY DEF Outcome, Verdicts
<1>7. result \in AllResults
  BY <1>2 DEF Process
<1>8. claim \in [phase : Verdicts, why : AllResults, cancel : BOOLEAN, late : BOOLEAN]
  BY DEF Inv, Types
<1>9. fails = 0 /\ Outcome(result) = "failed" => result \in {"CONFLICT", "INVALID", "DISCLOSURE"}
  <2> SUFFICES ASSUME fails = 0, Outcome(result) = "failed"
               PROVE  result \in {"CONFLICT", "INVALID", "DISCLOSURE"}
    OBVIOUS
  <2>1. result \in {"BUSY", "CONFLICT"} \/ (result \in Finals /\ disk.fin = result)
    BY <1>1, <1>2 DEF Place
  <2>2. CASE result \in {"BUSY", "CONFLICT"}
    BY <2>2 DEF Outcome
  <2>3. CASE result \in Finals /\ disk.fin = result
    <3>1. Reported(result) \in {"APPROVAL", "RECOVERY", result}
      BY <2>3 DEF Reported
    <3> QED BY <2>3, <3>1 DEF Outcome, Finals
  <2> QED BY <2>1, <2>2, <2>3
<1> HIDE DEF result
<1>10. /\ claim' \in [phase : Verdicts, why : AllResults, cancel : BOOLEAN, late : BOOLEAN]
       /\ CrashIsNotFailure' /\ (Live' => Live)
  <2>1. CASE claim' = claim
    BY <1>1, <1>8, <2>1 DEF CrashIsNotFailure, Inv, Live
  <2>2. CASE claim' # claim
    <3>1. PICK o \in {Outcome(result), "cleanup_unknown"} :
            claim' = [claim EXCEPT !.phase = o, !.why = result]
      BY <1>5, <2>2
    <3>2. o \in Verdicts \ {"running"}
      BY <1>6 DEF Verdicts
    <3>3. /\ claim' \in [phase : Verdicts, why : AllResults, cancel : BOOLEAN, late : BOOLEAN]
          /\ claim'.phase = o /\ claim'.why = result
      BY <1>7, <1>8, <3>1, <3>2
    <3>4. o = "failed" => o = Outcome(result)
      BY <3>1
    <3>5. CrashIsNotFailure'
      BY <1>1, <1>2, <1>9, <3>3, <3>4 DEF CrashIsNotFailure
    <3>6. ~Live'
      BY <3>2, <3>3 DEF Live
    <3> QED BY <3>3, <3>5, <3>6
  <2> QED BY <2>1, <2>2
<1>11. VoidInv'
  BY <1>1, <1>10 DEF Inv, VoidInv
<1>12. Types' /\ DiskInv'
  BY <1>1, <1>4, <1>10 DEF Inv, Types, DiskInv
<1>13. Pending(run'[p], asked', ran', void') /\ run'[p].pc \notin InTurn
  BY <1>3, <1>4 DEF Pending, InTurn
<1>14. fails' >= fails /\ UNCHANGED <<asked, ran, void>> /\ disk' = disk /\ fails' = fails
  BY <1>1, <1>2
<1>15. \A q \in Runners : q # p /\ lease = q => lease' = q
  BY <1>1
<1> QED BY <1>3, <1>4, <1>10, <1>11, <1>12, <1>13, <1>14, <1>15, StepKeeps

LEMMA NoResultKeeps ==
  ASSUME Inv, NoResult
  PROVE  Inv'
<1>1. /\ "child" \in Runners /\ claim.phase = "running"
      /\ UNCHANGED <<disk, parent, asked, ran, void, crashes, fails>>
  BY DEF NoResult, Runners
<1>2. PICK o \in {"effect_unknown", "cleanup_unknown"} : Settle(o)
  BY DEF NoResult
<1>3. /\ claim' \in [phase : Verdicts, why : AllResults, cancel : BOOLEAN, late : BOOLEAN]
      /\ claim'.phase = o
  BY <1>2 DEF Settle, Inv, Types, Verdicts
<1>4. ~Live' /\ claim'.phase # "failed"
  BY <1>2, <1>3 DEF Live
<1>5. parent' \in BOOLEAN /\ crashes' \in Nat
  BY <1>1 DEF Inv, Types
<1>6. CASE UNCHANGED <<lease, run>>
  BY <1>1, <1>3, <1>4, <1>5, <1>6, ClaimKeeps
<1>7. CASE /\ lease' = Freed("child")
           /\ run' = [run EXCEPT !["child"] = [Off EXCEPT !.pc = "over"]]
  <2> DEFINE y == [Off EXCEPT !.pc = "over"]
  <2>1. y \in Process /\ y.pc = "over" /\ Place(y, disk, fails)
    BY OffIsPlaced
  <2>2. run' = [run EXCEPT !["child"] = y]
    BY <1>7
  <2> HIDE DEF y
  <2>3. run' \in [Runners -> Process] /\ run'["child"] = y /\ Moved("child")
    BY <1>1, <2>1, <2>2, Snapshot DEF Moved
  <2>4. Types' /\ DiskInv' /\ VoidInv' /\ CrashIsNotFailure'
    BY <1>1, <1>3, <1>4, <1>7, <2>3
       DEF Inv, Types, DiskInv, VoidInv, CrashIsNotFailure, Freed
  <2>5. Pending(y, asked, ran, void) /\ y.pc \notin InTurn
    BY <2>1 DEF Pending, InTurn
  <2>6. \A q \in Runners : q # "child" /\ lease = q => lease' = q
    BY <1>7 DEF Freed
  <2>7. fails' >= fails
    BY <1>1, Snapshot
  <2> QED BY <1>1, <2>1, <2>3, <2>4, <2>5, <2>6, <2>7, StepKeeps
<1> QED BY <1>6, <1>7 DEF NoResult

LEMMA CancelKeeps ==
  ASSUME Inv, Cancel \/ Expire \/ ParentDies
  PROVE  Inv'
<1>1. /\ UNCHANGED <<disk, lease, run, asked, ran, void, fails>>
      /\ claim' \in [phase : Verdicts, why : AllResults, cancel : BOOLEAN, late : BOOLEAN]
      /\ claim'.phase = claim.phase /\ claim'.why = claim.why
      /\ parent' \in BOOLEAN /\ crashes' \in Nat
  <2>0. /\ claim \in [phase : Verdicts, why : AllResults, cancel : BOOLEAN, late : BOOLEAN]
        /\ parent \in BOOLEAN /\ crashes \in Nat
    BY DEF Inv, Types
  <2>1. CASE Cancel
    BY <2>0, <2>1 DEF Cancel
  <2>2. CASE Expire
    BY <2>0, <2>2 DEF Expire
  <2>3. CASE ParentDies
    <3>1. /\ parent' = FALSE /\ crashes' = crashes + 1
          /\ UNCHANGED <<disk, lease, run, claim, asked, ran, void, fails>>
      BY <2>3 DEF ParentDies
    <3>2. crashes' \in Nat
      BY <2>0, <3>1
    <3> QED BY <2>0, <3>1, <3>2
  <2> QED BY <2>1, <2>2, <2>3
<1>2. Live' => Live
  BY DEF Cancel, Expire, ParentDies, Live, Inv, Types
<1> QED BY <1>1, <1>2, ClaimKeeps

LEMMA DiesKeeps ==
  ASSUME Inv, NEW p \in Runners, Dies(p)
  PROVE  Inv'
<1> DEFINE pc == IF p = "child" THEN "over" ELSE "off"
           y == [Off EXCEPT !.pc = pc]
<1>1. /\ run' = [run EXCEPT ![p] = y] /\ lease' = IF lease = p THEN "nobody" ELSE lease
      /\ crashes' = crashes + 1 /\ UNCHANGED <<disk, claim, parent, asked, ran, void, fails>>
  BY DEF Dies, Freed
<1>2. pc \in {"off", "over"}
  OBVIOUS
<1> HIDE DEF pc
<1>3. y \in Process /\ y.pc = pc /\ Place(y, disk, fails)
  BY <1>2, OffIsPlaced
<1> HIDE DEF y
<1>4. run' \in [Runners -> Process] /\ run'[p] = y /\ Moved(p)
  BY <1>1, <1>3, Snapshot DEF Moved
<1>5. y.pc \notin InTurn
  BY <1>2, <1>3 DEF InTurn
<1>6. crashes' \in Nat
  BY <1>1 DEF Inv, Types
<1>7. /\ Ok(disk, asked, ran) /\ fails \in Nat /\ (fails = 0 => disk.fin # "FAILED")
      /\ fails >= fails
  BY Snapshot
<1> QED BY <1>1, <1>3, <1>4, <1>5, <1>6, <1>7, Leave

-----------------------------------------------------------------------------
(* The invariant and the theorems                                          *)

LEMMA InitIsGood == Init => Inv
<1> SUFFICES ASSUME Init PROVE Inv
  OBVIOUS
<1>1. Types
  BY NewIsGood DEF Init, Types, Runners, Verdicts, AllResults, Recorded
<1>2. Ok(New, asked, ran)
  <2>1. /\ New.st = "new" /\ Unasked(New.models, asked) /\ Unrun(New.pos, ran)
    BY DEF Init, New, Unasked, Unrun
  <2>2. Cardinality(Counted(New, ran)) <= New.tools
    <3>1. Done(ran) = {}
      BY DEF Init, Done
    <3>2. Counted(New, ran) = {}
      BY <3>1 DEF Counted, New
    <3> QED BY <3>2, FS_EmptySet DEF New
  <2> QED BY <2>1, <2>2, NewIsGood DEF Ok, Covers
<1>3. DiskInv
  BY <1>2 DEF Init, DiskInv, Ok, New
<1>4. LeaseInv /\ VoidInv /\ CrashIsNotFailure
  BY DEF Init, LeaseInv, VoidInv, CrashIsNotFailure, Off, InTurn
<1>5. PlaceInv
  <2> SUFFICES ASSUME NEW p \in Runners
               PROVE  Place(run[p], disk, fails) /\ Pending(run[p], asked, ran, void)
    BY DEF PlaceInv
  <2>1. run[p] = Off
    BY DEF Init
  <2>2. Off.pc = "off" /\ Off.tok = New /\ Off.eaten = FALSE
    BY DEF Off
  <2>3. Place(Off, disk, fails)
    BY <2>2, NewIsGood DEF Place, Stage, Stages, Terminal, InTurn, Synced, New
  <2>4. Pending(Off, asked, ran, void)
    BY <2>2 DEF Pending
  <2> QED BY <2>1, <2>3, <2>4
<1> QED BY <1>1, <1>3, <1>4, <1>5 DEF Inv

LEMMA NextKeeps == Inv /\ [Next]_vars => Inv'
<1> SUFFICES ASSUME Inv, [Next]_vars PROVE Inv'
  OBVIOUS
<1>1. CASE StartChild
  <2>1. "child" \in Runners
    BY DEF Runners
  <2> QED BY <1>1, <2>1, StartKeeps DEF StartChild, At
<1>2. CASE StartWake
  BY <1>2, StartWakeKeeps
<1>3. CASE \E p \in Runners : Step(p)
  <2>1. PICK p \in Runners : Step(p)
    BY <1>3
  <2>2. CASE Take(p) \/ Accept(p) \/ Own(p) \/ Replay(p)
    BY <2>2, TakeKeeps, AcceptKeeps, OwnKeeps, ReplayKeeps
  <2>3. CASE Limit(p) \/ TakeUp(p) \/ Ask(p) \/ Send(p) \/ Lost(p) \/ Keep(p) \/ Reduce(p)
    BY <2>3, LimitKeeps, TakeUpKeeps, AskKeeps, SendKeeps, LostKeeps, KeepKeeps, ReduceKeeps
  <2>4. CASE Prepare(p) \/ Mark(p) \/ Verify(p) \/ Effect(p) \/ Record(p) \/ Unsure(p)
    BY <2>4, PrepareKeeps, MarkKeeps, VerifyKeeps, EffectKeeps, RecordKeeps, UnsureKeeps
  <2>5. CASE Handle(p) \/ HandleAgain(p) \/ Raises(p) \/ Report(p) \/ Dies(p)
    BY <2>5, HandleKeeps, HandleAgainKeeps, RaisesKeeps, ReportKeeps, DiesKeeps
  <2> QED BY <2>1, <2>2, <2>3, <2>4, <2>5 DEF Step
<1>4. CASE NoResult
  BY <1>4, NoResultKeeps
<1>5. CASE Cancel \/ Expire \/ ParentDies
  BY <1>5, CancelKeeps
<1>6. CASE UNCHANGED vars
  BY <1>6 DEF vars, Inv, Types, DiskInv, LeaseInv, PlaceInv, VoidInv, Live, CrashIsNotFailure
<1> QED BY <1>1, <1>2, <1>3, <1>4, <1>5, <1>6 DEF Next

LEMMA RunInvariant == Spec => []Inv
<1>1. Init => Inv
  BY InitIsGood
<1>2. Inv /\ [Next]_vars => Inv'
  BY NextKeeps
<1> QED BY <1>1, <1>2, PTL DEF Spec

\* No question is asked twice and no call of a tool has its effect twice, however many
\* processes die, saves fail and calls raise (begin_provider_call and mark_executing are
\* saved before what they announce).
THEOREM NothingDoneTwice == Spec => []NothingRedone
<1>1. Inv => NothingRedone
  BY DEF Inv, Types, NothingRedone
<1> QED BY <1>1, RunInvariant, PTL

\* What was marked as executing when its claim no longer stood has no effect: the
\* verification just before the invocation sees it.
THEOREM NoEffectWithoutClaim == Spec => []EffectUnderClaim
<1>1. Inv => EffectUnderClaim
  BY DEF Inv, VoidInv, EffectUnderClaim
<1> QED BY <1>1, RunInvariant, PTL

\* The calls of the provider and of the tools stay within the grant of the occurrence,
\* whoever takes it over.
THEOREM BudgetOfOccurrence == Spec => []BudgetKept
<1>1. Inv => BudgetKept
  <2> SUFFICES ASSUME Inv PROVE BudgetKept
    OBVIOUS
  <2> DEFINE A == {i \in Questions : asked[i] > 0}
  <2>1. /\ disk \in Checkpoint /\ Covers(disk, asked, ran) /\ asked \in [Questions -> {0, 1}]
    BY DEF Inv, Types, DiskInv
  <2>2. /\ disk.models \in Nat /\ disk.models <= ModelLimit /\ ModelLimit \in Nat
        /\ disk.tools \in Nat /\ disk.tools <= ToolLimit /\ ToolLimit \in Nat
    BY <2>1, Numbers
  <2>3. A \subseteq 1..ModelLimit
    <3> SUFFICES ASSUME NEW i \in Questions, asked[i] > 0 PROVE i \in 1..ModelLimit
      OBVIOUS
    <3>1. i \in Nat /\ i >= 1
      BY <2>2 DEF Questions
    <3>2. Unasked(disk.models, asked)
      BY <2>1 DEF Covers
    <3>3. ~(i > disk.models)
      BY <3>2 DEF Unasked
    <3> QED BY <3>1, <3>3, <2>2
  <2>4. Cardinality(A) <= ModelLimit
    <3>0. ModelLimit \in Int /\ 1 \in Int /\ ModelLimit >= 1
      BY BackgroundAssumption
    <3>1. /\ IsFiniteSet(1..ModelLimit)
          /\ Cardinality(1..ModelLimit) = IF 1 > ModelLimit THEN 0 ELSE ModelLimit - 1 + 1
      BY <3>0, FS_Interval
    <3>2. Cardinality(1..ModelLimit) = ModelLimit
      BY <3>0, <3>1
    <3> HIDE DEF A
    <3> QED BY <2>3, <3>1, <3>2, FS_Subset
  <2>5. Cardinality(Done(ran)) <= ToolLimit
    <3>1. Cardinality(Counted(disk, ran)) <= disk.tools
      BY <2>1 DEF Covers
    <3> QED BY <3>1, <2>2, DoneShrinks
  <2> QED BY <2>4, <2>5 DEF BudgetKept, Done
<1> QED BY <1>1, RunInvariant, PTL

\* A death alone never makes an occurrence failed: the result that is reported is that of
\* the checkpoint, or of a turn in which something failed.
THEOREM DeathsAreNoFailure == Spec => []CrashIsNotFailure
<1>1. Inv => CrashIsNotFailure
  BY DEF Inv
<1> QED BY <1>1, RunInvariant, PTL

-----------------------------------------------------------------------------
(* What is told is over                                                    *)

\* A wake starts only when its parent's child has accepted the action, so that the child
\* is past its first save, and out of its turn when the wake is in one.
Before == {"off", "ready", "turn"}
Behind == {"report", "over"}

HeldInv == \A p \in Runners : lease = p => run[p].pc \in InTurn
WakeInv == disk.st = "new" \/ parent => run["wake"].pc = "off"
EndInv ==
  /\ disk.fin = "COMPLETED" => disk.st = "over"
  /\ \A p \in Runners :
       /\ run[p].pc = "report" /\ run[p].result = "COMPLETED" => disk.fin = "COMPLETED"
       /\ run[p].pc = "unsure" => disk.fin = "none"

\* Where nothing failed the child is never told of a conflict, and a wake that was in a
\* turn found it behind its own.
CleanInv ==
  /\ ~run["child"].again
  /\ run["child"].pc \in Before => disk.st = "new"
  /\ run["child"].pc \in {"ready", "turn"} => disk = run["child"].tok
  /\ \A p \in Runners : run[p].pc = "unsure" => disk = run[p].tok
  /\ run["wake"].pc = "report" /\ run["wake"].result # "BUSY" => run["child"].pc \in Behind

CompletedInv == claim.phase = "completed" => disk.fin = "COMPLETED"
FailedInv ==
  claim.phase = "failed" =>
    /\ disk.fin # "COMPLETED"
    /\ run["child"].pc \in Behind /\ run["wake"].pc \in {"off", "over"}

Over ==
  /\ HeldInv /\ WakeInv /\ EndInv /\ CompletedInv
  /\ fails = 0 => CleanInv /\ FailedInv

LEMMA Both == "child" \in Runners /\ "wake" \in Runners /\ Runners = {"child", "wake"}
  BY DEF Runners

\* A result that is recorded is never written over.
LEMMA EndStays ==
  ASSUME NEW p, Wrote(p), disk.fin # "none"
  PROVE  disk' = disk
  BY DEF Wrote, Fits

\* Where nothing failed a process in its turn has the file in its hands.
LEMMA CleanFits ==
  ASSUME Inv, CleanInv, fails = 0, run["child"].pc \in InTurn
  PROVE  Fits("child")
<1>1. Place(run["child"], disk, fails)
  BY Snapshot, Both
<1>2. run["child"].pc \notin {"handle", "handle2"}
  BY <1>1 DEF Place
<1>3. CASE run["child"].pc \in {"turn", "unsure"}
  BY <1>3, Both DEF CleanInv, Fits
<1>4. CASE run["child"].pc \in Synced
  BY <1>1, <1>4 DEF Place, Fits
<1> QED BY <1>2, <1>3, <1>4 DEF InTurn, Synced

\* While the wake is in a turn the child is behind its own, where nothing failed.
LEMMA ChildBehind ==
  ASSUME Inv, Over, fails = 0, run["wake"].pc \in InTurn
  PROVE  run["child"].pc \in Behind
<1>1. run["child"].pc \notin InTurn
  <2>1. "wake" # "child"
    OBVIOUS
  <2> QED BY <2>1, Both, OneTurn
<1>2. run["wake"].pc # "off"
  BY DEF InTurn
<1>3. run["child"].pc \notin Before
  BY <1>2 DEF Over, WakeInv, CleanInv
<1>4. run["child"].pc \in InTurn \cup {"off", "ready", "report", "over"}
  BY Both, Snapshot DEF Process
<1> QED BY <1>1, <1>3, <1>4 DEF Before, Behind

\* The steps of a process in its turn.
LEMMA DriveOver ==
  ASSUME Inv, Over, NEW p \in Runners, run[p].pc \in InTurn, Drives(p)
  PROVE  Over'
<1>1. /\ Moved(p) /\ Wrote(p) /\ claim' = claim /\ parent' = parent
      /\ GoesOn(p) \/ Leaves(p) \/ Retries(p)
  BY DEF Drives
<1>2. fails' = 0 => fails = 0
  BY Snapshot DEF Drives
<1>3. lease = p /\ lease' \in {lease, "nobody"} /\ (lease' = p => run'[p].pc \in InTurn)
  BY <1>1, Both DEF Inv, LeaseInv, GoesOn, Leaves, Retries
<1>4. \A q \in Runners : q # p => run'[q] = run[q] /\ run[q].pc \notin InTurn
  BY <1>1, OneTurn DEF Moved
<1>5. disk.fin = "COMPLETED" => disk' = disk
  BY <1>1, EndStays
<1>6. HeldInv'
  BY <1>3, Both DEF HeldInv
<1>7. WakeInv'
  <2>1. disk'.st = "new" => disk.st = "new"
    BY <1>1 DEF Wrote
  <2>2. p = "wake" => ~(disk.st = "new" \/ parent)
    BY DEF Over, WakeInv, InTurn
  <2>3. p # "wake" => run'["wake"] = run["wake"]
    BY <1>4, Both
  <2> QED BY <1>1, <2>1, <2>2, <2>3 DEF Over, WakeInv
<1>8. EndInv'
  <2>1. disk'.fin = "COMPLETED" => disk'.st = "over"
    BY <1>1 DEF Over, EndInv, Wrote
  <2>2. ASSUME NEW q \in Runners
        PROVE  /\ run'[q].pc = "report" /\ run'[q].result = "COMPLETED" => disk'.fin = "COMPLETED"
               /\ run'[q].pc = "unsure" => disk'.fin = "none"
    <3>1. CASE q # p
      BY <1>4, <1>5, <3>1 DEF Over, EndInv, InTurn
    <3>2. CASE q = p
      BY <1>1, <3>2 DEF GoesOn, Leaves, Retries, InTurn
    <3> QED BY <3>1, <3>2
  <2> QED BY <2>1, <2>2 DEF EndInv
<1>9. CompletedInv'
  BY <1>1, <1>5 DEF Over, CompletedInv
<1>10. ASSUME fails' = 0 PROVE CleanInv' /\ FailedInv'
  <2>1. fails = 0 /\ CleanInv /\ FailedInv
    BY <1>2, <1>10 DEF Over
  <2>2. CASE p = "child"
    <3>1. run'["wake"] = run["wake"] /\ run["wake"].pc \notin InTurn
      BY <1>4, <2>2, Both
    <3>2. GoesOn(p) \/ Leaves(p)
      BY <1>1, <2>1, <2>2, CleanFits DEF Retries
    <3>3. ~run'["child"].again /\ run'["child"].pc \notin Before
      BY <2>1, <2>2, <3>2 DEF GoesOn, Leaves, CleanInv, InTurn, Before
    <3>4. run["child"].pc \notin Behind
      BY <2>2 DEF InTurn, Behind
    <3>5. \A q \in Runners : run'[q].pc = "unsure" => disk' = run'[q].tok
      BY <1>10, <2>2, <3>1, <3>2, Both DEF GoesOn, Leaves, InTurn
    <3>6. CleanInv'
      BY <2>1, <3>1, <3>3, <3>4, <3>5 DEF CleanInv, Before
    <3>7. FailedInv'
      BY <1>1, <2>1, <3>4 DEF FailedInv
    <3> QED BY <3>6, <3>7
  <2>3. CASE p = "wake"
    <3>1. run'["child"] = run["child"] /\ run["child"].pc \in Behind
      BY <1>4, <2>1, <2>3, Both, ChildBehind
    <3>2. \A q \in Runners : run'[q].pc = "unsure" => disk' = run'[q].tok
      BY <1>1, <1>10, <2>3, <3>1, Both DEF GoesOn, Leaves, Retries, Behind
    <3>3. CleanInv'
      BY <2>1, <3>1, <3>2 DEF CleanInv, Before, Behind
    <3>4. claim.phase # "failed"
      BY <2>1, <2>3 DEF FailedInv, InTurn
    <3> QED BY <1>1, <3>3, <3>4 DEF FailedInv
  <2> QED BY <2>2, <2>3, Both
<1> QED BY <1>6, <1>7, <1>8, <1>9, <1>10 DEF Over

\* The flock is free where the child begins, so that it is never told BUSY.
LEMMA TakeOver ==
  ASSUME Inv, Over, NEW p \in Runners, Take(p)
  PROVE  Over'
<1>1. /\ run[p].pc = "ready" /\ run[p].pc \notin InTurn
      /\ disk' = disk /\ claim' = claim /\ parent' = parent /\ fails' = fails
      /\ run \in [Runners -> Process]
  BY Snapshot DEF Take, At, InTurn
<1>2. lease # p
  BY <1>1 DEF Over, HeldInv
<1>3. CASE lease = "nobody" /\ lease' = p /\ Goes(p, "turn")
  <2>1. /\ run'[p].pc = "turn" /\ run'[p].tok = run[p].tok /\ run'[p].again = run[p].again
        /\ \A q \in Runners : q # p => run'[q] = run[q]
    BY <1>1, <1>3 DEF Goes, Process
  <2>2. HeldInv' /\ WakeInv' /\ EndInv' /\ CompletedInv'
    BY <1>1, <1>3, <2>1, Both DEF Over, HeldInv, WakeInv, EndInv, CompletedInv, InTurn
  <2>3. ASSUME fails' = 0 PROVE CleanInv' /\ FailedInv'
    <3>1. CleanInv /\ FailedInv
      BY <1>1, <2>3 DEF Over
    <3>2. CleanInv'
      BY <1>1, <2>1, <3>1, Both DEF CleanInv, Before, Behind
    <3>3. FailedInv'
      BY <1>1, <2>1, <3>1, Both DEF FailedInv, Behind
    <3> QED BY <3>2, <3>3
  <2> QED BY <2>2, <2>3 DEF Over
<1>4. CASE lease # "nobody" /\ Conflicts(p, "BUSY")
  <2>1. /\ (run'[p].pc = "report" /\ run'[p].result = "BUSY") \/ run'[p].pc = "ready"
        /\ \A q \in Runners : q # p => run'[q] = run[q]
        /\ lease' = lease
    BY <1>1, <1>2, <1>4 DEF Conflicts, Returns, Off
  <2>2. HeldInv' /\ WakeInv' /\ EndInv' /\ CompletedInv'
    BY <1>1, <1>2, <2>1, Both DEF Over, HeldInv, WakeInv, EndInv, CompletedInv
  <2>3. ASSUME fails' = 0 PROVE CleanInv' /\ FailedInv'
    <3>1. CleanInv /\ FailedInv
      BY <1>1, <2>3 DEF Over
    <3>2. p # "child"
      <4> SUFFICES ASSUME p = "child" PROVE FALSE
        OBVIOUS
      <4>1. disk.st = "new"
        BY <1>1, <3>1 DEF CleanInv, Before
      <4>2. run["wake"].pc \notin InTurn
        BY <4>1 DEF Over, WakeInv, InTurn
      <4>3. lease = "wake"
        BY <1>2, <1>4, Both DEF Inv, Types
      <4> QED BY <4>2, <4>3, Both DEF Over, HeldInv
    <3>3. p = "wake" /\ run'["child"] = run["child"]
      BY <2>1, <3>2, Both
    <3>4. CleanInv'
      BY <1>1, <2>1, <3>1, <3>3, Both DEF CleanInv
    <3>5. FailedInv'
      BY <1>1, <3>1, <3>3 DEF FailedInv
    <3> QED BY <3>4, <3>5
  <2> QED BY <2>2, <2>3 DEF Over
<1> QED BY <1>3, <1>4 DEF Take

\* What is told as completed or as failed agrees with the file, and is told by the child
\* when no wake has started, or by a wake that was in a turn.
LEMMA ReportOver ==
  ASSUME Inv, Over, NEW p \in Runners, Report(p)
  PROVE  Over'
<1> DEFINE result == run[p].result
<1>1. /\ run[p].pc = "report" /\ run[p].pc \notin InTurn
      /\ disk' = disk /\ lease' = lease /\ parent' = parent /\ fails' = fails
      /\ run' = [run EXCEPT ![p] = [Off EXCEPT !.pc = "over"]]
  BY DEF Report, At, InTurn
<1>2. run \in [Runners -> Process] /\ disk \in Checkpoint
  BY Snapshot DEF Inv, Types
<1>3. run'[p].pc = "over" /\ ~run'[p].again /\ \A q \in Runners : q # p => run'[q] = run[q]
  BY <1>1, <1>2 DEF Off
<1>4. HeldInv' /\ EndInv'
  BY <1>1, <1>3 DEF Over, HeldInv, EndInv
<1>5. WakeInv'
  BY <1>1, <1>3, Both DEF Over, WakeInv
<1>6. result = "COMPLETED" => disk.fin = "COMPLETED"
  BY <1>1 DEF Over, EndInv
<1>7. Outcome(result) = "completed" => disk.fin = "COMPLETED"
  <2>1. Reported(result) \in {"APPROVAL", "RECOVERY", disk.fin, result}
    BY DEF Reported
  <2>2. Outcome(result) = "completed" => Reported(result) = "COMPLETED"
    BY DEF Outcome
  <2> QED BY <1>6, <2>1, <2>2
<1>8. disk.fin = "COMPLETED" => Outcome(result) = "completed"
  <2> SUFFICES ASSUME disk.fin = "COMPLETED" PROVE Outcome(result) = "completed"
    OBVIOUS
  <2>1. disk.st = "over"
    BY DEF Over, EndInv
  <2>2. Reported(result) = "COMPLETED"
    BY <2>1 DEF Reported, Active
  <2> QED BY <2>2 DEF Outcome
<1>9. Outcome(result) = "failed" => result # "BUSY"
  BY DEF Outcome
<1>10. \/ claim' = claim
       \/ /\ p = "wake" \/ parent
          /\ \/ claim'.phase = Outcome(result)
             \/ claim'.phase = "cleanup_unknown"
  <2>1. claim \in [phase : Verdicts, why : AllResults, cancel : BOOLEAN, late : BOOLEAN]
    BY DEF Inv, Types
  <2> QED BY <2>1 DEF Report
<1> HIDE DEF result
<1>11. CompletedInv'
  BY <1>1, <1>7, <1>10 DEF Over, CompletedInv
<1>12. ASSUME fails' = 0 PROVE CleanInv' /\ FailedInv'
  <2>1. CleanInv /\ FailedInv
    BY <1>1, <1>12 DEF Over
  <2>2. CleanInv'
    BY <1>1, <1>3, <2>1, Both DEF CleanInv, Before, Behind
  <2>3. FailedInv'
    <3> SUFFICES ASSUME claim'.phase = "failed"
                 PROVE  /\ disk'.fin # "COMPLETED"
                        /\ run'["child"].pc \in Behind /\ run'["wake"].pc \in {"off", "over"}
      BY DEF FailedInv
    <3>1. CASE claim' = claim
      <4>1. /\ disk.fin # "COMPLETED"
            /\ run["child"].pc \in Behind /\ run["wake"].pc \in {"off", "over"}
        BY <2>1, <3>1 DEF FailedInv
      <4>2. p = "child"
        BY <1>1, <4>1, Both
      <4> QED BY <1>1, <1>3, <4>1, <4>2, Both DEF Behind
    <3>2. CASE claim' # claim
      <4>1. Outcome(result) = "failed" /\ (p = "wake" \/ parent)
        BY <1>10, <3>2
      <4>2. disk'.fin # "COMPLETED" /\ result # "BUSY"
        BY <1>1, <1>8, <1>9, <4>1
      <4>3. CASE p = "wake"
        <5>1. run["child"].pc \in Behind
          BY <1>1, <2>1, <4>2, <4>3 DEF CleanInv, result
        <5> QED BY <1>3, <4>2, <4>3, <5>1, Both
      <4>4. CASE p = "child"
        <5>1. run["wake"].pc = "off"
          BY <4>1, <4>4 DEF Over, WakeInv
        <5> QED BY <1>3, <4>2, <4>4, <5>1, Both DEF Behind
      <4> QED BY <4>3, <4>4, Both
    <3> QED BY <3>1, <3>2
  <2> QED BY <2>2, <2>3
<1> QED BY <1>4, <1>5, <1>11, <1>12 DEF Over

\* A process that dies, or is ended, is in nobody's way.
LEMMA EndOver ==
  ASSUME Inv, Over, NEW p \in Runners,
         NEW pc, pc = (IF p = "child" THEN "over" ELSE "off"),
         run' = [run EXCEPT ![p] = [Off EXCEPT !.pc = pc]], lease' = Freed(p),
         parent' => parent, UNCHANGED <<disk, fails>>,
         claim'.phase \notin {"completed", "failed"} \/ claim' = claim
  PROVE  Over'
<1>1. run \in [Runners -> Process]
  BY Snapshot
<1>2. run'[p].pc = pc /\ ~run'[p].again /\ \A q \in Runners : q # p => run'[q] = run[q]
  BY <1>1 DEF Off
<1>3. HeldInv'
  BY <1>2, Both DEF Over, HeldInv, Freed
<1>4. WakeInv'
  <2>1. disk'.st = "new" \/ parent' => disk.st = "new" \/ parent
    OBVIOUS
  <2>2. CASE p = "wake"
    BY <1>2, <2>2 DEF WakeInv
  <2>3. CASE p = "child"
    BY <1>2, <2>1, <2>3, Both DEF Over, WakeInv
  <2> QED BY <2>2, <2>3, Both
<1>5. EndInv'
  BY <1>2 DEF Over, EndInv
<1>6. CompletedInv'
  BY DEF Over, CompletedInv
<1>7. ASSUME fails' = 0 PROVE CleanInv' /\ FailedInv'
  <2>1. CleanInv /\ FailedInv
    BY <1>7 DEF Over
  <2>2. CASE p = "wake"
    BY <1>2, <2>1, <2>2, Both DEF CleanInv, FailedInv, Before, Behind
  <2>3. CASE p = "child"
    BY <1>2, <2>1, <2>3, Both DEF CleanInv, FailedInv, Before, Behind
  <2> QED BY <2>2, <2>3, Both
<1> QED BY <1>3, <1>4, <1>5, <1>6, <1>7 DEF Over

\* A step that moves no process.
LEMMA StillOver ==
  ASSUME Over, UNCHANGED <<disk, lease, run, fails>>, parent' => parent,
         claim'.phase \notin {"completed", "failed"} \/ claim'.phase = claim.phase
  PROVE  Over'
<1>1. HeldInv' /\ WakeInv' /\ EndInv' /\ CompletedInv'
  BY DEF Over, HeldInv, WakeInv, EndInv, CompletedInv
<1>2. fails' = 0 => CleanInv' /\ FailedInv'
  BY DEF Over, CleanInv, FailedInv
<1> QED BY <1>1, <1>2 DEF Over

\* The child starts before any wake; a wake starts when the action was accepted.
LEMMA StartsOver ==
  ASSUME Inv, Over, StartChild \/ StartWake
  PROVE  Over'
<1>1. CASE StartWake /\ Settle("effect_unknown") /\ UNCHANGED run
  <2>1. /\ UNCHANGED <<disk, lease, run, parent, fails>> /\ claim'.phase = "effect_unknown"
    BY <1>1 DEF StartWake, Settle, Inv, Types
  <2> QED BY <2>1, StillOver
<1>2. CASE \E p \in Runners :
             /\ run[p].pc = "off" /\ (p = "wake" => ~parent /\ disk.st # "new")
             /\ (p = "wake" => claim.phase = "running")
             /\ run' = [run EXCEPT ![p] = [Off EXCEPT !.pc = "ready", !.tok = disk]]
             /\ UNCHANGED <<disk, lease, claim, parent, fails>>
  <2>1. PICK p \in Runners :
             /\ run[p].pc = "off" /\ (p = "wake" => ~parent /\ disk.st # "new")
             /\ (p = "wake" => claim.phase = "running")
             /\ run' = [run EXCEPT ![p] = [Off EXCEPT !.pc = "ready", !.tok = disk]]
             /\ UNCHANGED <<disk, lease, claim, parent, fails>>
    BY <1>2
  <2>2. run \in [Runners -> Process]
    BY Snapshot
  <2>3. /\ run'[p].pc = "ready" /\ run'[p].tok = disk /\ ~run'[p].again
        /\ \A q \in Runners : q # p => run'[q] = run[q]
    BY <2>1, <2>2 DEF Off
  <2>4. HeldInv' /\ EndInv' /\ CompletedInv'
    BY <2>1, <2>3 DEF Over, HeldInv, EndInv, CompletedInv, InTurn
  <2>5. WakeInv'
    BY <2>1, <2>3, Both DEF Over, WakeInv
  <2>6. ASSUME fails' = 0 PROVE CleanInv' /\ FailedInv'
    <3>1. CleanInv /\ FailedInv
      BY <2>1, <2>6 DEF Over
    <3>2. CASE p = "wake"
      BY <2>1, <2>3, <3>1, <3>2, Both DEF CleanInv, FailedInv
    <3>3. CASE p = "child"
      BY <2>1, <2>3, <3>1, <3>3, Both DEF CleanInv, FailedInv, Before, Behind
    <3> QED BY <3>2, <3>3, Both
  <2> QED BY <2>4, <2>5, <2>6 DEF Over
<1> QED BY <1>1, <1>2, Both DEF StartChild, StartWake, At

LEMMA NoResultOver ==
  ASSUME Inv, Over, NoResult
  PROVE  Over'
<1>1. claim'.phase \in {"effect_unknown", "cleanup_unknown"}
  BY DEF NoResult, Settle, Inv, Types
<1>2. CASE UNCHANGED <<lease, run>>
  BY <1>1, <1>2, StillOver DEF NoResult
<1>3. CASE /\ lease' = Freed("child")
           /\ run' = [run EXCEPT !["child"] = [Off EXCEPT !.pc = "over"]]
  BY <1>1, <1>3, Both, EndOver DEF NoResult
<1> QED BY <1>2, <1>3 DEF NoResult

LEMMA NextOver == Inv /\ Over /\ [Next]_vars => Over'
<1> SUFFICES ASSUME Inv, Over, [Next]_vars PROVE Over'
  OBVIOUS
<1>1. CASE StartChild \/ StartWake
  BY <1>1, StartsOver
<1>2. CASE \E p \in Runners : Step(p)
  <2>1. PICK p \in Runners : Step(p)
    BY <1>2
  <2>2. CASE Take(p)
    BY <2>2, TakeOver
  <2>3. CASE \/ Accept(p) \/ Own(p) \/ Replay(p)
             \/ Limit(p) \/ TakeUp(p) \/ Ask(p) \/ Send(p) \/ Lost(p) \/ Keep(p) \/ Reduce(p)
             \/ Prepare(p) \/ Mark(p) \/ Verify(p) \/ Effect(p) \/ Record(p) \/ Unsure(p)
             \/ Handle(p) \/ HandleAgain(p) \/ Raises(p)
    <3>1. run[p].pc \in InTurn
      BY <2>3 DEF At, InTurn, Accept, Own, Replay, Limit, TakeUp, Ask, Send, Lost, Keep, Reduce,
                  Prepare, Mark, Verify, Effect, Record, Unsure, Handle, HandleAgain, Raises
    <3>2. Drives(p)
      <4>1. CASE Accept(p) \/ Own(p) \/ Replay(p)
        BY <4>1, AcceptKeeps, OwnKeeps, ReplayKeeps
      <4>2. CASE \/ Limit(p) \/ TakeUp(p) \/ Ask(p) \/ Send(p) \/ Lost(p) \/ Keep(p)
                 \/ Reduce(p)
        BY <4>2, LimitKeeps, TakeUpKeeps, AskKeeps, SendKeeps, LostKeeps, KeepKeeps, ReduceKeeps
      <4>3. CASE Prepare(p) \/ Mark(p) \/ Verify(p) \/ Effect(p) \/ Record(p) \/ Unsure(p)
        BY <4>3, PrepareKeeps, MarkKeeps, VerifyKeeps, EffectKeeps, RecordKeeps, UnsureKeeps
      <4>4. CASE Handle(p) \/ HandleAgain(p) \/ Raises(p)
        BY <4>4, HandleKeeps, HandleAgainKeeps, RaisesKeeps
      <4> QED BY <2>3, <4>1, <4>2, <4>3, <4>4
    <3> QED BY <3>1, <3>2, DriveOver
  <2>4. CASE Report(p)
    BY <2>4, ReportOver
  <2>5. CASE Dies(p)
    <3> DEFINE pc == IF p = "child" THEN "over" ELSE "off"
    <3>1. /\ run' = [run EXCEPT ![p] = [Off EXCEPT !.pc = pc]] /\ lease' = Freed(p)
          /\ UNCHANGED <<disk, claim, parent, fails>>
      BY <2>5 DEF Dies
    <3> QED BY <3>1, EndOver
  <2> QED BY <2>1, <2>2, <2>3, <2>4, <2>5 DEF Step
<1>3. CASE NoResult
  BY <1>3, NoResultOver
<1>4. CASE Cancel \/ Expire \/ ParentDies
  <2>1. UNCHANGED <<disk, lease, run, fails>> /\ (parent' => parent)
    BY <1>4 DEF Cancel, Expire, ParentDies
  <2>2. claim'.phase = claim.phase
    BY <1>4 DEF Cancel, Expire, ParentDies, Inv, Types
  <2> QED BY <2>1, <2>2, StillOver
<1>5. CASE UNCHANGED vars
  BY <1>5, StillOver DEF vars
<1> QED BY <1>1, <1>2, <1>3, <1>4, <1>5 DEF Next

LEMMA InitOver == Init => Over
<1> SUFFICES ASSUME Init PROVE Over
  OBVIOUS
<1>1. \A p \in Runners : run[p].pc = "off" /\ ~run[p].again
  BY DEF Init, Off
<1>2. disk.st = "new" /\ disk.fin = "none" /\ lease = "nobody" /\ claim.phase = "running"
  BY DEF Init, New
<1>3. HeldInv /\ WakeInv /\ EndInv /\ CompletedInv
  BY <1>1, <1>2, Both DEF HeldInv, WakeInv, EndInv, CompletedInv
<1>4. CleanInv /\ FailedInv
  BY <1>1, <1>2, Both DEF CleanInv, FailedInv, Before
<1> QED BY <1>3, <1>4 DEF Over

\* An occurrence that is told as completed, or as failed when nothing had failed to be
\* saved and nothing raised, is over: the flock and the snapshots keep the child and the
\* wake that takes the run over apart, and both behind what was told (run_turn, _report).
THEOREM ToldIsOver == Spec => []SettledIsOver
<1>1. Init => Inv /\ Over
  BY InitIsGood, InitOver
<1>2. Inv /\ Over /\ [Next]_vars => (Inv /\ Over)'
  BY NextKeeps, NextOver
<1>3. Inv /\ Over => SettledIsOver
  <2> SUFFICES ASSUME Inv, Over PROVE SettledIsOver
    OBVIOUS
  <2>1. ASSUME NEW p \in Runners, AtWork(p)
        PROVE  disk.fin = "none" /\ run[p].pc \notin Behind \cup {"off"}
    <3>1. Place(run[p], disk, fails)
      BY Snapshot
    <3>2. CASE run[p].pc = "unsure"
      BY <3>2 DEF Over, EndInv, Behind
    <3>3. CASE run[p].pc # "unsure"
      BY <2>1, <3>1, <3>3 DEF AtWork, Place, Synced, InTurn, Behind
    <3> QED BY <3>2, <3>3
  <2>2. claim.phase = "completed" => disk.fin = "COMPLETED"
    BY DEF Over, CompletedInv
  <2>3. claim.phase = "failed" /\ fails = 0 => FailedInv
    BY DEF Over
  <2>4. claim.phase = "completed" => \A p \in Runners : ~AtWork(p)
    BY <2>1, <2>2
  <2>5. claim.phase = "failed" /\ fails = 0 =>
          disk.fin # "COMPLETED" /\ \A p \in Runners : ~AtWork(p)
    BY <2>1, <2>3, Both DEF FailedInv, Behind
  <2> QED BY <2>2, <2>4, <2>5 DEF SettledIsOver
<1> QED BY <1>1, <1>2, <1>3, PTL DEF Spec
=============================================================================
