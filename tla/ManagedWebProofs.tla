-------------------------- MODULE ManagedWebProofs --------------------------
(***************************************************************************)
(* Proofs about ManagedWeb, for any set of servers: what is called         *)
(* confirmed is gone, and a goal that is done has current evidence and     *)
(* leaves no server behind.                                                *)
(*                                                                         *)
(* The three need one inductive invariant, whose core is Accounted: a      *)
(* server that lives is known to the facts, or to the call that is being   *)
(* made, or its supervisor outlived the application and is about to end    *)
(* it, or nobody watches it any more and it is counted as an orphan.       *)
(***************************************************************************)
EXTENDS ManagedWeb, TLAPS

Calls ==
  [at : {"idle", "waiting", "signal", "kill", "verify", "receipt", "next", "record"},
   op : {"none", "start", "abandon", "raise", "stop", "close"},
   s : Servers \cup {Nobody}]

\* TypeOK but for the values of control, of which only matters whether they are 0.
Types ==
  /\ supervisor \in [Servers -> {"none", "watching", "stopping", "dead"}]
  /\ server \in [Servers -> {"none", "up", "killed", "gone"}]
  /\ pipe \in [Fds -> Servers \cup {Nobody}]
  /\ control = [s \in Servers |-> control[s]]
  /\ call \in Calls
  /\ todo \subseteq Servers /\ active \subseteq Servers /\ unready \subseteq Servers
  /\ receipts \subseteq Servers /\ closed \subseteq Servers
  /\ wrote \subseteq Servers /\ orphans \subseteq Servers
  /\ unknown \in BOOLEAN /\ needs \in BOOLEAN /\ valid \in BOOLEAN /\ done \in BOOLEAN

\* A server begins with its supervisor.
Born == \A s \in Servers : supervisor[s] = "none" <=> server[s] = "none"

\* The calls in which a start is still open.
Starting == {"start", "abandon", "raise"}
Ending == {"signal", "kill", "verify"}

\* What holds at each place of a call.
CallInv ==
  /\ call.at = "idle" => call = Idle
  /\ call.at = "waiting" => call.op = "start"
  /\ call.op = "start" => call.at \in {"waiting", "record"}
  /\ call.at \in Ending => call.op \in {"abandon", "raise", "stop", "close"}
  /\ call.at \notin {"idle", "next"} => call.s \in Servers /\ supervisor[call.s] # "none"
  /\ call.at = "verify" => server[call.s] # "up"
  /\ call.at = "receipt" => call.op \in {"stop", "close"} /\ Gone(call.s)
  /\ call.at = "record" => call.op \in {"start", "abandon", "stop"}
  /\ call.at = "record" /\ call.op # "start" => Gone(call.s)
  /\ call.at = "record" /\ call.op = "stop" => control[call.s] = 0
  /\ call.at \in Ending \cup {"receipt"} /\ call.op \in {"stop", "close"} => call.s \in active
  /\ call.at = "next" => call.op = "close"
  /\ todo # {} => call.op = "close"
  /\ call.op \in Starting => ~done

\* A record is of a server that was reported ready, or is about to be.
RecordInv ==
  /\ todo \subseteq active
  /\ \A s \in active : supervisor[s] # "none"
  /\ \A s \in Servers : control[s] # 0 =>
       s \in active \/ (call.s = s /\ call.op = "start" /\ call.at = "record")

\* Its supervisor saw the application end.
Fading(s) == unknown /\ Eof(s) /\ supervisor[s] # "dead"

InCall(s) == call.s = s /\ call.op \in Starting

Accounted ==
  \A s \in Servers : server[s] = "up" =>
    s \in active \/ s \in orphans \/ InCall(s) \/ Fading(s)

\* A validation that counts was made when no server was active, and what lived then
\* without being known to the facts is excused.
EvidenceInv ==
  /\ valid => active = {}
  /\ valid /\ ~unknown =>
       \A s \in wrote : s \in unready \/ s \in orphans \/ InCall(s)
  /\ done => active = {}

Inv ==
  /\ Types /\ Born /\ CallInv /\ RecordInv /\ Accounted /\ EvidenceInv
  /\ ConfirmedIsGone /\ DoneOnCurrent /\ DoneOwnsNothing

USE WebAssumption

-----------------------------------------------------------------------------
(* The group: what ended does not come back                                *)

\* What a step does to the groups that exist.
Fades ==
  /\ supervisor' \in [Servers -> {"none", "watching", "stopping", "dead"}]
  /\ server' \in [Servers -> {"none", "up", "killed", "gone"}]
  /\ \A s \in Servers :
       /\ supervisor'[s] = "none" <=> supervisor[s] = "none"
       /\ server'[s] = "none" <=> server[s] = "none"
       /\ server'[s] = "up" => server[s] = "up"
       /\ Gone(s) => Gone(s)'

LEMMA GroupFades ==
  ASSUME Inv, NEW s \in Servers, NoticeEof(s) \/ NoticeEnd(s) \/ StopOwnedGroup(s) \/ Dies(s)
  PROVE  Fades
<1>1. Types /\ Born
  BY DEF Inv
<1>2. CASE NoticeEof(s) \/ NoticeEnd(s)
  BY <1>1, <1>2 DEF NoticeEof, NoticeEnd, ServerTermed, Fades, Types, Born, Gone, Exited
<1>3. CASE StopOwnedGroup(s)
  BY <1>1, <1>3 DEF StopOwnedGroup, Fades, Types, Born, Gone, Exited
<1>4. CASE Dies(s)
  BY <1>1, <1>4 DEF Dies, Fades, Types, Born, Gone, Exited
<1> QED BY <1>2, <1>3, <1>4

LEMMA GroupKeeps ==
  ASSUME Inv, NEW s \in Servers, NoticeEof(s) \/ NoticeEnd(s) \/ StopOwnedGroup(s) \/ Dies(s)
  PROVE  Inv'
<1>1. Fades
  BY GroupFades
<1>2. UNCHANGED <<owner, app, downs, receipts, facts, wrote, ghosts>>
  BY DEF NoticeEof, NoticeEnd, StopOwnedGroup, Dies
<1>3. Types' /\ Born' /\ RecordInv' /\ EvidenceInv'
  BY <1>1, <1>2 DEF Inv, Fades, Types, Born, RecordInv, EvidenceInv, InCall, owner, facts, ghosts
<1>4. CallInv'
  BY <1>1, <1>2 DEF Inv, Fades, Types, CallInv, owner, facts, Idle
<1>5. \A t \in Servers : server'[t] = "up" => server[t] = "up" /\ (supervisor[t] # "dead" => supervisor'[t] # "dead")
  <2>1. CASE NoticeEof(s) \/ NoticeEnd(s)
    BY <1>1, <2>1 DEF Inv, NoticeEof, NoticeEnd, Fades, Types
  <2>2. CASE StopOwnedGroup(s)
    BY <1>1, <2>2 DEF Inv, StopOwnedGroup, Fades, Types
  <2>3. CASE Dies(s)
    BY <1>1, <2>3 DEF Inv, Dies, Fades, Types
  <2> QED BY <2>1, <2>2, <2>3
<1>6. Accounted' /\ DoneOwnsNothing'
  BY <1>2, <1>5 DEF Inv, Accounted, DoneOwnsNothing, InCall, Fading, Eof, owner, facts, ghosts
<1>7. ConfirmedIsGone' /\ DoneOnCurrent'
  BY <1>1, <1>2 DEF Inv, Fades, Types, ConfirmedIsGone, DoneOnCurrent, facts, ghosts
<1> QED BY <1>3, <1>4, <1>6, <1>7 DEF Inv

LEMMA WritesKeeps ==
  ASSUME Inv, NEW s \in Servers, Writes(s)
  PROVE  Inv'
<1>1. /\ UNCHANGED <<group, owner, app, downs, receipts, facts, ghosts>>
      /\ server[s] = "up" /\ wrote' = wrote \cup {s}
  BY DEF Writes
<1>2. Types' /\ Born' /\ CallInv' /\ RecordInv' /\ Accounted' /\ ConfirmedIsGone' /\ DoneOwnsNothing'
  BY <1>1 DEF Inv, Types, Born, CallInv, RecordInv, Accounted, ConfirmedIsGone, DoneOwnsNothing,
              InCall, Fading, Eof, Gone, Exited, Idle, group, owner, facts, ghosts
<1>3. EvidenceInv'
  BY <1>1 DEF Inv, Types, EvidenceInv, Accounted, InCall, Fading, group, owner, facts, ghosts
<1>4. DoneOnCurrent'
  BY <1>1 DEF Inv, Types, DoneOnCurrent, DoneOwnsNothing, group, owner, facts, ghosts
<1> QED BY <1>2, <1>3, <1>4 DEF Inv

-----------------------------------------------------------------------------
(* managed_web_start                                                       *)

\* Closing a descriptor of the application ends the input of whoever it served.
LEMMA EofStays ==
  ASSUME Types, NEW n, pipe' = [pipe EXCEPT ![n] = Nobody]
  PROVE  /\ pipe' \in [Fds -> Servers \cup {Nobody}]
         /\ \A s \in Servers : Eof(s) => Eof(s)'
BY DEF Types, Eof

LEMMA SpawnKeeps ==
  ASSUME Inv, NEW s \in Servers, Spawn(s)
  PROVE  Inv'
<1>1. /\ UNCHANGED <<control, todo, failed, app, downs, receipts, facts, wrote, ghosts>>
      /\ call = Idle /\ ~unknown /\ ~done /\ supervisor[s] = "none"
      /\ supervisor' = [supervisor EXCEPT ![s] = "watching"]
      /\ server' = [server EXCEPT ![s] = "up"]
      /\ pipe' = [pipe EXCEPT ![Lowest] = s] /\ call' = In("waiting", "start", s)
  BY DEF Spawn, Free
<1>2. call' \in Calls /\ call'.at = "waiting" /\ call'.op = "start" /\ call'.s = s
  BY <1>1 DEF In, Calls
<1>3. call.op = "none" /\ call.at = "idle"
  BY <1>1 DEF Idle
<1>4. Types' /\ Born'
  BY <1>1, <1>2 DEF Inv, Types, Born, facts, ghosts
<1>5. CallInv' /\ RecordInv'
  BY <1>1, <1>2, <1>3 DEF Inv, Types, CallInv, RecordInv, Starting, Ending, facts
<1>6. Accounted' /\ EvidenceInv'
  BY <1>1, <1>2, <1>3 DEF Inv, Types, Accounted, EvidenceInv, InCall, Fading, Starting, facts, ghosts
<1>7. ConfirmedIsGone' /\ DoneOnCurrent' /\ DoneOwnsNothing'
  BY <1>1 DEF Inv, Types, ConfirmedIsGone, DoneOnCurrent, DoneOwnsNothing, Gone, Exited, facts, ghosts
<1> QED BY <1>4, <1>5, <1>6, <1>7 DEF Inv

LEMMA RegisteredKeeps == Inv /\ Registered => Inv'
<1> SUFFICES ASSUME Inv, Registered PROVE Inv'
  OBVIOUS
<1>1. /\ UNCHANGED <<group, pipe, todo, failed, app, downs, receipts, facts, wrote, ghosts>>
      /\ call.at = "waiting" /\ call.op = "start" /\ call.s \in Servers
      /\ control' = [control EXCEPT ![call.s] = FdOf(call.s)]
      /\ call' = [call EXCEPT !.at = "record"]
  BY DEF Registered, At, Inv, CallInv
<1>2. call' \in Calls /\ call'.at = "record" /\ call'.op = "start" /\ call'.s = call.s
  BY <1>1 DEF Inv, Types, Calls
<1>3. Types' /\ Born'
  BY <1>1, <1>2 DEF Inv, Types, Born, group, facts, ghosts
<1>4. CallInv' /\ RecordInv'
  BY <1>1, <1>2 DEF Inv, Types, CallInv, RecordInv, Starting, Ending, group, facts
<1>5. Accounted' /\ EvidenceInv'
  BY <1>1, <1>2 DEF Inv, Types, Accounted, EvidenceInv, InCall, Fading, Eof, Starting, group, facts, ghosts
<1>6. ConfirmedIsGone' /\ DoneOnCurrent' /\ DoneOwnsNothing'
  BY <1>1 DEF Inv, ConfirmedIsGone, DoneOnCurrent, DoneOwnsNothing, Gone, Exited, group, facts, ghosts
<1> QED BY <1>3, <1>4, <1>5, <1>6 DEF Inv

LEMMA GivesUpKeeps == Inv /\ GivesUp => Inv'
<1> SUFFICES ASSUME Inv, GivesUp PROVE Inv'
  OBVIOUS
<1>1. /\ UNCHANGED <<group, control, todo, failed, app, downs, receipts, facts, wrote, ghosts>>
      /\ call.at = "waiting" /\ call.op = "start" /\ call.s \in Servers
      /\ pipe' = [pipe EXCEPT ![FdOf(call.s)] = Nobody]
  BY DEF GivesUp, Inv, CallInv
<1>2. PICK op \in {"abandon", "raise"} : call' = In("signal", op, call.s)
  BY DEF GivesUp
<1>3. call' \in Calls /\ call'.at = "signal" /\ call'.op = op /\ call'.s = call.s
  BY <1>1, <1>2 DEF In, Calls
<1>4. /\ pipe' \in [Fds -> Servers \cup {Nobody}]
      /\ \A s \in Servers : Eof(s) => Eof(s)'
  BY <1>1, EofStays DEF Inv
<1>5. Types' /\ Born'
  BY <1>1, <1>3, <1>4 DEF Inv, Types, Born, group, facts, ghosts
<1>6. CallInv' /\ RecordInv'
  BY <1>1, <1>3 DEF Inv, Types, CallInv, RecordInv, Starting, Ending, group, facts
<1>7. Accounted' /\ EvidenceInv'
  BY <1>1, <1>3, <1>4 DEF Inv, Types, Accounted, EvidenceInv, InCall, Fading, Starting, group, facts, ghosts
<1>8. ConfirmedIsGone' /\ DoneOnCurrent' /\ DoneOwnsNothing'
  BY <1>1 DEF Inv, ConfirmedIsGone, DoneOnCurrent, DoneOwnsNothing, Gone, Exited, group, facts, ghosts
<1> QED BY <1>5, <1>6, <1>7, <1>8 DEF Inv

-----------------------------------------------------------------------------
(* _terminate_owned                                                        *)

\* What a clean-up leaves alone.
Same == UNCHANGED <<todo, app, downs, active, closed, needs, valid, done, wrote, ghosts>>

\* An answer or a receipt changes neither a group nor what is accounted for.
LEMMA ConfirmedKeeps ==
  ASSUME Inv, call.at \in Ending, Gone(call.s), Confirmed,
         UNCHANGED <<group, pipe, control, receipts>>, Same
  PROVE  Inv'
<1>1. Types /\ Born /\ CallInv /\ RecordInv /\ Accounted /\ EvidenceInv
  BY DEF Inv
<1>2. call.s \in Servers /\ call.op \in {"abandon", "raise", "stop", "close"} /\ server[call.s] # "up"
  BY <1>1 DEF CallInv, Ending, Gone
<1>3. \/ call.op = "abandon" /\ call' = [call EXCEPT !.at = "record"] /\ unknown' = unknown
      \/ call.op = "raise" /\ call' = Idle /\ unknown' = TRUE
      \/ call.op \in {"stop", "close"} /\ call' = [call EXCEPT !.at = "receipt"] /\ unknown' = unknown
  BY DEF Confirmed, At, Raises
<1>4. /\ call' \in Calls
      /\ \/ call.op = "abandon" /\ call'.at = "record" /\ call'.op = call.op /\ call'.s = call.s /\ unknown' = unknown
         \/ call.op = "raise" /\ call' = Idle /\ call'.op = "none" /\ call'.at = "idle" /\ unknown' = TRUE
         \/ call.op \in {"stop", "close"} /\ call'.at = "receipt" /\ call'.op = call.op
            /\ call'.s = call.s /\ unknown' = unknown
  BY <1>1, <1>3 DEF Types, Calls, Idle
<1>5. Types' /\ Born'
  BY <1>1, <1>4 DEF Types, Born, Same, group, ghosts
<1>6. CallInv' /\ RecordInv'
  BY <1>1, <1>2, <1>4 DEF CallInv, RecordInv, Starting, Ending, Same, Gone, Exited, group
<1>7. Accounted' /\ EvidenceInv'
  BY <1>1, <1>2, <1>4 DEF Types, Accounted, EvidenceInv, InCall, Fading, Eof, Starting, Same, group, ghosts
<1>8. ConfirmedIsGone' /\ DoneOnCurrent' /\ DoneOwnsNothing'
  BY DEF Inv, ConfirmedIsGone, DoneOnCurrent, DoneOwnsNothing, Gone, Exited, Same, group, ghosts
<1> QED BY <1>5, <1>6, <1>7, <1>8 DEF Inv

LEMMA UnconfirmedKeeps ==
  ASSUME Inv, call.at \in {"verify", "receipt"}, Unconfirmed,
         UNCHANGED <<group, pipe, control>>, Same,
         receipts' = receipts \/ (receipts' = receipts \cup {call.s} /\ Gone(call.s))
  PROVE  Inv'
<1>1. Types /\ Born /\ CallInv /\ RecordInv /\ Accounted /\ EvidenceInv
  BY DEF Inv
<1>2. call.s \in Servers /\ call.op \in {"abandon", "raise", "stop", "close"} /\ server[call.s] # "up"
  BY <1>1 DEF CallInv, Ending, Gone
<1>3. \/ call.op = "abandon" /\ call' = In("signal", "raise", call.s) /\ unknown' = unknown
      \/ call.op \in {"raise", "stop"} /\ call' = Idle /\ unknown' = TRUE
      \/ call.op = "close" /\ call' = [call EXCEPT !.at = "next"] /\ unknown' = unknown
  BY DEF Unconfirmed, At, Raises
<1>4. /\ call' \in Calls
      /\ \/ call.op = "abandon" /\ call'.at = "signal" /\ call'.op = "raise" /\ call'.s = call.s /\ unknown' = unknown
         \/ call.op \in {"raise", "stop"} /\ call' = Idle /\ call'.op = "none" /\ call'.at = "idle" /\ unknown' = TRUE
         \/ call.op = "close" /\ call'.at = "next" /\ call'.op = "close" /\ call'.s = call.s /\ unknown' = unknown
  BY <1>1, <1>2, <1>3 DEF Types, Calls, Idle, In
<1>5. Types' /\ Born'
  BY <1>1, <1>2, <1>4 DEF Types, Born, Same, group, ghosts
<1>6. CallInv' /\ RecordInv'
  BY <1>1, <1>2, <1>4 DEF CallInv, RecordInv, Starting, Ending, Same, group
<1>7. Accounted' /\ EvidenceInv'
  BY <1>1, <1>2, <1>4 DEF Types, Accounted, EvidenceInv, InCall, Fading, Eof, Starting, Same, group, ghosts
<1>8. ConfirmedIsGone' /\ DoneOnCurrent' /\ DoneOwnsNothing'
  BY DEF Inv, ConfirmedIsGone, DoneOnCurrent, DoneOwnsNothing, Gone, Exited, Same, group, ghosts
<1> QED BY <1>5, <1>6, <1>7, <1>8 DEF Inv

\* TERM and KILL to the group of the call.
LEMMA EndingKeeps ==
  ASSUME Inv, call.at \in {"signal", "kill"}, Fades, Same,
         NEW at \in {"kill", "verify"}, call' = [call EXCEPT !.at = at],
         at = "verify" => server'[call.s] # "up",
         \A s \in Servers \ {call.s} : supervisor'[s] = supervisor[s],
         UNCHANGED <<unknown, pipe, control, receipts>>
  PROVE  Inv'
<1>1. Types /\ Born /\ CallInv /\ RecordInv /\ Accounted /\ EvidenceInv
  BY DEF Inv
<1>2. call.s \in Servers /\ call.op \in {"abandon", "raise", "stop", "close"}
  BY <1>1 DEF CallInv, Ending
<1>3. call' \in Calls /\ call'.at = at /\ call'.op = call.op /\ call'.s = call.s
  BY <1>1 DEF Types, Calls
<1>4. Types' /\ Born'
  BY <1>1, <1>3 DEF Types, Born, Same, Fades, ghosts
<1>5. CallInv' /\ RecordInv'
  BY <1>1, <1>2, <1>3 DEF Types, CallInv, RecordInv, Starting, Ending, Same, Fades
<1>6. call.s \in active \/ InCall(call.s)
  BY <1>1, <1>2 DEF CallInv, InCall, Starting, Ending
<1>7. Accounted' /\ EvidenceInv'
  BY <1>1, <1>2, <1>3, <1>6 DEF Types, Accounted, EvidenceInv, InCall, Fading, Eof, Starting, Same, Fades, ghosts
<1>8. ConfirmedIsGone' /\ DoneOnCurrent' /\ DoneOwnsNothing'
  BY <1>1 DEF Inv, Types, ConfirmedIsGone, DoneOnCurrent, DoneOwnsNothing, Same, Fades, ghosts
<1> QED BY <1>4, <1>5, <1>7, <1>8 DEF Inv

LEMMA SignalKeeps == Inv /\ Signal => Inv'
<1> SUFFICES ASSUME Inv, Signal PROVE Inv'
  OBVIOUS
<1>1. call.at = "signal" /\ Same /\ UNCHANGED <<pipe, control, receipts>> /\ call.s \in Servers
  BY DEF Signal, Same, Inv, CallInv
<1>2. CASE Gone(call.s) /\ Confirmed /\ UNCHANGED group
  BY <1>1, <1>2, ConfirmedKeeps DEF Ending
<1>3. CASE /\ At("kill") /\ UNCHANGED <<unknown, failed>> /\ ServerTermed(call.s)
           /\ supervisor' = [supervisor EXCEPT ![call.s] = IF @ = "watching" THEN "dead" ELSE @]
  <2>1. Fades /\ \A s \in Servers \ {call.s} : supervisor'[s] = supervisor[s]
    BY <1>1, <1>3 DEF Inv, Types, Born, Fades, ServerTermed, Gone, Exited
  <2>2. call' = [call EXCEPT !.at = "kill"]
    BY <1>3 DEF At
  <2> QED BY <1>1, <1>3, <2>1, <2>2, EndingKeeps
<1> QED BY <1>2, <1>3 DEF Signal, NoneLeft

LEMMA KillKeeps == Inv /\ Kill => Inv'
<1> SUFFICES ASSUME Inv, Kill PROVE Inv'
  OBVIOUS
<1>1. call.at = "kill" /\ Same /\ UNCHANGED <<pipe, control, receipts>> /\ call.s \in Servers
  BY DEF Kill, Same, Inv, CallInv
<1>2. CASE Gone(call.s) /\ Confirmed /\ UNCHANGED group
  BY <1>1, <1>2, ConfirmedKeeps DEF Ending
<1>3. CASE /\ At("verify") /\ UNCHANGED <<unknown, failed>>
           /\ supervisor' = [supervisor EXCEPT ![call.s] = "dead"]
           /\ server' = [server EXCEPT ![call.s] = IF @ = "up" THEN "killed" ELSE @]
  <2>1. server[call.s] # "none" /\ supervisor[call.s] # "none"
    BY <1>1 DEF Inv, CallInv, Born
  <2>2. Fades /\ server'[call.s] # "up" /\ \A s \in Servers \ {call.s} : supervisor'[s] = supervisor[s]
    BY <1>1, <1>3, <2>1 DEF Inv, Types, Born, Fades, Gone, Exited
  <2>3. call' = [call EXCEPT !.at = "verify"]
    BY <1>3 DEF At
  <2> QED BY <1>1, <1>3, <2>2, <2>3, EndingKeeps
<1> QED BY <1>2, <1>3 DEF Kill, NoneLeft

LEMMA VerifyKeeps == Inv /\ Verify => Inv'
<1> SUFFICES ASSUME Inv, Verify PROVE Inv'
  OBVIOUS
<1>1. /\ call.at = "verify" /\ Same /\ UNCHANGED <<group, pipe, control, receipts>>
      /\ (Gone(call.s) /\ Confirmed) \/ Unconfirmed
  BY DEF Verify, Same, NoneLeft
<1>2. CASE Gone(call.s) /\ Confirmed
  BY <1>1, <1>2, ConfirmedKeeps DEF Ending
<1>3. CASE Unconfirmed
  BY <1>1, <1>3, UnconfirmedKeeps
<1> QED BY <1>1, <1>2, <1>3

-----------------------------------------------------------------------------
(* managed_web_stop and close                                              *)

\* Both begin with the descriptor of a record of a server that is in the facts.
LEMMA StopRecordKeeps ==
  ASSUME Inv, NEW s \in active, NEW op \in {"stop", "close"}, StopRecord(op, s),
         call.op \notin Starting, call.at \notin {"receipt", "record"},
         op = "stop" => todo' = {}, todo' \subseteq todo,
         UNCHANGED <<group, control, failed, app, downs, receipts, facts, wrote, ghosts>>
  PROVE  Inv'
<1>1. /\ pipe' = [pipe EXCEPT ![control[s]] = Nobody]
      /\ call' = In("signal", op, s) /\ s \in Servers
  BY DEF StopRecord, Inv, Types
<1>2. call' \in Calls /\ call'.at = "signal" /\ call'.op = op /\ call'.s = s
  BY <1>1 DEF In, Calls
<1>3. /\ pipe' \in [Fds -> Servers \cup {Nobody}]
      /\ \A t \in Servers : Eof(t) => Eof(t)'
  BY <1>1, EofStays DEF Inv
<1>4. Types' /\ Born'
  BY <1>2, <1>3 DEF Inv, Types, Born, group, facts, ghosts
<1>5. CallInv' /\ RecordInv'
  BY <1>1, <1>2 DEF Inv, CallInv, RecordInv, Starting, Ending, group, facts
<1>6. Accounted' /\ EvidenceInv'
  BY <1>2, <1>3 DEF Inv, Accounted, EvidenceInv, InCall, Fading, group, facts, ghosts
<1>7. ConfirmedIsGone' /\ DoneOnCurrent' /\ DoneOwnsNothing'
  BY DEF Inv, ConfirmedIsGone, DoneOnCurrent, DoneOwnsNothing, Gone, Exited, group, facts, ghosts
<1> QED BY <1>4, <1>5, <1>6, <1>7 DEF Inv

LEMMA StopKeeps ==
  ASSUME Inv, NEW s \in Servers, Stop(s)
  PROVE  Inv'
<1>1. call = Idle /\ call.at = "idle" /\ call.op = "none" /\ control[s] # 0
  BY DEF Stop, Free, Idle
<1>2. s \in active /\ todo = {}
  BY <1>1 DEF Inv, RecordInv, CallInv
<1>3. call.op \notin Starting /\ todo' = todo /\ StopRecord("stop", s)
      /\ UNCHANGED <<group, control, failed, app, downs, receipts, facts, wrote, ghosts>>
  BY <1>1 DEF Stop, Starting
<1> QED BY <1>1, <1>2, <1>3, StopRecordKeeps

LEMMA CloseNextKeeps ==
  ASSUME Inv, NEW s \in Servers, CloseNext(s)
  PROVE  Inv'
<1>1. call.at = "next" /\ call.op = "close" /\ s \in active
  BY DEF CloseNext, Inv, CallInv, RecordInv
<1>2. call.op \notin Starting /\ todo' \subseteq todo /\ StopRecord("close", s)
      /\ UNCHANGED <<group, control, failed, app, downs, receipts, facts, wrote, ghosts>>
  BY <1>1 DEF CloseNext, Starting
<1> QED BY <1>1, <1>2, StopRecordKeeps

\* A call that makes no start and leaves groups, descriptors and facts alone.
LEMMA CallKeeps ==
  ASSUME Inv, call' \in Calls, CallInv', RecordInv', call.op \notin Starting,
         control' = [s \in Servers |-> control'[s]], todo' \subseteq Servers,
         receipts' = receipts \/ (receipts' = receipts \cup {call.s} /\ call.s \in Servers /\ Gone(call.s)),
         UNCHANGED <<group, pipe, app, downs, facts, wrote, ghosts>>
  PROVE  Inv'
<1>1. Types' /\ Born'
  BY DEF Inv, Types, Born, group, facts, ghosts
<1>2. Accounted' /\ EvidenceInv'
  BY DEF Inv, Accounted, EvidenceInv, InCall, Fading, Eof, group, facts, ghosts
<1>3. ConfirmedIsGone' /\ DoneOnCurrent' /\ DoneOwnsNothing'
  BY DEF Inv, ConfirmedIsGone, DoneOnCurrent, DoneOwnsNothing, Gone, Exited, group, facts, ghosts
<1> QED BY <1>1, <1>2, <1>3 DEF Inv

LEMMA StopAgainKeeps ==
  ASSUME Inv, NEW s \in Servers, StopAgain(s)
  PROVE  Inv'
<1>1. /\ UNCHANGED <<group, pipe, control, todo, failed, app, downs, receipts, facts, wrote, ghosts>>
      /\ call.at = "idle" /\ call.op = "none" /\ control[s] = 0 /\ s \in receipts
      /\ call' = In("record", "stop", s)
  BY DEF StopAgain, Free, Idle
<1>2. call' \in Calls /\ call'.at = "record" /\ call'.op = "stop" /\ call'.s = s
  BY <1>1 DEF In, Calls
<1>3. Gone(s) /\ Gone(s)' /\ supervisor'[s] # "none"
  BY <1>1 DEF Inv, ConfirmedIsGone, Gone, Exited, group
<1>4. CallInv' /\ RecordInv'
  BY <1>1, <1>2, <1>3 DEF Inv, CallInv, RecordInv, Starting, Ending, group, facts
<1>5. /\ call.op \notin Starting /\ control' = [t \in Servers |-> control'[t]]
      /\ todo' \subseteq Servers
  BY <1>1 DEF Inv, Types, Starting
<1> QED BY <1>1, <1>2, <1>4, <1>5, CallKeeps

LEMMA WriteReceiptKeeps == Inv /\ WriteReceipt => Inv'
<1> SUFFICES ASSUME Inv, WriteReceipt PROVE Inv'
  OBVIOUS
<1>1. /\ UNCHANGED <<group, pipe, todo, failed, app, downs, facts, wrote, ghosts>>
      /\ call.at = "receipt" /\ receipts' = receipts \cup {call.s}
      /\ control' = [control EXCEPT ![call.s] = 0]
      /\ call' = [call EXCEPT !.at = IF call.op = "stop" THEN "record" ELSE "next"]
  BY DEF WriteReceipt, At
<1>2. call.op \in {"stop", "close"} /\ Gone(call.s) /\ call.s \in Servers
  BY <1>1 DEF Inv, CallInv
<1>3. /\ call' \in Calls /\ call'.op = call.op /\ call'.s = call.s
      /\ call'.at = (IF call.op = "stop" THEN "record" ELSE "next")
  BY <1>1 DEF Inv, Types, Calls
<1>4. /\ control' = [s \in Servers |-> control'[s]] /\ control'[call.s] = 0
      /\ \A s \in Servers : control'[s] # 0 => control[s] # 0
  BY <1>1, <1>2 DEF Inv, Types
<1>5. Gone(call.s)'
  BY <1>1, <1>2, <1>3 DEF Gone, Exited, group
<1>6. CallInv' /\ RecordInv'
  BY <1>1, <1>2, <1>3, <1>4, <1>5 DEF Inv, CallInv, RecordInv, Starting, Ending, group, facts
<1>7. call.op \notin Starting /\ todo' \subseteq Servers
  BY <1>1, <1>2 DEF Inv, Types, Starting
<1> QED BY <1>1, <1>2, <1>3, <1>4, <1>6, <1>7, CallKeeps

LEMMA ReceiptFailsKeeps == Inv /\ ReceiptFails => Inv'
<1> SUFFICES ASSUME Inv, ReceiptFails PROVE Inv'
  OBVIOUS
<1>1. /\ call.at = "receipt" /\ Unconfirmed /\ Same /\ UNCHANGED <<group, pipe, control>>
      /\ receipts' = receipts \/ receipts' = receipts \cup {call.s}
  BY DEF ReceiptFails, Same
<1>2. Gone(call.s)
  BY <1>1 DEF Inv, CallInv
<1> QED BY <1>1, <1>2, UnconfirmedKeeps

LEMMA CloseKeeps == Inv /\ Close => Inv'
<1> SUFFICES ASSUME Inv, Close PROVE Inv'
  OBVIOUS
<1>1. /\ UNCHANGED <<group, pipe, control, app, downs, receipts, facts, wrote, ghosts>>
      /\ call.at = "idle" /\ call.op = "none" /\ todo' = {s \in Servers : control[s] # 0}
      /\ call' = In("next", "close", Nobody)
  BY DEF Close, Idle
<1>2. call' \in Calls /\ call'.at = "next" /\ call'.op = "close"
  BY <1>1 DEF In, Calls
<1>3. todo' \subseteq active /\ todo' \subseteq Servers
  BY <1>1 DEF Inv, RecordInv
<1>4. CallInv' /\ RecordInv'
  BY <1>1, <1>2, <1>3 DEF Inv, CallInv, RecordInv, Starting, Ending, group, facts
<1>5. call.op \notin Starting /\ control' = [t \in Servers |-> control'[t]]
  BY <1>1 DEF Inv, Types, Starting
<1> QED BY <1>1, <1>2, <1>3, <1>4, <1>5, CallKeeps

-----------------------------------------------------------------------------
(* The application                                                         *)

\* It ends: what it had started and not reported is unknown from now on.
LEMMA EndsKeeps ==
  ASSUME Inv, Ends, unknown' \in BOOLEAN, unknown => unknown', call.op \in Starting => unknown'
  PROVE  Inv'
<1>1. /\ UNCHANGED <<group, receipts, active, closed, needs, valid, done, wrote, unready>>
      /\ pipe' = [n \in Fds |-> Nobody] /\ control' = [s \in Servers |-> 0]
      /\ call' = Idle /\ todo' = {}
      /\ orphans' = orphans \cup {s \in Servers : Exited(s) /\ server[s] = "up"}
  BY DEF Ends
<1>2. call' \in Calls /\ call'.at = "idle" /\ call'.op = "none"
  BY <1>1 DEF Idle, Calls
<1>3. Types' /\ Born'
  BY <1>1, <1>2 DEF Inv, Types, Born, group
<1>4. CallInv' /\ RecordInv'
  BY <1>1, <1>2 DEF Inv, CallInv, RecordInv, Starting, Ending, group
<1>5. \A s \in Servers : Eof(s)'
  BY <1>1 DEF Eof
<1>6. Accounted' /\ EvidenceInv'
  BY <1>1, <1>5 DEF Inv, Accounted, EvidenceInv, InCall, Fading, Exited, group
<1>7. ConfirmedIsGone' /\ DoneOnCurrent' /\ DoneOwnsNothing'
  BY <1>1 DEF Inv, ConfirmedIsGone, DoneOnCurrent, DoneOwnsNothing, Gone, Exited, group
<1> QED BY <1>3, <1>4, <1>6, <1>7 DEF Inv

LEMMA ApplicationEndsKeeps == Inv /\ (Closed \/ Crash) => Inv'
<1> SUFFICES ASSUME Inv, Closed \/ Crash PROVE Inv'
  OBVIOUS
<1>1. CASE Closed
  <2>1. call.op \notin Starting /\ unknown \in BOOLEAN
    BY <1>1 DEF Closed, Inv, Types, CallInv, Starting
  <2> QED BY <1>1, <2>1, EndsKeeps DEF Closed
<1>2. CASE Crash
  BY <1>2, EndsKeeps DEF Crash, Starting
<1> QED BY <1>1, <1>2

LEMMA RestartKeeps == Inv /\ Restart => Inv'
<1> SUFFICES ASSUME Inv, Restart PROVE Inv'
  OBVIOUS
<1>1. UNCHANGED <<group, owner, receipts, facts, wrote, ghosts>>
  BY DEF Restart
<1>2. Types' /\ Born' /\ CallInv' /\ RecordInv'
  BY <1>1 DEF Inv, Types, Born, CallInv, RecordInv, Gone, Exited, Idle, group, owner, facts, ghosts
<1>3. Accounted' /\ EvidenceInv'
  BY <1>1 DEF Inv, Accounted, EvidenceInv, InCall, Fading, Eof, group, owner, facts, ghosts
<1>4. ConfirmedIsGone' /\ DoneOnCurrent' /\ DoneOwnsNothing'
  BY <1>1 DEF Inv, ConfirmedIsGone, DoneOnCurrent, DoneOwnsNothing, Gone, Exited, group, facts, ghosts
<1> QED BY <1>2, <1>3, <1>4 DEF Inv

-----------------------------------------------------------------------------
(* The facts of the conversation                                           *)

LEMMA RecordKeeps == Inv /\ Record => Inv'
<1> SUFFICES ASSUME Inv, Record PROVE Inv'
  OBVIOUS
<1>1. /\ UNCHANGED <<group, pipe, control, todo, receipts, unknown, needs, done, wrote, orphans>>
      /\ call.at = "record" /\ call.op \in {"start", "abandon", "stop"}
      /\ call.s \in Servers /\ supervisor[call.s] # "none"
  BY DEF Record, Inv, CallInv
<1>2. call' = Idle /\ call' \in Calls /\ call'.at = "idle" /\ call'.op = "none"
  BY DEF Record, Idle, Calls
<1>3. \/ /\ call.op = "start" /\ active' = active \cup {call.s} /\ ~valid'
         /\ UNCHANGED <<closed, unready>>
      \/ /\ call.op = "abandon" /\ Gone(call.s) /\ unready' = unready \cup {call.s}
         /\ UNCHANGED <<active, closed, valid>>
      \/ /\ call.op = "stop" /\ Gone(call.s) /\ control[call.s] = 0
         /\ active' = active \ {call.s} /\ closed' = closed \cup {call.s}
         /\ UNCHANGED <<unready, valid>>
  BY <1>1 DEF Record, Invalidates, Inv, CallInv, Types
<1>4. valid' \in BOOLEAN
  BY DEF Record
<1>5. Types' /\ Born'
  BY <1>1, <1>2, <1>3, <1>4 DEF Inv, Types, Born, group
<1>6. CallInv' /\ RecordInv'
  BY <1>1, <1>2, <1>3 DEF Inv, CallInv, RecordInv, Starting, Ending, group
<1>7. Accounted' /\ EvidenceInv'
  BY <1>1, <1>2, <1>3
     DEF Inv, Types, CallInv, Accounted, EvidenceInv, InCall, Fading, Eof, Gone, Starting, group
<1>8. ConfirmedIsGone' /\ DoneOnCurrent' /\ DoneOwnsNothing'
  BY <1>1, <1>3 DEF Inv, ConfirmedIsGone, DoneOnCurrent, DoneOwnsNothing, Gone, Exited, group
<1> QED BY <1>5, <1>6, <1>7, <1>8 DEF Inv

LEMMA ClassifyKeeps == Inv /\ Classify => Inv'
<1> SUFFICES ASSUME Inv, Classify PROVE Inv'
  OBVIOUS
<1>1. /\ UNCHANGED <<group, owner, receipts, active, closed, needs, done, wrote, ghosts>>
      /\ unknown' = FALSE /\ valid' = FALSE /\ Settled
  BY DEF Classify
<1>2. Types' /\ Born' /\ CallInv' /\ RecordInv'
  <2>1. Types'
    BY <1>1 DEF Inv, Types, group, owner, ghosts
  <2>2. Born' /\ RecordInv'
    BY <1>1 DEF Inv, Born, RecordInv, group, owner, ghosts
  <2>3. CallInv'
    BY <1>1 DEF Inv, CallInv, Gone, Exited, Idle, group, owner, ghosts
  <2> QED BY <2>1, <2>2, <2>3
<1>3. \A s \in Servers : server[s] = "up" => ~Fading(s)
  BY <1>1 DEF Inv, Born, Fading, Settled
<1>4. Accounted' /\ EvidenceInv'
  BY <1>1, <1>3 DEF Inv, Accounted, EvidenceInv, InCall, group, owner, ghosts
<1>5. ConfirmedIsGone' /\ DoneOnCurrent' /\ DoneOwnsNothing'
  BY <1>1 DEF Inv, ConfirmedIsGone, DoneOnCurrent, DoneOwnsNothing, Gone, Exited, group, ghosts
<1> QED BY <1>2, <1>4, <1>5 DEF Inv

LEMMA ValidateKeeps == Inv /\ Validate => Inv'
<1> SUFFICES ASSUME Inv, Validate PROVE Inv'
  OBVIOUS
<1>1. /\ UNCHANGED <<group, owner, receipts, active, closed, unknown, needs, done, ghosts>>
      /\ valid' = (active = {}) /\ wrote' = {} /\ ~done
  BY DEF Validate, Eligible
<1>2. Types' /\ Born' /\ CallInv' /\ RecordInv'
  BY <1>1 DEF Inv, Types, Born, CallInv, RecordInv, Gone, Exited, Idle, group, owner, ghosts
<1>3. Accounted' /\ EvidenceInv'
  BY <1>1 DEF Inv, Accounted, EvidenceInv, InCall, Fading, Eof, group, owner, ghosts
<1>4. ConfirmedIsGone' /\ DoneOnCurrent' /\ DoneOwnsNothing'
  BY <1>1 DEF Inv, ConfirmedIsGone, DoneOnCurrent, DoneOwnsNothing, Gone, Exited, group, ghosts
<1> QED BY <1>2, <1>3, <1>4 DEF Inv

\* Nothing is active and no call is open, so nothing is left that could write.
LEMMA CompleteKeeps == Inv /\ Complete => Inv'
<1> SUFFICES ASSUME Inv, Complete PROVE Inv'
  OBVIOUS
<1>1. /\ UNCHANGED <<group, owner, receipts, active, closed, unknown, needs, valid, wrote, ghosts>>
      /\ call.op = "none" /\ ~unknown /\ (needs => valid) /\ active = {} /\ done' = TRUE
  BY DEF Complete, Free, RequireClosed, Idle
<1>2. Types' /\ Born' /\ CallInv' /\ RecordInv'
  BY <1>1 DEF Inv, Types, Born, CallInv, RecordInv, Gone, Exited, Idle, Starting, group, owner, ghosts
<1>3. Accounted' /\ EvidenceInv'
  BY <1>1 DEF Inv, Accounted, EvidenceInv, InCall, Fading, Eof, group, owner, ghosts
<1>4. ConfirmedIsGone'
  BY <1>1 DEF Inv, ConfirmedIsGone, Gone, Exited, group
<1>5. DoneOnCurrent' /\ DoneOwnsNothing'
  BY <1>1 DEF Inv, Types, Accounted, EvidenceInv, InCall, Fading, Starting, DoneOnCurrent, DoneOwnsNothing,
              group, ghosts
<1> QED BY <1>2, <1>3, <1>4, <1>5 DEF Inv

-----------------------------------------------------------------------------
(* The theorems                                                            *)

LEMMA InitIsGood == Init => Inv
<1> SUFFICES ASSUME Init PROVE Inv
  OBVIOUS
<1>1. call = Idle /\ call.at = "idle" /\ call.op = "none" /\ call \in Calls
  BY DEF Init, Idle, Calls
<1>2. Types /\ Born
  BY <1>1 DEF Init, Types, Born
<1>3. CallInv /\ RecordInv
  BY <1>1 DEF Init, CallInv, RecordInv, Starting, Ending
<1>4. Accounted /\ EvidenceInv /\ ConfirmedIsGone /\ DoneOnCurrent /\ DoneOwnsNothing
  BY DEF Init, Accounted, EvidenceInv, ConfirmedIsGone, DoneOnCurrent, DoneOwnsNothing
<1> QED BY <1>2, <1>3, <1>4 DEF Inv

LEMMA NextKeeps == Inv /\ [Next]_vars => Inv'
<1> SUFFICES ASSUME Inv, [Next]_vars PROVE Inv'
  OBVIOUS
<1>1. CASE Owner
  BY <1>1, RegisteredKeeps, GivesUpKeeps, SignalKeeps, KillKeeps, VerifyKeeps, WriteReceiptKeeps,
     ReceiptFailsKeeps, RecordKeeps DEF Owner
<1>2. CASE Close \/ Closed \/ Crash \/ Restart \/ Classify \/ Validate \/ Complete
  BY <1>2, CloseKeeps, ApplicationEndsKeeps, RestartKeeps, ClassifyKeeps, ValidateKeeps, CompleteKeeps
<1>3. ASSUME NEW s \in Servers, Supervisor(s) \/ NoticeEnd(s) \/ Writes(s)
      PROVE  Inv'
  BY <1>3, GroupKeeps, WritesKeeps DEF Supervisor
<1>4. ASSUME NEW s \in Servers, Spawn(s) \/ Stop(s) \/ StopAgain(s) \/ CloseNext(s)
      PROVE  Inv'
  BY <1>4, SpawnKeeps, StopKeeps, StopAgainKeeps, CloseNextKeeps
<1>5. CASE UNCHANGED vars
  <2>1. UNCHANGED <<group, owner, app, downs, receipts, facts, wrote, ghosts>>
    BY <1>5 DEF vars
  <2>2. Types' /\ Born' /\ CallInv' /\ RecordInv'
    BY <2>1 DEF Inv, Types, Born, CallInv, RecordInv, Gone, Exited, Idle, group, owner, facts, ghosts
  <2>3. Accounted' /\ EvidenceInv'
    BY <2>1 DEF Inv, Accounted, EvidenceInv, InCall, Fading, Eof, group, owner, facts, ghosts
  <2>4. ConfirmedIsGone' /\ DoneOnCurrent' /\ DoneOwnsNothing'
    BY <2>1 DEF Inv, ConfirmedIsGone, DoneOnCurrent, DoneOwnsNothing, Gone, Exited, group, facts, ghosts
  <2> QED BY <2>2, <2>3, <2>4 DEF Inv
<1> QED BY <1>1, <1>2, <1>3, <1>4, <1>5 DEF Next

LEMMA WebInvariant == Spec => []Inv
<1> QED BY InitIsGood, NextKeeps, PTL DEF Spec

\* Whatever order the grace periods, failed writes, restarts and repeated attempts come
\* in: a receipt or an answer of managed_web_stop that confirms the clean-up of a server
\* (_terminate_owned, _write_cleanup_receipt) is about one that is gone for good.
THEOREM ConfirmedServersAreGone == Spec => []ConfirmedIsGone
<1>1. Inv => ConfirmedIsGone
  BY DEF Inv
<1> QED BY <1>1, WebInvariant, PTL

\* A goal that asks for a validation is done on evidence that no server has outlived, but
\* for the two kinds the property names (latest_fresh_validation, require_closed).
THEOREM EvidenceIsCurrent == Spec => []DoneOnCurrent
<1>1. Inv => DoneOnCurrent
  BY DEF Inv
<1> QED BY <1>1, WebInvariant, PTL

\* No goal is done with a server running that somebody could still have ended
\* (require_closed).
THEOREM DoneLeavesNoServer == Spec => []DoneOwnsNothing
<1>1. Inv => DoneOwnsNothing
  BY DEF Inv
<1> QED BY <1>1, WebInvariant, PTL
=============================================================================
