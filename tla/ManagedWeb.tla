------------------------------ MODULE ManagedWeb ------------------------------
(***************************************************************************)
(* Development servers that a task owns (ManagedWebProcessOwner in         *)
(* agent/process/managed_web.py), and what a conversation makes of them.   *)
(*                                                                         *)
(* A server runs in a process group of its own, under a supervisor         *)
(* (managed_web_child.py) that ends the group when the control pipe to     *)
(* the application is closed, whoever closes it.  The owner ends it too:   *)
(* TERM, a grace period, KILL, and a look whether the group is gone; what  *)
(* it has seen gone it writes to a receipt that outlives the application.  *)
(*                                                                         *)
(* The conversation keeps facts: which servers were reported ready and     *)
(* not yet confirmed gone (agent/runtime/resource_lifecycle.py), and       *)
(* whether a validation of the workspace still counts as evidence          *)
(* (agent/runtime/evidence.py).  A server can write to the workspace as    *)
(* long as it lives, so both decide whether the goal is done.              *)
(*                                                                         *)
(* The tools of a conversation run one at a time, and the application      *)
(* ends, or moves to another conversation, between two of them.  Left      *)
(* out: ports and listeners, logs, prepared bindings and leases; a start   *)
(* that is refused before it spawns, and an observation, change nothing.   *)
(***************************************************************************)
EXTENDS Naturals, FiniteSets

CONSTANTS
  Servers,     \* resource_ref; each is the server of one start
  Nobody,      \* no server
  MaxDowns     \* bound: how often the application ends

ASSUME WebAssumption ==
  IsFiniteSet(Servers) /\ Nobody \notin Servers /\ MaxDowns \in Nat

VARIABLES
  supervisor,  \* supervise: none, watching, stopping (in its grace second), dead
  server,      \* the rest of the group: none, up, killed (KILL is pending), gone
  pipe,        \* whose control pipe a descriptor of the application is
  control,     \* _active: the control_fd of each record, 0 if there is none
  call,        \* the call the owner is in
  todo,        \* close: the records it has still to end
  failed,      \* close: some clean-up was not confirmed
  app,         \* up or down
  downs,
  receipts,    \* cleanup receipts on disk
  active,      \* facts: reported ready and not confirmed gone
  closed,      \* facts: reported as confirmed
  unknown,     \* a tool call whose outcome is unknown waits for the user
  needs,       \* the goal asks for a validation
  valid,       \* a validation that still proves the criterion
  done,        \* VERIFIED_DONE
  wrote,       \* ghost: servers that wrote since the last validation
  unready,     \* ghost: servers whose start was answered "not ready"
  orphans      \* ghost: alive without a supervisor when the application ended

group == <<supervisor, server>>
owner == <<pipe, control, call, todo, failed>>
facts == <<active, closed, unknown, needs, valid, done>>
ghosts == <<unready, orphans>>
vars == <<group, owner, app, downs, receipts, facts, wrote, ghosts>>

Fds == 1 .. Cardinality(Servers)
Idle == [at |-> "idle", op |-> "none", s |-> Nobody]
In(at, op, s) == [at |-> at, op |-> op, s |-> s]
At(at) == call' = [call EXCEPT !.at = at]

\* proc.poll() is not None, and group_alive
Exited(s) == supervisor[s] = "dead"
Gone(s) == Exited(s) /\ server[s] = "gone"

\* The supervisor reads the end of its control pipe.
Eof(s) == \A n \in Fds : pipe[n] # s

\* The kernel takes the next tool call.
Free == app = "up" /\ call = Idle /\ ~unknown

TypeOK ==
  /\ supervisor \in [Servers -> {"none", "watching", "stopping", "dead"}]
  /\ server \in [Servers -> {"none", "up", "killed", "gone"}]
  /\ pipe \in [Fds -> Servers \cup {Nobody}]
  /\ control \in [Servers -> Fds \cup {0}]
  /\ call \in [at : {"idle", "waiting", "signal", "kill", "verify", "receipt", "next", "record"},
               op : {"none", "start", "abandon", "raise", "stop", "close"},
               s : Servers \cup {Nobody}]
  /\ todo \subseteq Servers /\ failed \in BOOLEAN
  /\ app \in {"up", "down"} /\ downs \in 0 .. MaxDowns
  /\ receipts \subseteq Servers /\ active \subseteq Servers /\ closed \subseteq Servers
  /\ {unknown, needs, valid, done} \subseteq BOOLEAN
  /\ wrote \subseteq Servers /\ unready \subseteq Servers /\ orphans \subseteq Servers

-----------------------------------------------------------------------------
(* The group: the supervisor, and the server with all it has started. *)

\* TERM reaches the whole group: the server may end, or take its time.
ServerTermed(s) ==
  \/ server' = [server EXCEPT ![s] = IF @ = "up" THEN "gone" ELSE @]
  \/ UNCHANGED server

\* The control pipe is closed.
NoticeEof(s) ==
  /\ supervisor[s] = "watching" /\ Eof(s)
  /\ supervisor' = [supervisor EXCEPT ![s] = "stopping"]
  /\ ServerTermed(s)
  /\ UNCHANGED <<owner, app, downs, receipts, facts, wrote, ghosts>>

\* The approved command has exited (what it left in the group may live on), or
\* the lifetime is over.
NoticeEnd(s) ==
  /\ supervisor[s] = "watching"
  /\ supervisor' = [supervisor EXCEPT ![s] = "stopping"]
  /\ ServerTermed(s)
  /\ UNCHANGED <<owner, app, downs, receipts, facts, wrote, ghosts>>

\* The grace second is over: KILL to the group, the supervisor with it.
StopOwnedGroupFault(s) ==
  /\ supervisor[s] = "stopping"
  /\ supervisor' = [supervisor EXCEPT ![s] = "dead"]
  /\ UNCHANGED <<server, owner, app, downs, receipts, facts, wrote, ghosts>>

StopOwnedGroup(s) ==
  /\ supervisor[s] = "stopping"
  /\ supervisor' = [supervisor EXCEPT ![s] = "dead"]
  /\ server' = [server EXCEPT ![s] = IF @ = "up" THEN "killed" ELSE @]
  /\ UNCHANGED <<owner, app, downs, receipts, facts, wrote, ghosts>>

Dies(s) ==
  /\ server[s] = "killed"
  /\ server' = [server EXCEPT ![s] = "gone"]
  /\ UNCHANGED <<supervisor, owner, app, downs, receipts, facts, wrote, ghosts>>

\* The server writes to the workspace.
Writes(s) ==
  /\ server[s] = "up"
  /\ wrote' = wrote \cup {s}
  /\ UNCHANGED <<group, owner, app, downs, receipts, facts, ghosts>>

-----------------------------------------------------------------------------
(* managed_web_start *)

Lowest == CHOOSE n \in Fds : pipe[n] = Nobody /\ \A m \in 1 .. n - 1 : pipe[m] # Nobody
FdOf(s) == CHOOSE n \in Fds : pipe[n] = s

Spawn(s) ==
  /\ Free /\ ~done /\ supervisor[s] = "none"
  /\ supervisor' = [supervisor EXCEPT ![s] = "watching"]
  /\ server' = [server EXCEPT ![s] = "up"]
  /\ pipe' = [pipe EXCEPT ![Lowest] = s]
  /\ call' = In("waiting", "start", s)
  /\ UNCHANGED <<control, todo, failed, app, downs, receipts, facts, wrote, ghosts>>

\* The group listens on the port: the server gets its record.
Registered ==
  /\ call.at = "waiting" /\ server[call.s] = "up"
  /\ control' = [control EXCEPT ![call.s] = FdOf(call.s)]
  /\ At("record")
  /\ UNCHANGED <<group, pipe, todo, failed, app, downs, receipts, facts, wrote, ghosts>>

\* It does not, in time (abandon), or the start raises.
GivesUp ==
  /\ call.at = "waiting"
  /\ pipe' = [pipe EXCEPT ![FdOf(call.s)] = Nobody]
  /\ \E op \in {"abandon", "raise"} : call' = In("signal", op, call.s)
  /\ UNCHANGED <<group, control, todo, failed, app, downs, receipts, facts, wrote, ghosts>>

-----------------------------------------------------------------------------
(* _terminate_owned *)

\* A tool that raises leaves its call without an outcome.
Raises == call' = Idle /\ unknown' = TRUE

\* The group is seen gone: the caller goes on.
Confirmed ==
  /\ \/ call.op = "abandon" /\ At("record") /\ UNCHANGED unknown
     \/ call.op = "raise" /\ Raises
     \/ call.op \in {"stop", "close"} /\ At("receipt") /\ UNCHANGED unknown
  /\ UNCHANGED failed

\* ProcessCleanupError: a start tries once more and raises; close goes on to the
\* next record.
Unconfirmed ==
  \/ /\ call.op = "abandon" /\ call' = In("signal", "raise", call.s)
     /\ UNCHANGED <<unknown, failed>>
  \/ /\ call.op \in {"raise", "stop"} /\ Raises
     /\ UNCHANGED failed
  \/ /\ call.op = "close" /\ At("next") /\ failed' = TRUE
     /\ UNCHANGED unknown

\* Nothing of the group is left.
NoneLeftFault(s) == Exited(s)
NoneLeft(s) == Gone(s)

\* TERM.  A supervisor that is still watching has no handler and dies of it.
Signal ==
  /\ call.at = "signal"
  /\ \/ /\ NoneLeft(call.s) /\ Confirmed
        /\ UNCHANGED group
     \/ /\ ~NoneLeft(call.s) /\ At("kill")
        /\ supervisor' = [supervisor EXCEPT ![call.s] = IF @ = "watching" THEN "dead" ELSE @]
        /\ ServerTermed(call.s)
        /\ UNCHANGED <<unknown, failed>>
  /\ UNCHANGED <<pipe, control, todo, app, downs, receipts, active, closed, needs, valid, done,
                 wrote, ghosts>>

\* After the grace period: KILL, if anything is left.
Kill ==
  /\ call.at = "kill"
  /\ \/ /\ NoneLeft(call.s) /\ Confirmed
        /\ UNCHANGED group
     \/ /\ ~NoneLeft(call.s) /\ At("verify")
        /\ supervisor' = [supervisor EXCEPT ![call.s] = "dead"]
        /\ server' = [server EXCEPT ![call.s] = IF @ = "up" THEN "killed" ELSE @]
        /\ UNCHANGED <<unknown, failed>>
  /\ UNCHANGED <<pipe, control, todo, app, downs, receipts, active, closed, needs, valid, done,
                 wrote, ghosts>>

\* The group is seen gone, or the time for that is over.
Verify ==
  /\ call.at = "verify"
  /\ IF NoneLeft(call.s) THEN Confirmed ELSE Unconfirmed
  /\ UNCHANGED <<group, pipe, control, todo, app, downs, receipts, active, closed, needs, valid,
                 done, wrote, ghosts>>

-----------------------------------------------------------------------------
(* managed_web_stop and close *)

\* _stop_record begins with the descriptor of the record, whosever it is by now.
StopRecord(op, s) ==
  /\ pipe' = [pipe EXCEPT ![control[s]] = Nobody]
  /\ call' = In("signal", op, s)

Stop(s) ==
  /\ Free /\ control[s] # 0
  /\ StopRecord("stop", s)
  /\ UNCHANGED <<group, control, todo, failed, app, downs, receipts, facts, wrote, ghosts>>

\* There is no record of it, but the receipt of an earlier clean-up.
StopAgain(s) ==
  /\ Free /\ control[s] = 0 /\ s \in receipts
  /\ call' = In("record", "stop", s)
  /\ UNCHANGED <<group, pipe, control, todo, failed, app, downs, receipts, facts, wrote, ghosts>>

\* _write_cleanup_receipt, and the record goes.
WriteReceipt ==
  /\ call.at = "receipt"
  /\ receipts' = receipts \cup {call.s}
  /\ control' = [control EXCEPT ![call.s] = 0]
  /\ At(IF call.op = "stop" THEN "record" ELSE "next")
  /\ UNCHANGED <<group, pipe, todo, failed, app, downs, facts, wrote, ghosts>>

\* The write fails, before the rename or after it: the record stays.
ReceiptFails ==
  /\ call.at = "receipt"
  /\ \/ UNCHANGED receipts
     \/ receipts' = receipts \cup {call.s}
  /\ Unconfirmed
  /\ UNCHANGED <<group, pipe, control, todo, app, downs, active, closed, needs, valid, done, wrote,
                 ghosts>>

\* close, when the application ends or goes to another conversation.
Close ==
  /\ app = "up" /\ call = Idle
  /\ todo' = {s \in Servers : control[s] # 0}
  /\ failed' = FALSE
  /\ call' = In("next", "close", Nobody)
  /\ UNCHANGED <<group, pipe, control, app, downs, receipts, facts, wrote, ghosts>>

CloseNext(s) ==
  /\ call.at = "next" /\ s \in todo
  /\ todo' = todo \ {s}
  /\ StopRecord("close", s)
  /\ UNCHANGED <<group, control, failed, app, downs, receipts, facts, wrote, ghosts>>

-----------------------------------------------------------------------------
(* The application *)

\* With the owner go its records and its ends of the pipes.
Ends ==
  /\ app = "up" /\ downs < MaxDowns
  /\ app' = "down" /\ downs' = downs + 1
  /\ pipe' = [n \in Fds |-> Nobody]
  /\ control' = [s \in Servers |-> 0]
  /\ call' = Idle /\ todo' = {} /\ failed' = FALSE
  /\ orphans' = orphans \cup {s \in Servers : Exited(s) /\ server[s] = "up"}
  /\ UNCHANGED <<group, receipts, active, closed, needs, valid, done, wrote, unready>>

Closed ==
  /\ call.at = "next" /\ todo = {}
  /\ Ends
  /\ UNCHANGED unknown

\* A call that was marked executing and has no result is unknown.
Crash ==
  /\ Ends
  /\ unknown' = (unknown \/ call.op \in {"start", "abandon", "raise", "stop"})

Restart ==
  /\ app = "down"
  /\ app' = "up"
  /\ UNCHANGED <<group, owner, downs, receipts, facts, wrote, ghosts>>

-----------------------------------------------------------------------------
(* The facts of the conversation *)

\* record_tool_result.  A start that is ready invalidates earlier validations by
\* its tool_name; the metadata of one that is not ready has none.
Invalidates(op) == op = "start"

Record ==
  /\ call.at = "record"
  /\ active' = CASE call.op = "start" -> active \cup {call.s}
                 [] call.op = "stop" -> active \ {call.s}
                 [] OTHER -> active
  /\ closed' = IF call.op = "stop" THEN closed \cup {call.s} ELSE closed
  /\ unready' = IF call.op = "abandon" THEN unready \cup {call.s} ELSE unready
  /\ valid' = (valid /\ ~Invalidates(call.op))
  /\ call' = Idle
  /\ UNCHANGED <<group, pipe, control, todo, failed, app, downs, receipts, unknown, needs, done,
                 wrote, orphans>>

\* The user says what became of a call; nobody answers in the second that a
\* supervisor takes to end its group.
Settled == \A s \in Servers : Eof(s) => supervisor[s] \in {"none", "dead"}

Classify ==
  /\ app = "up" /\ call = Idle /\ unknown /\ Settled
  /\ unknown' = FALSE /\ valid' = FALSE
  /\ UNCHANGED <<group, owner, app, downs, receipts, active, closed, needs, done, wrote, ghosts>>

\* A command checks the workspace: its receipt counts if no server is active by
\* the facts before it.
EligibleFault == TRUE
Eligible == active = {}

Validate ==
  /\ Free /\ ~done
  /\ valid' = Eligible
  /\ wrote' = {}
  /\ UNCHANGED <<group, owner, app, downs, receipts, active, closed, unknown, needs, done, ghosts>>

\* require_closed
RequireClosedFault == TRUE
RequireClosed == active = {}

\* derive, and verify_goal_completion
Complete ==
  /\ Free /\ ~done
  /\ needs => valid
  /\ RequireClosed
  /\ done' = TRUE
  /\ UNCHANGED <<group, owner, app, downs, receipts, active, closed, unknown, needs, valid, wrote,
                 ghosts>>

-----------------------------------------------------------------------------
Init ==
  /\ supervisor = [s \in Servers |-> "none"] /\ server = [s \in Servers |-> "none"]
  /\ pipe = [n \in Fds |-> Nobody] /\ control = [s \in Servers |-> 0]
  /\ call = Idle /\ todo = {} /\ failed = FALSE
  /\ app = "up" /\ downs = 0
  /\ receipts = {} /\ active = {} /\ closed = {}
  /\ unknown = FALSE /\ needs \in BOOLEAN /\ valid = FALSE /\ done = FALSE
  /\ wrote = {} /\ unready = {} /\ orphans = {}

Supervisor(s) == NoticeEof(s) \/ StopOwnedGroup(s) \/ Dies(s)
Owner == Registered \/ GivesUp \/ Signal \/ Kill \/ Verify \/ WriteReceipt \/ ReceiptFails \/ Record

Next ==
  \/ Owner \/ Close \/ Closed \/ Crash \/ Restart \/ Classify \/ Validate \/ Complete
  \/ \E s \in Servers :
       \/ Supervisor(s) \/ NoticeEnd(s) \/ Writes(s)
       \/ Spawn(s) \/ Stop(s) \/ StopAgain(s) \/ CloseNext(s)

\* A supervisor is a process of its own, and a killed process dies.
Fairness == \A s \in Servers : WF_vars(Supervisor(s))

Spec == Init /\ [][Next]_vars /\ Fairness

-----------------------------------------------------------------------------
\* What a receipt or an answer of managed_web_stop calls confirmed is gone, the
\* server with its supervisor, also after a restart and after failed attempts.
ConfirmedIsGone == \A s \in receipts \cup closed : Gone(s)

\* A goal that asks for a validation is done only if no server wrote to the
\* workspace since that validation, but for two kinds of servers: those that were
\* answered "not ready", and those that outlived the application unsupervised.
DoneOnCurrent == done /\ needs => wrote \subseteq unready \cup orphans

\* When a goal is done no server runs on, but for one that outlived the
\* application unsupervised.
DoneOwnsNothing == done => \A s \in Servers \ orphans : server[s] # "up"

\* A server whose supervisor sees the application end goes away.
OrphansEnd ==
  \A s \in Servers : (app = "down" /\ supervisor[s] \in {"watching", "stopping"}) ~> Gone(s)
=============================================================================
