------------------------------ MODULE Browser -------------------------------
(***************************************************************************)
(* Sessions of the site-bound browser: the profile and its writer lock     *)
(* (agent/browser/profile_store.py), the ledger of each session            *)
(* (session_store.py) and the tools that use them (tools.py, takeover.py). *)
(*                                                                         *)
(* An owner is one run of the program.  Owners that follow one another may *)
(* get the same process id; the lock file names the process by its id and  *)
(* its start.  The operations of the profile store exclude one another (a  *)
(* flock for each profile), and so do the writes of a ledger; a tool call  *)
(* makes several of them, and the owner may die between any two and inside *)
(* each, which leaves a truncated file.                                    *)
(*                                                                         *)
(* The browser itself is what module BrowserWorker shows of its adapter: a *)
(* close that reports CLEANED has closed the context.  Left out: the modes *)
(* without a profile, uploads and downloads, what the policy makes of a    *)
(* page, and symbolic links and modes of files.                            *)
(***************************************************************************)
EXTENDS Naturals, FiniteSets

CONSTANTS
  Owners, PidOf,   \* runs of the program, and their process ids
  First,           \* the owners that are there from the start
  Sessions,        \* session_ref; the lease of a session has its name
  NoOne,           \* not an owner
  Torn,            \* a file that was truncated and not yet written
  MaxObs,          \* bound: observations of a session
  MaxActs,         \* bound: actions in the ledgers together
  MaxFaults        \* bound: failing writes and torn files

\* BrowserSessionRecordV1: phase, observation, outcome and number of actions.
Phases == {"OPENING", "ACTIVE", "PREPARED", "EXECUTING", "OBSERVED", "CLOSED"}
Outcomes == {"none", "applied", "not_executed"}
Records == [phase : Phases \cup {"none"}, obs : 0..MaxObs, outcome : Outcomes,
            count : 0..MaxActs]

ASSUME BrowserAssumption ==
  /\ IsFiniteSet(Sessions)
  /\ NoOne \notin Owners \cup Sessions /\ Torn \notin Sessions \cup Records \cup {NoOne}
  /\ PidOf \in [Owners -> Nat] /\ First \subseteq Owners
  /\ \A o, p \in First : PidOf[o] = PidOf[p] => o = p
  /\ MaxObs \in Nat \ {0} /\ MaxActs \in Nat /\ MaxFaults \in Nat

VARIABLES
  proc,     \* owners: not started, running, dead
  at,       \* the tool call each owner is in
  profile,  \* metadata.json: revision, status and where its directory is
  lock,     \* writer.lock: the session whose lease it holds
  book,     \* the ledger of each session
  ses,      \* what the owner of a session has in memory
  web,      \* the browser context of each session, and what it did
  faults

vars == <<proc, at, profile, lock, book, ses, web, faults>>

Idle == [step |-> "idle", s |-> NoOne]
Steps == {"idle", "acquired", "opened", "begun", "failed", "seen", "prepared",
          "executing", "applied", "refused", "closing", "closed"}

\* The steps inside which the ledger is written.
Writing == {"opened", "begun", "seen", "prepared", "applied", "refused", "closing"}

NoBook == [phase |-> "none", obs |-> 0, outcome |-> "none", count |-> 0]
Opening == [NoBook EXCEPT !.phase = "OPENING"]
Readable(b) == b # Torn

\* _Session: its owner, the revision of its lease, the mirror of its ledger, and
\* the observation an action was last prepared on.
NoSession == [owner |-> NoOne, rev |-> 0, active |-> FALSE, mirror |-> NoBook,
              seen |-> 0, bound |-> 0]

Forgotten(x) == [NoSession EXCEPT !.owner = x.owner, !.rev = x.rev]

\* ran: the context did the last action; tried: the actions it did; told: a close
\* was reported as cleaned (ghosts).
NoContext == [ctx |-> "none", obs |-> 0, usable |-> FALSE, headed |-> FALSE,
              ran |-> FALSE, tried |-> 0, told |-> FALSE]
Gone(w, how) == [w EXCEPT !.ctx = how, !.usable = FALSE, !.obs = 0, !.headed = FALSE]
-----------------------------------------------------------------------------
(* The profile store                                                       *)

Up(o) == proc[o] = "up"
MetadataReadable == profile.place = "there" /\ ~profile.torn
ProfileActive == MetadataReadable /\ profile.status = "active"

\* Fault: the lock of a process that is still there is taken over.
StaleFault(o, l) == PidOf[ses[l].owner] # PidOf[o]
\* _assert_lock_takeover: who holds the lock is no longer alive, and does not
\* have this process's own id (with another start it could be either).
Stale(o, l) ==
  LET holder == ses[l].owner IN PidOf[holder] # PidOf[o] /\ ~Up(holder)

\* acquire_writer and _require_no_live_writer: no lock, or one to be replaced.
\* A lock that cannot be read is nobody's: ProfileLockUnknownError.
NoLiveWriter(o) == lock = NoOne \/ (lock \in Sessions /\ Stale(o, lock))

\* release_writer: only the very lease the file names.
Released(s) == IF lock = s THEN NoOne ELSE lock

\* _require_lease_owns_lock and _verify_lease_snapshot.
LeaseHolds(s) == lock = s /\ ProfileActive
-----------------------------------------------------------------------------
(* The session ledger                                                      *)

\* _verify_record: the caller's record is the stored one.
Matches(s) == Readable(book[s]) /\ ses[s].mirror = book[s]

\* Fault: the action is not counted.
PreparedFault(b) == [b EXCEPT !.phase = "PREPARED", !.outcome = "none"]
\* Fault: a refused action is recorded as applied.
ResultFault(b, outcome) == [b EXCEPT !.phase = "OBSERVED", !.outcome = "applied"]
\* Fault: a session closes from every phase.
ClosableFault(b) == TRUE

\* begin_action and record_observation want a settled session.
Settled(b) == b.phase \in {"ACTIVE", "OBSERVED"}
Prepared(b) == [b EXCEPT !.phase = "PREPARED", !.outcome = "none",
                         !.count = b.count + 1]
Executing(b) == [b EXCEPT !.phase = "EXECUTING"]
Result(b, outcome) == [b EXCEPT !.phase = "OBSERVED", !.outcome = outcome]
Closed(b) == [b EXCEPT !.phase = "CLOSED"]
\* ALLOWED_TRANSITIONS into CLOSED.
Closable(b) == b.phase \in {"ACTIVE", "OBSERVED"}
\* pending_recovery.
Unknown(b) == b.phase = "EXECUTING" /\ b.outcome = "none"

\* _mutate truncates the file in place and writes it: an error leaves the old
\* record, nothing, or the new record that could not be confirmed.
Left(old, new) == {old, new, Torn}
Fault == faults < MaxFaults /\ faults' = faults + 1

\* act reads its mirror again after an error; what cannot be read stays.
Reread(x, b) == [x EXCEPT !.mirror = IF Readable(b) THEN b ELSE x.mirror, !.bound = 0]
-----------------------------------------------------------------------------
(* The tools                                                               *)

Mine(o, s) == ses[s].owner = o
Calls(o, s) == Up(o) /\ at[o] = Idle /\ Mine(o, s) /\ ses[s].active
Goes(o, step, s) == at' = [at EXCEPT ![o] = [step |-> step, s |-> s]]
Ends(o) == at' = [at EXCEPT ![o] = Idle]
In(o, step) == Up(o) /\ at[o].step = step

\* Fault: only the status of the profile is checked.
CurrentFault(s) == ProfileActive
\* _require_current_profile.
Current(s) == ProfileActive /\ profile.rev = ses[s].rev
\* _active_session: ledger, mirror and profile agree.
ActiveSession(o, s) == Calls(o, s) /\ Matches(s) /\ Current(s)
Usable(s) == web[s].ctx = "live" /\ web[s].usable
-----------------------------------------------------------------------------
Init ==
  /\ proc = [o \in Owners |-> IF o \in First THEN "up" ELSE "new"]
  /\ at = [o \in Owners |-> Idle]
  /\ profile = [rev |-> 1, status |-> "active", torn |-> FALSE, place |-> "there"]
  /\ lock = NoOne
  /\ book = [s \in Sessions |-> NoBook] /\ ses = [s \in Sessions |-> NoSession]
  /\ web = [s \in Sessions |-> NoContext] /\ faults = 0

\* A process id is reused only after its process is gone.
Start(o) ==
  /\ proc[o] = "new" /\ \A p \in Owners : Up(p) => PidOf[p] # PidOf[o]
  /\ proc' = [proc EXCEPT ![o] = "up"]
  /\ UNCHANGED <<at, profile, lock, book, ses, web, faults>>
-----------------------------------------------------------------------------
(* browser_open                                                            *)

\* The profile is checked again and the lock taken, under the profile's guard.
Acquire(o, s) ==
  /\ Up(o) /\ at[o] = Idle /\ ses[s] = NoSession
  /\ ProfileActive /\ NoLiveWriter(o)
  /\ ses' = [ses EXCEPT ![s].owner = o, ![s].rev = profile.rev]
  /\ \/ lock' = s /\ Goes(o, "acquired", s) /\ UNCHANGED faults
     \* The lock file was replaced in two steps, or could not be confirmed.
     \/ lock' \in Left(NoOne, s) /\ Ends(o) /\ Fault
  /\ UNCHANGED <<proc, profile, book, web>>

\* BrowserEnvironment.open: not started, failed somewhere, or a context.
Launch(o) ==
  /\ In(o, "acquired")
  /\ LET s == at[o].s IN
     \/ /\ lock' = Released(s) /\ Ends(o) /\ UNCHANGED web
     \/ /\ web' = [web EXCEPT ![s].ctx = "lost"] /\ Ends(o) /\ UNCHANGED lock
     \/ /\ web' = [web EXCEPT ![s].ctx = "live", ![s].usable = TRUE]
        /\ Goes(o, "opened", s) /\ UNCHANGED lock
  /\ UNCHANGED <<proc, profile, book, ses, faults>>

\* BrowserSessionStore.begin.
Begin(o) ==
  /\ In(o, "opened")
  /\ LET s == at[o].s IN
     \/ book' = [book EXCEPT ![s] = Opening] /\ Goes(o, "begun", s) /\ UNCHANGED faults
     \/ /\ \E b \in Left(NoBook, Opening) : book' = [book EXCEPT ![s] = b]
        /\ Goes(o, "failed", s) /\ Fault
  /\ UNCHANGED <<proc, profile, lock, ses, web>>

\* compare_and_swap to ACTIVE, and the session is in _active.
Activate(o) ==
  /\ In(o, "begun")
  /\ LET s == at[o].s
         b == [Opening EXCEPT !.phase = "ACTIVE"]
     IN \/ /\ book' = [book EXCEPT ![s] = b]
           /\ ses' = [ses EXCEPT ![s].mirror = b, ![s].active = TRUE]
           /\ Ends(o) /\ UNCHANGED faults
        \/ /\ \E c \in Left(book[s], b) : book' = [book EXCEPT ![s] = c]
           /\ Goes(o, "failed", s) /\ Fault /\ UNCHANGED ses
  /\ UNCHANGED <<proc, profile, lock, web>>

\* The browser is there and its ledger is not: the lease goes only with a
\* confirmed close.
CloseFailedOpen(o) ==
  /\ In(o, "failed")
  /\ LET s == at[o].s IN
     \/ web' = [web EXCEPT ![s] = Gone(web[s], "closed")] /\ lock' = Released(s)
     \/ web' = [web EXCEPT ![s] = Gone(web[s], "lost")] /\ UNCHANGED lock
  /\ Ends(o) /\ UNCHANGED <<proc, profile, book, ses, faults>>
-----------------------------------------------------------------------------
(* browser_observe, browser_act                                            *)

\* The adapter poisons the session when it fails.
Observe(o, s) ==
  /\ ActiveSession(o, s) /\ Usable(s) /\ book[s].obs < MaxObs
  /\ \/ web' = [web EXCEPT ![s].obs = book[s].obs + 1] /\ Goes(o, "seen", s)
     \/ web' = [web EXCEPT ![s].obs = 0, ![s].usable = FALSE] /\ UNCHANGED at
  /\ UNCHANGED <<proc, profile, lock, book, ses, faults>>

\* record_observation; an error is raised as it is.
RecordObservation(o) ==
  /\ In(o, "seen")
  /\ LET s == at[o].s
         b == [book[s] EXCEPT !.obs = web[s].obs]
     IN \/ /\ Settled(book[s])
           /\ book' = [book EXCEPT ![s] = b]
           /\ ses' = [ses EXCEPT ![s].mirror = b, ![s].seen = b.obs]
           /\ UNCHANGED faults
        \/ /\ Settled(book[s]) /\ Fault /\ UNCHANGED ses
           /\ \E c \in Left(book[s], b) : book' = [book EXCEPT ![s] = c]
        \/ ~Settled(book[s]) /\ UNCHANGED <<book, ses, faults>>
  /\ Ends(o) /\ UNCHANGED <<proc, profile, lock, web>>

\* prepare_action: bound to what was last observed; the approval may take long.
PrepareAction(o, s) ==
  /\ ActiveSession(o, s) /\ ses[s].seen # 0 /\ ses[s].bound # ses[s].seen
  /\ ses' = [ses EXCEPT ![s].bound = ses[s].seen]
  /\ UNCHANGED <<proc, at, profile, lock, book, web, faults>>

Acts == {v \in Sessions \X (1..MaxActs) : Readable(book[v[1]]) /\ book[v[1]].count >= v[2]}

\* act: begin_action, durable before anything happens.
BeginAction(o, s) ==
  /\ ActiveSession(o, s) /\ ses[s].bound # 0
  /\ Settled(book[s]) /\ book[s].obs = ses[s].bound /\ Cardinality(Acts) < MaxActs
  /\ \/ book' = [book EXCEPT ![s] = Prepared(book[s])]
        /\ Goes(o, "prepared", s) /\ UNCHANGED <<ses, faults>>
     \/ /\ \E b \in Left(book[s], Prepared(book[s])) :
             /\ book' = [book EXCEPT ![s] = b]
             /\ ses' = [ses EXCEPT ![s] = Reread(ses[s], b)]
        /\ Fault /\ UNCHANGED at
  /\ UNCHANGED <<proc, profile, lock, web>>

MarkExecuting(o) ==
  /\ In(o, "prepared")
  /\ LET s == at[o].s
         next == Executing(book[s])
     IN \/ /\ book' = [book EXCEPT ![s] = next] /\ Goes(o, "executing", s)
           /\ UNCHANGED <<ses, faults>>
        \/ /\ \E b \in Left(book[s], next) :
                /\ book' = [book EXCEPT ![s] = b]
                /\ ses' = [ses EXCEPT ![s] = Reread(ses[s], b)]
           /\ Ends(o) /\ Fault
  /\ UNCHANGED <<proc, profile, lock, web>>

\* BrowserEnvironment.execute looks at the page again: a target that moved is
\* refused, and whatever happens the observation is no longer the last one.
Execute(o) ==
  /\ In(o, "executing")
  /\ LET s == at[o].s
         runs == [web[s] EXCEPT !.obs = 0, !.ran = TRUE, !.tried = web[s].tried + 1]
         current == web[s].usable /\ web[s].obs = ses[s].bound
     IN \/ /\ web[s].usable /\ Goes(o, "refused", s) /\ UNCHANGED ses
           /\ web' = [web EXCEPT ![s].obs = 0, ![s].ran = FALSE]
        \/ /\ current /\ web' = [web EXCEPT ![s] = runs]
           /\ Goes(o, "applied", s) /\ UNCHANGED ses
        \* An error, before the effect or after it.
        \/ /\ \E poisoned \in BOOLEAN :
                \/ web' = [web EXCEPT ![s].ran = FALSE, ![s].usable = @ /\ ~poisoned]
                \/ current /\ web' = [web EXCEPT ![s] = [runs EXCEPT !.usable = ~poisoned]]
           /\ ses' = [ses EXCEPT ![s] = Reread(ses[s], book[s])] /\ Ends(o)
  /\ UNCHANGED <<proc, profile, lock, book, faults>>

\* record_result, outside the try: after an error the mirror is an old one.
RecordResult(o) ==
  /\ \/ In(o, "applied") \/ In(o, "refused")
  /\ LET s == at[o].s
         next == Result(book[s], IF at[o].step = "applied" THEN "applied"
                                                          ELSE "not_executed")
     IN \/ /\ book' = [book EXCEPT ![s] = next]
           /\ ses' = [ses EXCEPT ![s].mirror = next, ![s].bound = 0]
           /\ UNCHANGED faults
        \/ /\ \E b \in Left(book[s], next) : book' = [book EXCEPT ![s] = b]
           /\ ses' = [ses EXCEPT ![s].bound = 0] /\ Fault
  /\ Ends(o) /\ UNCHANGED <<proc, profile, lock, web>>
-----------------------------------------------------------------------------
(* browser_close, owner_shutdown                                           *)

\* The context is closed first; only a clean close of a session without an
\* unknown action goes on to the ledger.  owner_shutdown does not compare
\* ledger and mirror before.
CloseContext(o, s) ==
  /\ web[s].ctx = "live"
  /\ \/ /\ web' = [web EXCEPT ![s] = Gone(web[s], "closed")]
        /\ IF Unknown(ses[s].mirror) THEN UNCHANGED at ELSE Goes(o, "closing", s)
     \/ web' = [web EXCEPT ![s] = Gone(web[s], "lost")] /\ UNCHANGED at
  /\ UNCHANGED <<proc, profile, lock, book, ses, faults>>

Close(o, s) == Calls(o, s) /\ Matches(s) /\ CloseContext(o, s)
OwnerShutdown(o, s) == Calls(o, s) /\ CloseContext(o, s)

CloseLedger(o) ==
  /\ In(o, "closing")
  /\ LET s == at[o].s IN
     \/ /\ Matches(s) /\ Closable(book[s])
        /\ \/ /\ book' = [book EXCEPT ![s] = Closed(book[s])]
              /\ ses' = [ses EXCEPT ![s].mirror = book'[s]]
              /\ Goes(o, "closed", s) /\ UNCHANGED faults
           \/ /\ \E b \in Left(book[s], Closed(book[s])) : book' = [book EXCEPT ![s] = b]
              /\ Ends(o) /\ Fault /\ UNCHANGED ses
     \/ ~(Matches(s) /\ Closable(book[s])) /\ Ends(o) /\ UNCHANGED <<book, ses, faults>>
  /\ UNCHANGED <<proc, profile, lock, web>>

\* release_writer, and the session leaves _active: reported as cleaned.
ReleaseClosed(o) ==
  /\ In(o, "closed")
  /\ LET s == at[o].s IN
     /\ lock' = Released(s)
     /\ ses' = [ses EXCEPT ![s] = Forgotten(ses[s])]
     /\ web' = [web EXCEPT ![s].told = TRUE]
  /\ Ends(o) /\ UNCHANGED <<proc, profile, book, faults>>

\* _outclosing_result: another owner reports a close from the ledger alone.
Outclose(o, s) ==
  /\ Up(o) /\ at[o] = Idle /\ ~(Mine(o, s) /\ ses[s].active)
  /\ Readable(book[s]) /\ book[s].phase = "CLOSED" /\ ~web[s].told
  /\ web' = [web EXCEPT ![s].told = TRUE]
  /\ UNCHANGED <<proc, at, profile, lock, book, ses, faults>>
-----------------------------------------------------------------------------
(* Takeover                                                                *)

\* The headless context is closed and a headed one opened on the same profile.
BeginTakeover(o, s) ==
  /\ ActiveSession(o, s) /\ Usable(s) /\ ~web[s].headed
  /\ \/ web' = [web EXCEPT ![s].headed = TRUE, ![s].obs = 0]
     \/ web' = [web EXCEPT ![s].usable = FALSE, ![s].obs = 0]
  /\ UNCHANGED <<proc, at, profile, lock, book, ses, faults>>

\* advance_revision: once for a lease; a retry after it returns what is there.
AlreadyAdvanced(s) == profile.rev = ses[s].rev + 1

CompleteTakeover(o, s) ==
  /\ Calls(o, s) /\ Matches(s) /\ Usable(s) /\ web[s].headed
  /\ LeaseHolds(s) /\ ~AlreadyAdvanced(s)
  /\ \/ /\ profile' = [profile EXCEPT !.rev = @ + 1]
        /\ UNCHANGED faults \/ Fault   \* or the fsync fails after the write
     \/ profile' = [profile EXCEPT !.torn = TRUE] /\ Fault
  /\ UNCHANGED <<proc, at, lock, book, ses, web>>
-----------------------------------------------------------------------------
(* The owner of the profile, from any process; deaths                      *)

Revoke(o) ==
  /\ Up(o) /\ at[o] = Idle /\ ProfileActive /\ NoLiveWriter(o)
  /\ lock' = NoOne
  /\ \/ profile' = [profile EXCEPT !.status = "revoked"] /\ UNCHANGED faults
     \/ profile' = [profile EXCEPT !.torn = TRUE] /\ Fault
  /\ UNCHANGED <<proc, at, book, ses, web>>

\* Revoked and removed, or set aside when anything is not as it should be.
Clear(o) ==
  /\ Up(o) /\ at[o] = Idle /\ profile.place = "there" /\ NoLiveWriter(o)
  /\ lock' = NoOne
  /\ \/ ~profile.torn /\ profile' = [profile EXCEPT !.place = "gone", !.status = "revoked"]
        /\ UNCHANGED faults
     \/ profile.torn /\ profile' = [profile EXCEPT !.place = "aside"] /\ UNCHANGED faults
     \/ /\ ~profile.torn /\ Fault
        /\ \E place \in {"aside", "there"} :
             profile' = [profile EXCEPT !.place = place, !.status = "revoked"]
  /\ UNCHANGED <<proc, at, book, ses, web>>

\* A death leaves the lock, loses the browser, and may tear the ledger that was
\* being written.
Die(o) ==
  /\ Up(o)
  /\ proc' = [proc EXCEPT ![o] = "dead"] /\ Ends(o)
  /\ web' = [s \in Sessions |-> IF Mine(o, s) /\ web[s].ctx = "live"
                                THEN Gone(web[s], "lost")
                                ELSE web[s]]
  /\ \/ UNCHANGED <<book, faults>>
     \/ \E s \in Sessions :
          /\ Mine(o, s) /\ at[o].s = s /\ at[o].step \in Writing
          /\ book' = [book EXCEPT ![s] = Torn] /\ Fault
  /\ ses' = [s \in Sessions |-> IF Mine(o, s) THEN Forgotten(ses[s]) ELSE ses[s]]
  /\ UNCHANGED <<profile, lock>>

Next ==
  \E o \in Owners :
    \/ Start(o) \/ Launch(o) \/ Begin(o) \/ Activate(o) \/ CloseFailedOpen(o)
    \/ RecordObservation(o) \/ MarkExecuting(o) \/ Execute(o) \/ RecordResult(o)
    \/ CloseLedger(o) \/ ReleaseClosed(o) \/ Revoke(o) \/ Clear(o) \/ Die(o)
    \/ \E s \in Sessions :
         \/ Acquire(o, s) \/ Observe(o, s) \/ PrepareAction(o, s) \/ BeginAction(o, s)
         \/ Close(o, s) \/ OwnerShutdown(o, s) \/ Outclose(o, s)
         \/ BeginTakeover(o, s) \/ CompleteTakeover(o, s)

Spec == Init /\ [][Next]_vars
-----------------------------------------------------------------------------
(* Properties                                                              *)

\* Every reachable state is of the declared types and within its bounds; a
\* ledger's phase and its data agree (_verify_phase_shape).
TypeOK ==
  /\ proc \in [Owners -> {"new", "up", "dead"}]
  /\ at \in [Owners -> [step : Steps, s : Sessions \cup {NoOne}]]
  /\ profile \in [rev : 1..(Cardinality(Sessions) + 1), status : {"active", "revoked"},
                  torn : BOOLEAN, place : {"there", "gone", "aside"}]
  /\ lock \in Sessions \cup {NoOne, Torn}
  /\ book \in [Sessions -> Records \cup {Torn}]
  /\ \A s \in Sessions : Readable(book[s]) =>
       LET b == book[s] IN
       /\ b.phase \in {"none", "OPENING"} => b = [NoBook EXCEPT !.phase = b.phase]
       /\ b.phase = "ACTIVE" => b.count = 0 /\ b.outcome = "none"
       /\ b.phase \in {"PREPARED", "EXECUTING"} => b.count > 0 /\ b.obs > 0 /\ b.outcome = "none"
       /\ b.phase = "OBSERVED" => b.count > 0 /\ b.obs > 0 /\ b.outcome # "none"
       /\ b.phase = "CLOSED" => (b.count = 0 <=> b.outcome = "none")
  /\ ses \in [Sessions -> [owner : Owners \cup {NoOne}, rev : 0..(Cardinality(Sessions) + 1),
                           active : BOOLEAN, mirror : Records, seen : 0..MaxObs,
                           bound : 0..MaxObs]]
  /\ web \in [Sessions -> [ctx : {"none", "live", "closed", "lost"}, obs : 0..MaxObs,
                           usable : BOOLEAN, headed : BOOLEAN, ran : BOOLEAN,
                           tried : 0..MaxActs, told : BOOLEAN]]
  /\ faults \in 0..MaxFaults

\* While a live process has a browser on the profile, or one it could not be
\* sure to have closed, the lock is its lease and nobody has revoked, removed or
\* set aside the profile (acquire_writer, release_writer, revoke, clear).
LockIsHis ==
  \A s \in Sessions :
    web[s].ctx \in {"live", "lost"} /\ Up(ses[s].owner) =>
      lock = s /\ profile.place = "there" /\ profile.status = "active"

\* An action is in the ledger before the browser does it, and each is done once.
WriteAhead ==
  \A s \in Sessions : Readable(book[s]) => web[s].tried <= book[s].count

\* A recorded result says what the browser did (record_result).
ResultTrue ==
  \A s \in Sessions : Readable(book[s]) =>
    /\ book[s].outcome = "applied" => web[s].ran
    /\ book[s].outcome = "not_executed" => ~web[s].ran

\* A CLOSED ledger, and a close reported as cleaned by whatever owner, mean that
\* the context was closed and no action was left with an unknown outcome.
ClosedIsClean ==
  \A s \in Sessions :
    (Readable(book[s]) /\ book[s].phase = "CLOSED") \/ web[s].told =>
      /\ web[s].ctx = "closed"
      /\ Readable(book[s]) /\ (book[s].outcome = "none" => book[s].count = 0)

\* The browser acts only under the lease, on the revision of the profile the
\* session was opened with, and on the observation the ledger names (act).
ActsUnderLease ==
  [][\A s \in Sessions : web'[s].tried > web[s].tried =>
       /\ lock = s /\ profile.rev = ses[s].rev /\ profile.status = "active"
       /\ book[s].phase = "EXECUTING" /\ book[s].obs = web[s].obs]_vars
=============================================================================
