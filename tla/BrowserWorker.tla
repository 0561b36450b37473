---------------------------- MODULE BrowserWorker ----------------------------
(***************************************************************************)
(* The adapter of the browser (PlaywrightBrowserEnvironment in             *)
(* agent/browser/playwright_adapter.py): a caller, a worker thread that    *)
(* alone touches the browser, and a queue of requests and one of answers   *)
(* between them.                                                           *)
(*                                                                         *)
(* The caller waits a limited time for an answer, and for the thread to    *)
(* end.  Nothing in an answer says which request it belongs to, so one     *)
(* that comes late is there when the next request is made.  A request that *)
(* no worker takes stays for the next worker.                              *)
(*                                                                         *)
(* One caller at a time: the lock of the adapter, and tools that one       *)
(* thread calls.  The worker looks at _stopped and takes a request in one  *)
(* step here.  Left out: the capacity of the queues, which a single caller *)
(* does not reach, and what is on a page.                                  *)
(***************************************************************************)
EXTENDS BrowserEnvironment, Naturals, Sequences

CONSTANTS
  Sessions,   \* session_ref; each is opened at most once
  None,       \* no session
  MaxUses,    \* bound: requests to observe, execute or take over
  MaxCloses   \* bound: requests to close

ASSUME WorkerAssumption ==
  None \notin Sessions /\ MaxUses \in Nat /\ MaxCloses \in Nat

VARIABLES
  call,       \* the call the caller is in
  fresh,      \* session names no open was asked for yet
  known,      \* _sessions: usable, headed (taken over) or unusable (poisoned)
  stopped,    \* _stopped
  anonymous,  \* _anonymous_open_unknown
  closing,    \* shutdown: whether it is on, what it has yet to close, and failed
  requests, responses,
  held,       \* worker_sessions
  uses, closes

adapter == <<known, stopped, anonymous, closing>>
thread == <<worker, held, context>>
ghosts == <<cleaned, shut, misread>>
vars == <<call, fresh, adapter, requests, responses, thread, ghosts, uses, closes>>

Idle == [at |-> "idle", op |-> "none", s |-> None]
In(stage, op, s) == [at |-> stage, op |-> op, s |-> s]
UseOps == {"observe", "execute", "takeover"}
Ops == UseOps \cup {"open", "close"}

\* An answer: what it answers and the kind of its value.  A handle, an
\* observation (view) and a cleanup receipt name their session; the receipt of an
\* action (acted) does not.
Answer(op, s, value) == [op |-> op, s |-> s, value |-> value]
Values == {"ready", "handle", "view", "acted", "done", "cleaned", "unknown",
           "refused", "error"}
IsError(r) == r.value \in {"refused", "error"}

NoRequest == [op |-> "none", s |-> None]
Requests == [op : Ops, s : Sessions]
Known == {s \in Sessions : known[s] # "no"}
Off == [on |-> FALSE, todo |-> {}, failed |-> FALSE]
-----------------------------------------------------------------------------
(* The caller                                                              *)

Returns == call' = Idle
Send(op, s) ==
  requests' = Append(requests, [op |-> op, s |-> s]) /\ call' = In("wait", op, s)

\* responses.get: the first answer there is, whatever it answers.
Taken == Tail(responses)

\* open, when no worker runs: _ensure_worker starts one and waits for it.
StartWorker(s) ==
  /\ call = Idle /\ ~shut /\ ~closing.on /\ ~stopped /\ ~Alive /\ s \in fresh
  /\ worker' = [at |-> "starting", req |-> NoRequest]
  /\ call' = In("ready", "open", s)
  /\ UNCHANGED <<fresh, adapter, requests, responses, held, context, ghosts, uses,
                 closes>>

\* The first message, if it comes in time, should be the one of the new worker.
WaitReady ==
  /\ call.at = "ready"
  /\ \/ responses # <<>> /\ Head(responses).value = "ready" /\ responses' = Taken
        /\ Send("open", call.s) /\ fresh' = fresh \ {call.s} /\ UNCHANGED stopped
     \/ responses # <<>> /\ Head(responses).value # "ready" /\ responses' = Taken
        /\ stopped' = TRUE /\ call' = In("join", "start", None)
        /\ UNCHANGED <<fresh, requests>>
     \/ responses = <<>> /\ stopped' = TRUE /\ Returns
        /\ UNCHANGED <<fresh, requests, responses>>
  /\ UNCHANGED <<known, anonymous, closing, thread, ghosts, uses, closes>>

\* open, when the worker is there already.
Open(s) ==
  /\ call = Idle /\ ~shut /\ ~closing.on /\ ~stopped /\ Alive /\ s \in fresh
  /\ Send("open", s) /\ fresh' = fresh \ {s}
  /\ UNCHANGED <<adapter, responses, thread, ghosts, uses, closes>>

\* observe, execute and begin_takeover: _require_session refuses what is unusable.
Use(op, s) ==
  /\ call = Idle /\ ~shut /\ ~closing.on /\ uses < MaxUses
  /\ known[s] \in {"usable", "headed"}
  /\ Send(op, s) /\ uses' = uses + 1
  /\ UNCHANGED <<fresh, adapter, responses, thread, ghosts, closes>>

\* close goes on also with a session that was poisoned; shutdown closes each of its
\* sessions once, in some order.
Close(s) ==
  /\ call = Idle /\ ~shut /\ s \in Known /\ closes < MaxCloses
  /\ closing.on => s \in closing.todo
  /\ closing' = [closing EXCEPT !.todo = @ \ {s}]
  /\ Send("close", s) /\ closes' = closes + 1
  /\ UNCHANGED <<fresh, known, stopped, anonymous, responses, thread, ghosts, uses>>

Poison(s) == known' = [known EXCEPT ![s] = "unusable"]

\* An open that got an error or no answer: there is no session_ref, so the worker
\* is told to stop and the outcome stays unknown for good.
OpenFails ==
  /\ anonymous' = TRUE /\ stopped' = TRUE /\ call' = In("join", "start", None)
  /\ UNCHANGED <<known, requests, closing>>

\* The tool compares the authority of the handle with that of its own spec.
IsHandle(r) == r.value = "handle" /\ r.s = call.s

\* open registers the session its answer names.  A value without one raises, past
\* the handler; a handle that is not the one asked for the tool closes at once.
OpenReturns(r) ==
  /\ IF r.value \in {"handle", "view", "cleaned", "unknown"}
     THEN /\ known' = [known EXCEPT ![r.s] = "usable"]
          /\ IF IsHandle(r) THEN Returns /\ UNCHANGED requests ELSE Send("close", r.s)
     ELSE Returns /\ UNCHANGED <<known, requests>>
  /\ UNCHANGED <<stopped, anonymous, closing>>

UseFails(poisons) ==
  /\ IF poisons THEN Poison(call.s) ELSE UNCHANGED known
  /\ Returns /\ UNCHANGED <<stopped, anonymous, requests, closing>>

UseReturns ==
  /\ known' = IF call.op = "takeover" THEN [known EXCEPT ![call.s] = "headed"] ELSE known
  /\ Returns /\ UNCHANGED <<stopped, anonymous, requests, closing>>

\* close returns what it read: the receipt of an action has an outcome too.
HasOutcome(r) == r.value \in {"cleaned", "unknown", "acted"}

\* close: a clean session is removed, any other stays as unusable; then the worker is
\* told to stop.
CloseGoesOn(outcome) ==
  /\ known' = [known EXCEPT ![call.s] = IF outcome = "cleaned" THEN "no" ELSE "unusable"]
  /\ stopped' = TRUE /\ call' = In("join", outcome, call.s)
  /\ UNCHANGED <<anonymous, requests, closing>>
\* What a close that shutdown makes adds to its failures.
Counts(failure) == closing' = [closing EXCEPT !.failed = closing.on /\ (@ \/ failure)]
\* A value without an outcome: the call raises half way.
CloseRaises ==
  /\ known' = [known EXCEPT ![call.s] = "unusable"]
  /\ Returns /\ Counts(TRUE) /\ UNCHANGED <<stopped, anonymous, requests>>

Receive ==
  /\ call.at = "wait" /\ responses # <<>> /\ responses' = Taken
  /\ LET r == Head(responses) IN
       CASE call.op = "open" -> IF IsError(r) THEN OpenFails ELSE OpenReturns(r)
         [] call.op \in UseOps ->
              IF IsError(r) THEN UseFails(r.value = "error") ELSE UseReturns
         [] call.op = "close" ->
              IF IsError(r) \/ r.value = "ready" THEN CloseGoesOn("unknown")
              ELSE IF ~HasOutcome(r) THEN CloseRaises
              ELSE CloseGoesOn(r.value)
  /\ UNCHANGED <<fresh, thread, ghosts, uses, closes>>

\* Every roundtrip ends after response_timeout, if there is no answer by then.
TimeOut ==
  /\ call.at = "wait" /\ responses = <<>>
  /\ CASE call.op = "open" -> OpenFails
       [] call.op \in UseOps -> UseFails(TRUE)
       [] call.op = "close" -> CloseGoesOn("unknown")
  /\ UNCHANGED <<fresh, responses, thread, ghosts, uses, closes>>

\* join, up to join_timeout.  A worker that stays makes the outcome unknown.  Only a
\* clean close whose worker has ended makes the adapter fit for another session, and
\* is reported as CLEANED.
Join ==
  /\ call.at = "join"
  /\ IF call.op = "cleaned" /\ ~Alive
     THEN stopped' = FALSE /\ cleaned' = cleaned \cup {call.s}
     ELSE UNCHANGED <<stopped, cleaned>>
  /\ misread' = IF call.op = "acted" /\ ~Alive THEN misread \cup {call.s} ELSE misread
  /\ Counts(call.op = "unknown" \/ Alive)
  /\ Returns
  /\ UNCHANGED <<fresh, known, anonymous, requests, responses, thread,
                 shut, uses, closes>>

\* Fault: an open with an unknown outcome is forgotten.
NothingUnknownFault == TRUE
NothingUnknown == ~anonymous

\* shutdown closes what is there, but not again what is unusable when no worker is
\* left to answer: that has failed, as has an open with an unknown outcome.
Lost == {s \in Known : known[s] = "unusable" /\ ~Alive}
Shutdown ==
  /\ call = Idle /\ ~shut /\ ~closing.on
  /\ closing' = [on |-> TRUE, todo |-> Known \ Lost, failed |-> ~NothingUnknown \/ Lost # {}]
  /\ UNCHANGED <<call, fresh, known, stopped, anonymous, requests, responses, thread,
                 ghosts, uses, closes>>

\* It raises when a close had an unknown outcome or raised, or when a worker is left.
ShutdownReturns ==
  /\ call = Idle /\ closing.on /\ closing.todo = {}
  /\ shut' = ~(closing.failed \/ Alive) /\ closing' = Off
  /\ UNCHANGED <<call, fresh, known, stopped, anonymous, requests, responses, thread,
                 cleaned, misread, uses, closes>>
-----------------------------------------------------------------------------
(* The worker                                                              *)

Put(r) == responses' = Append(responses, r)
At(where) == worker' = [at |-> where, req |-> NoRequest]

\* Playwright starts, or the thread reports that it did not and ends.
Ready ==
  /\ worker.at = "starting"
  /\ \/ Put(Answer("ready", None, "ready")) /\ At("loop")
     \/ Put(Answer("ready", None, "error")) /\ At("gone")
  /\ UNCHANGED <<call, fresh, adapter, requests, held, context, ghosts, uses, closes>>

Take ==
  /\ worker.at = "loop" /\ ~stopped /\ requests # <<>>
  /\ worker' = [at |-> "busy", req |-> Head(requests)] /\ requests' = Tail(requests)
  /\ UNCHANGED <<call, fresh, adapter, responses, held, context, ghosts, uses, closes>>

\* The idle loop lets the pages of the sessions work, by calls to Playwright.
Pump ==
  /\ worker.at = "loop" /\ ~stopped /\ requests = <<>> /\ held # {} /\ At("pumping")
  /\ UNCHANGED <<call, fresh, adapter, requests, responses, held, context, ghosts, uses,
                 closes>>
Pumped ==
  /\ worker.at = "pumping" /\ At("loop")
  /\ UNCHANGED <<call, fresh, adapter, requests, responses, held, context, ghosts, uses,
                 closes>>

\* The answer, and whether the loop goes on after it: not when it was told to stop
\* and there was no error, nor after a failed open or a close that leave nothing.
Answers(op, s, value) ==
  /\ Put(Answer(op, s, value))
  /\ LET failed == value \in {"error", "refused"}
         leaves == \/ stopped /\ ~failed
                   \/ held' = {} /\ op = "open" /\ failed
                   \/ held' = {} /\ op = "close" /\ ~failed
     IN At(IF leaves THEN "leaving" ELSE "loop")

\* _worker_open: one active session.
Free == held = {}

\* A failed open leaves nothing behind, or a context that no session holds.
DoOpen(s) ==
  \/ /\ Free /\ held' = held \cup {s} /\ context' = [context EXCEPT ![s] = "live"]
     /\ Answers("open", s, "handle")
  \/ /\ UNCHANGED held
     /\ IF Free THEN \E c \in {"none", "live", "closed"} : context' = [context EXCEPT ![s] = c]
        ELSE UNCHANGED context
     /\ \E value \in {"error", "refused"} : Answers("open", s, value)

\* observe and execute leave the context as it is; a session that is not there is
\* an error, and so is what fails; execute may refuse, or know that it did nothing.
DoUse(op, s) ==
  /\ UNCHANGED <<held, context>>
  /\ \/ s \in held /\ op = "observe" /\ Answers(op, s, "view")
     \/ s \in held /\ op = "execute"
          /\ \E value \in {"acted", "done", "refused"} : Answers(op, s, value)
     \/ Answers(op, s, "error")

\* _worker_begin_takeover closes one context and launches another; it may fail
\* before, between and after, and be refused its page once it is launched.
DoTakeover(s) ==
  /\ UNCHANGED held
  /\ \/ s \in held /\ context' = [context EXCEPT ![s] = "live"]
        /\ \E value \in {"done", "refused"} : Answers("takeover", s, value)
     \/ /\ IF s \in held
           THEN \E c \in {context[s], "closed", "live"} : context' = [context EXCEPT ![s] = c]
           ELSE UNCHANGED context
        /\ Answers("takeover", s, "error")

CloseOutcome(closed) == IF closed THEN "cleaned" ELSE "unknown"

\* _worker_close: the session is forgotten whether its context closed or not; an
\* error of page.close alone also makes the outcome unknown.
DoClose(s) ==
  \/ /\ s \in held /\ held' = held \ {s}
     /\ \/ \E closed \in BOOLEAN :
             /\ context' = [context EXCEPT ![s] = IF closed THEN "closed" ELSE @]
             /\ Answers("close", s, CloseOutcome(closed))
        \/ context' = [context EXCEPT ![s] = "closed"] /\ Answers("close", s, "unknown")
  \/ s \notin held /\ UNCHANGED <<held, context>> /\ Answers("close", s, "error")

\* _dispatch
Do ==
  /\ worker.at = "busy"
  /\ LET q == worker.req IN
       CASE q.op = "open" -> DoOpen(q.s)
         [] q.op \in {"observe", "execute"} -> DoUse(q.op, q.s)
         [] q.op = "takeover" -> DoTakeover(q.s)
         [] q.op = "close" -> DoClose(q.s)
  /\ UNCHANGED <<call, fresh, adapter, requests, ghosts, uses, closes>>

\* Fault: a loop that is told to stop leaves only when no request is left.
SeesStopFault == stopped /\ requests = <<>>
\* The loop looks at _stopped before it takes a request.
SeesStop == stopped

Stops ==
  /\ worker.at = "loop" /\ SeesStop /\ At("leaving")
  /\ UNCHANGED <<call, fresh, adapter, requests, responses, held, context, ghosts, uses,
                 closes>>

\* The finally of the loop closes what is held, as far as it can; Playwright stops.
Leave ==
  /\ worker.at = "leaving" /\ At("gone") /\ held' = {}
  /\ \E shutNow \in SUBSET Live :
       context' = [s \in Sessions |-> IF s \in shutNow THEN "closed" ELSE context[s]]
  /\ UNCHANGED <<call, fresh, adapter, requests, responses, ghosts, uses, closes>>
-----------------------------------------------------------------------------

Init ==
  /\ call = Idle /\ fresh = Sessions
  /\ known = [s \in Sessions |-> "no"] /\ stopped = FALSE /\ anonymous = FALSE
  /\ closing = Off
  /\ requests = <<>> /\ responses = <<>>
  /\ worker = [at |-> "gone", req |-> NoRequest]
  /\ held = {} /\ context = [s \in Sessions |-> "none"]
  /\ cleaned = {} /\ shut = FALSE /\ misread = {} /\ uses = 0 /\ closes = 0

Caller == WaitReady \/ Receive \/ TimeOut \/ Join
Worker == Ready \/ Take \/ Pump \/ Pumped \/ Do \/ Stops \/ Leave

Next ==
  \/ \E s \in Sessions :
       StartWorker(s) \/ Open(s) \/ Close(s) \/ \E op \in UseOps : Use(op, s)
  \/ Caller \/ Shutdown \/ ShutdownReturns \/ Worker

\* The waits of the caller and of the loop are timed.  The calls of the worker to
\* Playwright (Ready, Do, Pumped, Leave) are not, or not all: they may never end.
Fairness == WF_vars(Caller) /\ WF_vars(Take) /\ WF_vars(Stops)
Spec == Init /\ [][Next]_vars /\ Fairness
-----------------------------------------------------------------------------
(* Properties                                                              *)

\* The shape of every variable: _sessions, the queues and the thread.
TypeOK ==
  /\ call \in [at : {"idle", "ready", "wait", "join"},
               op : Ops \cup {"none", "start", "cleaned", "unknown", "acted"},
               s : Sessions \cup {None}]
  /\ fresh \subseteq Sessions
  /\ known \in [Sessions -> {"no", "usable", "headed", "unusable"}]
  /\ stopped \in BOOLEAN /\ anonymous \in BOOLEAN /\ shut \in BOOLEAN
  /\ closing \in [on : BOOLEAN, todo : SUBSET Sessions, failed : BOOLEAN]
  /\ requests \in Seq(Requests)
  /\ responses \in Seq([op : Ops \cup {"ready"}, s : Sessions \cup {None}, value : Values])
  /\ worker \in [at : {"gone", "starting", "loop", "pumping", "busy", "leaving"},
                 req : Requests \cup {NoRequest}]
  /\ held \subseteq Sessions /\ cleaned \subseteq Sessions /\ misread \subseteq Sessions
  /\ context \in [Sessions -> {"none", "live", "closed"}]
  /\ uses \in 0..MaxUses /\ closes \in 0..MaxCloses

\* A worker that is told to stop ends, also with requests that nobody waits for,
\* unless a call to Playwright never returns: then shutdown and close say so.
InPlaywright == worker.at \in {"starting", "pumping", "busy", "leaving"}
WorkerStops == stopped ~> (~Alive \/ ~stopped \/ []InPlaywright)
=============================================================================
