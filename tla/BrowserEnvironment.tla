------------------------- MODULE BrowserEnvironment -------------------------
(***************************************************************************)
(* What the port BrowserEnvironment (agent/browser/ports.py) promises the  *)
(* tools of the browser, which keep the writer lock of a profile until a   *)
(* close says CLEANED: one context at a time, none again of a session that *)
(* was closed for good, and nothing left after a shutdown.                 *)
(*                                                                         *)
(* One clause is weaker than its docstring: a close may answer with the    *)
(* receipt of an action, late, and shutdown lets that pass.  The sessions  *)
(* this befell are named (misread), and shutdown vouches for the others.   *)
(*                                                                         *)
(* BrowserWorker implements it with a thread and two queues.  A caller may *)
(* see less than there is: a context of which every answer was lost.       *)
(***************************************************************************)
VARIABLES
  context,    \* the browser context of each session: none, live or closed
  worker,     \* the thread that alone touches them
  cleaned,    \* ghost: sessions whose close was reported as CLEANED
  shut,       \* ghost: shutdown returned without an error
  misread     \* ghost: sessions whose close returned the receipt of an action

Live == {s \in DOMAIN context : context[s] = "live"}
Alive == worker.at # "gone"

EnvInit ==
  /\ \A s \in DOMAIN context : context[s] = "none"
  /\ ~Alive /\ cleaned = {} /\ ~shut /\ misread = {}

\* open and begin_takeover: beside no other context.
Launches(s) ==
  /\ Live \subseteq {s} /\ s \notin cleaned
  /\ context' = [context EXCEPT ![s] = "live"]

\* close, an open or a takeover that failed, and the end of the thread.
Closes(S) ==
  context' = [s \in DOMAIN context |-> IF s \in S THEN "closed" ELSE context[s]]

\* BrowserCleanupReceiptV1: what is not known to be closed is CLEANUP_UNKNOWN.
ReportsCleaned(s) ==
  /\ context[s] = "closed" /\ cleaned' = cleaned \cup {s}
  /\ UNCHANGED <<context, shut, misread>>

\* close: it neither says CLEANED nor CLEANUP_UNKNOWN, once the thread is gone.
Misreports(s) ==
  /\ ~Alive /\ ~Alive'
  /\ misread' = misread \cup {s} /\ UNCHANGED <<context, cleaned, shut>>

\* shutdown raises BrowserCleanupUnknownError unless everything is closed that it can
\* tell from its receipts.
ShutsDown ==
  /\ Live \subseteq misread /\ ~Alive /\ ~Alive'
  /\ shut' = TRUE /\ UNCHANGED <<context, cleaned, misread>>

\* The contexts change only while the thread is there; it comes and goes.
EnvNext ==
  /\ ~shut
  /\ \/ /\ UNCHANGED <<cleaned, shut, misread>>
        /\ \/ UNCHANGED context
           \/ Alive /\ \E s \in DOMAIN context : Launches(s)
           \/ Alive /\ \E S \in SUBSET DOMAIN context : Closes(S)
     \/ \E s \in DOMAIN context : ReportsCleaned(s) \/ Misreports(s)
     \/ ShutsDown

EnvSpec == EnvInit /\ [][EnvNext]_<<context, cleaned, shut, misread, Alive>>
-----------------------------------------------------------------------------
(* Properties                                                              *)

\* close reports CLEANED only of a session whose context is closed and stays so,
\* however late the answers came: the writer lock is released on the strength of it.
CleanedIsClosed == \A s \in cleaned : context[s] = "closed"

\* Never two contexts at once, and so never two writers of one profile: not when an
\* open timed out, a takeover failed or a worker was left behind.
OneContext == \A s, t \in Live : s = t

\* When shutdown returns without an error no thread is there, and a context that is
\* live is one whose close returned the receipt of an action: an unknown close or open
\* is never taken for a clean one.
ShutdownHonest == shut => ~Alive /\ Live \subseteq misread
=============================================================================
