--------------------------- MODULE BrowserProofs ---------------------------
(***************************************************************************)
(* Proofs about Browser, for any runs of the program with any process ids, *)
(* any number of sessions and any number of failing writes: the profile    *)
(* belongs to the one session that has a browser on it, an action is in    *)
(* the ledger before it is done, results and closes are true, and the      *)
(* browser acts only under the lease.                                      *)
(*                                                                         *)
(* A session has one owner for good, and only the owner's calls work on    *)
(* its ledger and its browser; so what a call has read of them is still    *)
(* there at its next step (PlaceInv).  The profile and its lock are shared:*)
(* a session that is open, or might have left a browser behind, is the one *)
(* that the lock names (HoldInv).                                          *)
(*                                                                         *)
(* Then about the adapter that the tools drive, BrowserWorker, as Adapter. *)
(***************************************************************************)
EXTENDS Browser, BrowserEnvironment, Sequences, FiniteSetTheorems, TLAPS

Ats == [step : Steps, s : Sessions \cup {NoOne}]
Profiles == [rev : 1..(Cardinality(Sessions) + 1), status : {"active", "revoked"},
             torn : BOOLEAN, place : {"there", "gone", "aside"}]
Lives == [owner : Owners \cup {NoOne}, rev : 0..(Cardinality(Sessions) + 1),
          active : BOOLEAN, mirror : Records, seen : 0..MaxObs, bound : 0..MaxObs]
Contexts == [ctx : {"none", "live", "closed", "lost"}, obs : 0..MaxObs,
             usable : BOOLEAN, headed : BOOLEAN, ran : BOOLEAN,
             tried : 0..MaxActs, told : BOOLEAN]

\* The ledgers whose phase and data agree.
Shaped(b) ==
  /\ b.phase \in {"none", "OPENING"} => b = [NoBook EXCEPT !.phase = b.phase]
  /\ b.phase = "ACTIVE" => b.count = 0 /\ b.outcome = "none"
  /\ b.phase \in {"PREPARED", "EXECUTING"} => b.count > 0 /\ b.obs > 0 /\ b.outcome = "none"
  /\ b.phase = "OBSERVED" => b.count > 0 /\ b.obs > 0 /\ b.outcome # "none"
  /\ b.phase = "CLOSED" => (b.count = 0 <=> b.outcome = "none")
Books == {b \in Records : Shaped(b)} \cup {Torn}

-----------------------------------------------------------------------------
(* The inductive invariant                                                 *)

\* What a call knows, between its steps, of its session x, the ledger b, the
\* context w and the revision of the profile.
Knows(step, x, b, w, rev) ==
  /\ step \in {"seen", "prepared", "executing", "applied", "refused", "closing", "closed"} =>
       x.active
  /\ step \in {"acquired", "opened", "begun", "failed"} => ~x.active
  /\ step \in {"acquired", "opened"} => b = NoBook
  /\ step = "acquired" => w = NoContext
  /\ step = "begun" => b = Opening
  /\ step \in {"opened", "begun", "failed", "seen"} => w.ctx = "live"
  /\ step = "failed" => b = Torn \/ b.phase \in {"none", "OPENING", "ACTIVE"}
  /\ step = "seen" => b # Torn /\ b.phase # "CLOSED" /\ w.obs = b.obs + 1
  /\ step = "prepared" => b # Torn /\ b.phase = "PREPARED"
  /\ step \in {"executing", "applied", "refused"} => b # Torn /\ b.phase = "EXECUTING"
  /\ step \in {"prepared", "executing"} =>
       b.obs = x.bound /\ w.tried < b.count /\ rev = x.rev
  /\ step = "applied" => w.ran
  /\ step = "refused" => ~w.ran
  /\ step \in {"closing", "closed"} => w.ctx = "closed"
  /\ step = "closing" => b = Torn \/ b.phase # "CLOSED"
  /\ step = "closed" => b # Torn /\ b.phase = "CLOSED"

\* Busy with session s: the call is under way, its session is its owner's.
PlaceInv ==
  \A o \in Owners :
    \/ at[o] = Idle
    \/ /\ Up(o) /\ at[o].s \in Sessions /\ at[o].step # "idle" /\ Mine(o, at[o].s)
       /\ Knows(at[o].step, ses[at[o].s], book[at[o].s], web[at[o].s], profile.rev)

\* What holds of a session at any time, whoever looks at it.
Sound(x, b, w) ==
  /\ x.owner = NoOne => x = NoSession /\ b = NoBook /\ w = NoContext
  /\ w.usable => w.ctx = "live"
  /\ b # Torn =>
       /\ w.tried <= b.count
       /\ b.outcome = "applied" => w.ran
       /\ b.outcome = "not_executed" => ~w.ran
       /\ b.phase = "CLOSED" => w.ctx = "closed"
  /\ w.told => b # Torn /\ b.phase = "CLOSED"
SoundInv == \A s \in Sessions : Sound(ses[s], book[s], web[s])

\* A dead owner has nothing open.
DeadInv ==
  \A s \in Sessions, o \in Owners : Mine(o, s) /\ ~Up(o) =>
    proc[o] = "dead" /\ ~ses[s].active /\ web[s].ctx # "live"

\* A session that needs the profile has the lock and an active profile, which it
\* has advanced at most once.
Needs(a, s, x, w) ==
  a = [step |-> "acquired", s |-> s] \/ x.active \/ w.ctx \in {"live", "lost"}
Held(s) == \E o \in Owners : Mine(o, s) /\ Up(o) /\ Needs(at[o], s, ses[s], web[s])
Owned(l, p, s, rev) ==
  l = s /\ p.place = "there" /\ p.status = "active" /\ p.rev \in {rev, rev + 1}
HoldInv == \A s \in Sessions : Held(s) => Owned(lock, profile, s, ses[s].rev)

\* Every advance of the profile was of a session with the revision before.
RevInv == \A r \in 1..(profile.rev - 1) : \E s \in Sessions : ses[s].rev = r

Inv == TypeOK /\ PlaceInv /\ SoundInv /\ DeadInv /\ HoldInv /\ RevInv

USE BrowserAssumption

\* The type invariant in the names of this module.
LEMMA Types ==
  TypeOK <=>
    /\ proc \in [Owners -> {"new", "up", "dead"}] /\ at \in [Owners -> Ats]
    /\ profile \in Profiles /\ lock \in Sessions \cup {NoOne, Torn}
    /\ book \in [Sessions -> Books] /\ ses \in [Sessions -> Lives]
    /\ web \in [Sessions -> Contexts] /\ faults \in 0..MaxFaults
<1>1. book \in [Sessions -> Books] <=>
        /\ book \in [Sessions -> Records \cup {Torn}]
        /\ \A s \in Sessions : Readable(book[s]) => Shaped(book[s])
  <2>1. ASSUME book \in [Sessions -> Books]
        PROVE  /\ book \in [Sessions -> Records \cup {Torn}]
               /\ \A s \in Sessions : Readable(book[s]) => Shaped(book[s])
    BY <2>1 DEF Books, Readable
  <2>2. ASSUME book \in [Sessions -> Records \cup {Torn}],
               \A s \in Sessions : Readable(book[s]) => Shaped(book[s])
        PROVE  book \in [Sessions -> Books]
    BY <2>2 DEF Books, Readable
  <2> QED BY <2>1, <2>2
<1> QED BY <1>1 DEF TypeOK, Shaped, Ats, Profiles, Lives, Contexts

\* The same of the next state.
LEMMA TypesNext ==
  ASSUME proc' \in [Owners -> {"new", "up", "dead"}], at' \in [Owners -> Ats],
         profile' \in Profiles, lock' \in Sessions \cup {NoOne, Torn},
         book' \in [Sessions -> Books], ses' \in [Sessions -> Lives],
         web' \in [Sessions -> Contexts], faults' \in 0..MaxFaults
  PROVE  TypeOK'
<1>1. book' \in [Sessions -> Records \cup {Torn}]
  BY DEF Books
<1>2. \A s \in Sessions : book'[s] # Torn => Shaped(book'[s])
  BY DEF Books
<1> QED BY <1>1, <1>2 DEF TypeOK, Shaped, Ats, Profiles, Lives, Contexts, Readable

-----------------------------------------------------------------------------
(* What a step of an owner does to the others                              *)

\* One value of a function is put, or stays.
Put(f, g, i, v) == g = [f EXCEPT ![i] = v] \/ (g = f /\ v = f[i])

LEMMA PutTypes ==
  ASSUME NEW D, NEW T, NEW f \in [D -> T], NEW i \in D, NEW v \in T, NEW g, Put(f, g, i, v)
  PROVE  g \in [D -> T] /\ g[i] = v /\ \A j \in D : j # i => g[j] = f[j]
BY DEF Put

\* The owner o, free or in a call for s, leaves the session s as x, b and w, and
\* is at a.
Leaves(o, s, a, x, b, w) ==
  /\ Up(o) /\ (at[o] = Idle \/ at[o].s = s) /\ ses[s].owner \in {o, NoOne}
  /\ a \in Ats /\ x \in Lives /\ b \in Books /\ w \in Contexts
  /\ Put(at, at', o, a) /\ Put(ses, ses', s, x) /\ Put(book, book', s, b) /\ Put(web, web', s, w)
  /\ UNCHANGED <<proc, profile>> /\ faults' \in 0..MaxFaults
  /\ x.owner = o /\ (x.rev = ses[s].rev \/ ses[s].rev = 0)
  /\ a = Idle \/ (a.s = s /\ a.step # "idle" /\ Knows(a.step, x, b, w, profile.rev))
  /\ Sound(x, b, w)

\* A step that leaves its own session as the invariant wants it, and takes nobody
\* else's lock, keeps the invariant: what it did not write is another owner's.
LEMMA StepKeeps ==
  ASSUME Inv, NEW o \in Owners, NEW s \in Sessions, NEW a, NEW x, NEW b, NEW w,
         Leaves(o, s, a, x, b, w), lock' \in Sessions \cup {NoOne, Torn},
         lock' = lock \/ \A r \in Sessions : r # s => ~Held(r),
         Needs(a, s, x, w) => Owned(lock', profile, s, x.rev)
  PROVE  Inv'
<1>1. /\ at' \in [Owners -> Ats] /\ at'[o] = a /\ \A q \in Owners : q # o => at'[q] = at[q]
      /\ ses' \in [Sessions -> Lives] /\ ses'[s] = x
      /\ \A r \in Sessions : r # s => ses'[r] = ses[r]
      /\ book' \in [Sessions -> Books] /\ book'[s] = b
      /\ \A r \in Sessions : r # s => book'[r] = book[r]
      /\ web' \in [Sessions -> Contexts] /\ web'[s] = w
      /\ \A r \in Sessions : r # s => web'[r] = web[r]
  <2>1. /\ at \in [Owners -> Ats] /\ book \in [Sessions -> Books]
        /\ ses \in [Sessions -> Lives] /\ web \in [Sessions -> Contexts]
    BY Types DEF Inv
  <2>2. at' \in [Owners -> Ats] /\ at'[o] = a /\ \A q \in Owners : q # o => at'[q] = at[q]
    <3>1. o \in Owners /\ a \in Ats /\ Put(at, at', o, a)
      BY DEF Leaves
    <3> QED BY <2>1, <3>1 DEF Put
  <2>3. ses' \in [Sessions -> Lives] /\ ses'[s] = x /\ \A r \in Sessions : r # s => ses'[r] = ses[r]
    <3>1. x \in Lives /\ Put(ses, ses', s, x)
      BY DEF Leaves
    <3> QED BY <2>1, <3>1 DEF Put
  <2>4. book' \in [Sessions -> Books] /\ book'[s] = b /\ \A r \in Sessions : r # s => book'[r] = book[r]
    <3>1. b \in Books /\ Put(book, book', s, b)
      BY DEF Leaves
    <3> QED BY <2>1, <3>1 DEF Put
  <2>5. web' \in [Sessions -> Contexts] /\ web'[s] = w /\ \A r \in Sessions : r # s => web'[r] = web[r]
    <3>1. w \in Contexts /\ Put(web, web', s, w)
      BY DEF Leaves
    <3> QED BY <2>1, <3>1 DEF Put
  <2> QED BY <2>2, <2>3, <2>4, <2>5
<1>2. proc' = proc /\ profile' = profile
  BY DEF Leaves
<1>3. TypeOK'
  <2>1. faults' \in 0..MaxFaults /\ lock' \in Sessions \cup {NoOne, Torn}
    BY DEF Leaves
  <2>2. proc' \in [Owners -> {"new", "up", "dead"}] /\ profile' \in Profiles
    BY <1>2, Types DEF Inv
  <2> QED BY <1>1, <2>1, <2>2, TypesNext
<1>4. PlaceInv'
  <2> SUFFICES ASSUME NEW q \in Owners, at'[q] # Idle
               PROVE  /\ Up(q)' /\ at'[q].s \in Sessions /\ at'[q].step # "idle"
                      /\ ses'[at'[q].s].owner = q
                      /\ Knows(at'[q].step, ses'[at'[q].s], book'[at'[q].s],
                               web'[at'[q].s], profile'.rev)
    BY DEF PlaceInv, Mine
  <2>1. CASE q = o
    BY <1>1, <1>2, <2>1 DEF Leaves, Up
  <2>2. CASE q # o
    <3>1. /\ at'[q] = at[q] /\ Up(q) /\ at[q].s \in Sessions /\ at[q].step # "idle"
          /\ Mine(q, at[q].s)
          /\ Knows(at[q].step, ses[at[q].s], book[at[q].s], web[at[q].s], profile.rev)
      BY <1>1, <2>2 DEF Inv, PlaceInv
    <3>2. at[q].s # s
      BY <2>2, <3>1 DEF Leaves, Mine
    <3> QED BY <1>1, <1>2, <3>1, <3>2 DEF Up, Mine
  <2> QED BY <2>1, <2>2
<1>5. SoundInv'
  <2>1. \A r \in Sessions : Sound(ses'[r], book'[r], web'[r])
    BY <1>1 DEF Inv, SoundInv, Leaves
  <2> QED BY <2>1 DEF SoundInv
<1>6. DeadInv'
  <2>1. \A r \in Sessions, q \in Owners : ses'[r].owner = q /\ ~Up(q)' =>
          proc'[q] = "dead" /\ ~ses'[r].active /\ web'[r].ctx # "live"
    BY <1>1, <1>2 DEF Inv, DeadInv, Leaves, Up, Mine
  <2> QED BY <2>1 DEF DeadInv, Mine
<1>7. HoldInv'
  <2> SUFFICES ASSUME NEW r \in Sessions, NEW q \in Owners, ses'[r].owner = q, Up(q)',
                      Needs(at'[q], r, ses'[r], web'[r])
               PROVE  Owned(lock', profile', r, ses'[r].rev)
    BY DEF HoldInv, Held, Mine
  <2>1. CASE r = s
    BY <1>1, <1>2, <2>1 DEF Leaves
  <2>2. CASE r # s
    <3>1. ses'[r] = ses[r] /\ web'[r] = web[r] /\ Mine(q, r) /\ Up(q)
      BY <1>1, <1>2, <2>2 DEF Mine, Up
    <3>2. Needs(at[q], r, ses[r], web[r])
      BY <1>1, <2>2, <3>1 DEF Leaves, Needs, Idle
    <3>3. Held(r)
      BY <3>1, <3>2 DEF Held
    <3> QED BY <1>2, <2>2, <3>1, <3>3 DEF Inv, HoldInv
  <2> QED BY <2>1, <2>2
<1>8. RevInv'
  <2>1. ASSUME NEW r \in 1..(profile.rev - 1) PROVE \E t \in Sessions : ses'[t].rev = r
    <3>1. PICK t \in Sessions : ses[t].rev = r
      BY DEF Inv, RevInv
    <3>2. ses'[t].rev = r
      BY <1>1, <3>1 DEF Leaves
    <3> QED BY <3>2
  <2> QED BY <1>2, <2>1 DEF RevInv
<1> QED BY <1>3, <1>4, <1>5, <1>6, <1>7, <1>8 DEF Inv

\* The lock stays what it is.
LEMMA Works ==
  ASSUME Inv, NEW o \in Owners, NEW s \in Sessions, NEW a, NEW x, NEW b, NEW w,
         Leaves(o, s, a, x, b, w), UNCHANGED lock, Mine(o, s), x.rev = ses[s].rev,
         Needs(a, s, x, w) => Needs(at[o], s, ses[s], web[s])
  PROVE  Inv'
<1>1. Needs(a, s, x, w) => Owned(lock', profile, s, x.rev)
  <2>1. Needs(at[o], s, ses[s], web[s]) => Held(s)
    BY DEF Held, Leaves
  <2> QED BY <2>1 DEF Inv, HoldInv
<1>2. lock' \in Sessions \cup {NoOne, Torn}
  BY DEF Inv, TypeOK
<1> QED BY <1>1, <1>2, StepKeeps

\* What the owner of a session relies on.
LEMMA SessionTypes ==
  ASSUME Inv, NEW s \in Sessions
  PROVE  ses[s] \in Lives /\ book[s] \in Books /\ web[s] \in Contexts
BY Types DEF Inv

\* What is there, of which type.
LEMMA Has ==
  ASSUME Inv, NEW s \in Sessions, NEW o \in Owners
  PROVE  /\ ses[s] \in Lives /\ book[s] \in Books /\ web[s] \in Contexts
         /\ at[o] \in Ats /\ profile \in Profiles /\ Sound(ses[s], book[s], web[s])
BY Types DEF Inv, SoundInv

\* Inside a call: its session is there, it is its owner's, and what was read holds.
LEMMA InCall ==
  ASSUME Inv, NEW o \in Owners, NEW step \in Steps, step # "idle", In(o, step)
  PROVE  /\ Up(o) /\ at[o].s \in Sessions /\ Mine(o, at[o].s) /\ at[o].step = step
         /\ Knows(step, ses[at[o].s], book[at[o].s], web[at[o].s], profile.rev)
         /\ ses[at[o].s] \in Lives /\ book[at[o].s] \in Books /\ web[at[o].s] \in Contexts
         /\ Sound(ses[at[o].s], book[at[o].s], web[at[o].s])
<1>1. at[o] # Idle
  BY DEF In, Idle
<1>2. /\ Up(o) /\ at[o].s \in Sessions /\ Mine(o, at[o].s) /\ at[o].step = step
      /\ Knows(step, ses[at[o].s], book[at[o].s], web[at[o].s], profile.rev)
  BY <1>1 DEF Inv, PlaceInv, In
<1> QED BY <1>2, Has

\* Going on with a call, and ending it.
LEMMA GoesOn ==
  ASSUME Inv, NEW o \in Owners, NEW s \in Sessions, NEW step \in Steps, Goes(o, step, s)
  PROVE  /\ [step |-> step, s |-> s] \in Ats
         /\ Put(at, at', o, [step |-> step, s |-> s])
BY DEF Goes, Ats, Put

LEMMA EndsCall ==
  ASSUME Inv, NEW o \in Owners, Ends(o) \/ (at[o] = Idle /\ UNCHANGED at)
  PROVE  Idle \in Ats /\ Put(at, at', o, Idle)
BY DEF Ends, Ats, Put, Idle, Steps

LEMMA Faulted ==
  ASSUME Inv, Fault \/ UNCHANGED faults
  PROVE  faults' \in 0..MaxFaults
BY DEF Inv, TypeOK, Fault

\* What a session starts from.
LEMMA Empty ==
  /\ NoBook \in Books /\ Opening \in Books /\ NoBook \in Records /\ Opening \in Records
  /\ [Opening EXCEPT !.phase = "ACTIVE"] \in Books
  /\ [Opening EXCEPT !.phase = "ACTIVE"] \in Records
  /\ NoSession \in Lives /\ NoContext \in Contexts
<1>1. NoBook \in Records /\ Opening \in Records /\ [Opening EXCEPT !.phase = "ACTIVE"] \in Records
  <2>1. 0 \in 0..MaxObs /\ 0 \in 0..MaxActs
    OBVIOUS
  <2>2. NoBook \in Records
    BY <2>1 DEF NoBook, Records, Outcomes
  <2>3. \A b \in Records, ph \in Phases : [b EXCEPT !.phase = ph] \in Records
    BY DEF Records
  <2>4. "OPENING" \in Phases /\ "ACTIVE" \in Phases
    BY DEF Phases
  <2> QED BY <2>2, <2>3, <2>4 DEF Opening
<1>2. Shaped(NoBook) /\ Shaped(Opening) /\ Shaped([Opening EXCEPT !.phase = "ACTIVE"])
  BY DEF NoBook, Opening, Shaped
<1>3. NoSession \in Lives
  <2>1. Cardinality(Sessions) \in Nat
    BY FS_CardinalityType
  <2> QED BY <1>1, <2>1 DEF NoSession, Lives
<1>4. NoContext \in Contexts
  BY DEF NoContext, Contexts
<1> QED BY <1>1, <1>2, <1>3, <1>4 DEF Books

-----------------------------------------------------------------------------
(* Opening a session                                                       *)

\* Whoever finds no live writer finds nobody who needs the profile.
LEMMA Unheld ==
  ASSUME Inv, NEW o \in Owners, NoLiveWriter(o), NEW r \in Sessions
  PROVE  ~Held(r)
<1> SUFFICES ASSUME Held(r) PROVE FALSE
  OBVIOUS
<1>1. lock = r
  BY DEF Inv, HoldInv, Owned
<1>2. ~Up(ses[r].owner)
  BY <1>1 DEF NoLiveWriter, Stale
<1> QED BY <1>2 DEF Held, Mine

\* Releasing a lease takes nobody else's lock.
LEMMA ReleasesOwn ==
  ASSUME Inv, NEW s \in Sessions, lock' = Released(s)
  PROVE  /\ lock' \in Sessions \cup {NoOne, Torn}
         /\ lock' = lock \/ \A r \in Sessions : r # s => ~Held(r)
<1>1. CASE lock = s
  BY <1>1 DEF Released, Inv, HoldInv, Owned
<1>2. CASE lock # s
  BY <1>2 DEF Released, Inv, TypeOK
<1> QED BY <1>1, <1>2

\* The steps of browser_open.
LEMMA AcquireStep ==
  ASSUME Inv, NEW o \in Owners, NEW s \in Sessions, Acquire(o, s)
  PROVE  Inv'
<1> DEFINE x == [ses[s] EXCEPT !.owner = o, !.rev = profile.rev]
<1>1. /\ Up(o) /\ at[o] = Idle /\ ses[s] = NoSession /\ ProfileActive /\ NoLiveWriter(o)
      /\ ses' = [ses EXCEPT ![s].owner = o, ![s].rev = profile.rev]
      /\ UNCHANGED <<proc, profile, book, web>>
  BY DEF Acquire
<1>2. /\ ses[s] \in Lives /\ book[s] \in Books /\ web[s] \in Contexts
      /\ profile \in Profiles /\ Sound(ses[s], book[s], web[s])
  BY Has
<1>3. ses[s].owner = NoOne /\ ses[s].rev = 0 /\ ~ses[s].active
  BY <1>1 DEF NoSession
<1>4. book[s] = NoBook /\ web[s] = NoContext
  BY <1>2, <1>3 DEF Sound
<1>5. /\ x \in Lives /\ x.owner = o /\ x.rev = profile.rev /\ ~x.active
      /\ ses' = [ses EXCEPT ![s] = x]
  <2>1. profile.rev \in 0..(Cardinality(Sessions) + 1)
    BY <1>2 DEF Profiles
  <2>2. ses' = [ses EXCEPT ![s] = x]
    BY <1>1, <1>2, Types DEF Inv, Lives
  <2> QED BY <1>2, <1>3, <2>1, <2>2 DEF Lives
<1> HIDE DEF x
<1>6. Sound(x, book[s], web[s])
  <2>1. o # NoOne
    OBVIOUS
  <2> QED BY <1>4, <1>5, <2>1 DEF Sound, NoBook, NoContext
<1>7. /\ Put(ses, ses', s, x) /\ Put(book, book', s, book[s]) /\ Put(web, web', s, web[s])
  BY <1>1, <1>5 DEF Put
<1>8. Torn \notin Sessions /\ \A r \in Sessions : ~Held(r)
  BY <1>1, Unheld
<1>9. CASE lock' = s /\ Goes(o, "acquired", s) /\ UNCHANGED faults
  <2> DEFINE a == [step |-> "acquired", s |-> s]
  <2>1. a \in Ats /\ Put(at, at', o, a)
    BY <1>9, GoesOn DEF Steps
  <2>2. a.s = s /\ a.step = "acquired"
    OBVIOUS
  <2> HIDE DEF a
  <2>3. Knows(a.step, x, book[s], web[s], profile.rev)
    BY <1>4, <1>5, <2>2 DEF Knows
  <2>4. Leaves(o, s, a, x, book[s], web[s])
    BY <1>1, <1>2, <1>3, <1>5, <1>6, <1>7, <1>9, <2>1, <2>2, <2>3, Faulted DEF Leaves
  <2>5. Owned(lock', profile, s, x.rev)
    BY <1>1, <1>5, <1>9 DEF Owned, ProfileActive, MetadataReadable
  <2> QED BY <1>8, <1>9, <2>4, <2>5, StepKeeps
<1>10. CASE lock' \in Left(NoOne, s) /\ Ends(o) /\ Fault
  <2>1. Idle \in Ats /\ Put(at, at', o, Idle)
    BY <1>10, EndsCall
  <2>2. Leaves(o, s, Idle, x, book[s], web[s])
    BY <1>1, <1>2, <1>3, <1>5, <1>6, <1>7, <1>10, <2>1, Faulted DEF Leaves
  <2>3. ~Needs(Idle, s, x, web[s])
    BY <1>4, <1>5 DEF Needs, Idle, NoContext
  <2> QED BY <1>8, <1>10, <2>2, <2>3, StepKeeps DEF Left
<1> QED BY <1>9, <1>10 DEF Acquire

LEMMA LaunchStep ==
  ASSUME Inv, NEW o \in Owners, Launch(o)
  PROVE  Inv'
<1> DEFINE s == at[o].s
<1>1. /\ Up(o) /\ s \in Sessions /\ Mine(o, s) /\ at[o].step = "acquired"
      /\ book[s] = NoBook /\ web[s] = NoContext
      /\ ses[s] \in Lives /\ book[s] \in Books /\ web[s] \in Contexts
      /\ Sound(ses[s], book[s], web[s])
  BY InCall DEF Launch, Knows, Steps
<1>2. UNCHANGED <<proc, profile, book, ses, faults>>
  BY DEF Launch
<1>3. at[o] = [step |-> "acquired", s |-> s]
  BY <1>1, Has DEF Ats
<1>6. Goes(o, "opened", s) \/ Ends(o)
  BY DEF Launch
<1>7. ~ses[s].active
  BY <1>1, InCall DEF Launch, Knows, Steps
<1>8. /\ Put(ses, ses', s, ses[s]) /\ Put(book, book', s, book[s])
      /\ faults' \in 0..MaxFaults /\ ses[s].owner = o
  BY <1>1, <1>2, Faulted DEF Put, Mine
<1>9. CASE lock' = Released(s) /\ Ends(o) /\ UNCHANGED web
  <2>1. Idle \in Ats /\ Put(at, at', o, Idle) /\ Put(web, web', s, web[s])
    BY <1>9, EndsCall DEF Put
  <2>2. Leaves(o, s, Idle, ses[s], book[s], web[s])
    BY <1>1, <1>2, <1>8, <2>1 DEF Leaves
  <2>3. ~Needs(Idle, s, ses[s], web[s])
    BY <1>1, <1>7 DEF Needs, Idle, NoContext
  <2> QED BY <1>1, <1>9, <2>2, <2>3, ReleasesOwn, StepKeeps
<1>10. CASE web' = [web EXCEPT ![s].ctx = "lost"] /\ Ends(o) /\ UNCHANGED lock
  <2> DEFINE w == [web[s] EXCEPT !.ctx = "lost"]
  <2>1. w \in Contexts /\ Put(web, web', s, w)
    BY <1>1, <1>10 DEF Contexts, Put
  <2>2. Sound(ses[s], book[s], w)
    BY <1>1, <1>8 DEF Sound, NoContext, NoBook
  <2> HIDE DEF w
  <2>3. Idle \in Ats /\ Put(at, at', o, Idle)
    BY <1>10, EndsCall
  <2>4. Leaves(o, s, Idle, ses[s], book[s], w)
    BY <1>1, <1>2, <1>8, <2>1, <2>2, <2>3 DEF Leaves
  <2>5. Needs(at[o], s, ses[s], web[s])
    BY <1>3 DEF Needs
  <2> QED BY <1>1, <1>10, <2>4, <2>5, Works
<1>11. CASE /\ web' = [web EXCEPT ![s].ctx = "live", ![s].usable = TRUE]
            /\ Goes(o, "opened", s) /\ UNCHANGED lock
  <2> DEFINE w == [web[s] EXCEPT !.ctx = "live", !.usable = TRUE]
             a == [step |-> "opened", s |-> s]
  <2>1. w \in Contexts /\ Put(web, web', s, w) /\ w.ctx = "live"
    <3>1. w \in Contexts /\ w.ctx = "live"
      BY <1>1 DEF Contexts
    <3>2. web' = [web EXCEPT ![s] = w]
      BY <1>1, <1>11, Types DEF Inv
    <3> QED BY <3>1, <3>2 DEF Put
  <2>2. Sound(ses[s], book[s], w)
    BY <1>1, <1>8 DEF Sound, NoContext, NoBook
  <2>3. a \in Ats /\ Put(at, at', o, a) /\ a.step = "opened" /\ a.s = s
    BY <1>1, <1>11, GoesOn DEF Steps
  <2> HIDE DEF w, a
  <2>4. Knows(a.step, ses[s], book[s], w, profile.rev)
    BY <1>1, <1>7, <2>1, <2>3 DEF Knows
  <2>5. Leaves(o, s, a, ses[s], book[s], w)
    BY <1>1, <1>2, <1>8, <2>1, <2>2, <2>3, <2>4 DEF Leaves
  <2>6. Needs(at[o], s, ses[s], web[s])
    BY <1>3 DEF Needs
  <2> QED BY <1>1, <1>11, <2>5, <2>6, Works
<1> QED BY <1>9, <1>10, <1>11 DEF Launch

\* The call leaves the session as x, b and w, and the lock alone.
Writes(o, s, x, b, w) ==
  /\ Up(o) /\ Mine(o, s) /\ (at[o] = Idle \/ at[o].s = s)
  /\ x \in Lives /\ b \in Books /\ w \in Contexts
  /\ Put(ses, ses', s, x) /\ Put(book, book', s, b) /\ Put(web, web', s, w)
  /\ UNCHANGED <<proc, profile, lock>> /\ (Fault \/ UNCHANGED faults)
  /\ x.owner = o /\ x.rev = ses[s].rev /\ Sound(x, b, w)
  /\ x.active \/ w.ctx \in {"live", "lost"} => ses[s].active \/ web[s].ctx \in {"live", "lost"}

\* A call that works on its own session ends, or goes on.
LEMMA CallEnds ==
  ASSUME Inv, NEW o \in Owners, NEW s \in Sessions, NEW x, NEW b, NEW w, Writes(o, s, x, b, w),
         Ends(o) \/ (at[o] = Idle /\ UNCHANGED at)
  PROVE  Inv'
<1>1. Idle \in Ats /\ Put(at, at', o, Idle)
  BY EndsCall
<1>2. Leaves(o, s, Idle, x, b, w)
  BY <1>1, Faulted DEF Leaves, Writes, Mine
<1>3. Needs(Idle, s, x, w) => Needs(at[o], s, ses[s], web[s])
  BY DEF Needs, Writes, Idle
<1> QED BY <1>2, <1>3, Works DEF Writes

LEMMA CallGoes ==
  ASSUME Inv, NEW o \in Owners, NEW s \in Sessions, NEW x, NEW b, NEW w, Writes(o, s, x, b, w),
         NEW step \in Steps \ {"idle", "acquired"}, Goes(o, step, s),
         Knows(step, x, b, w, profile.rev)
  PROVE  Inv'
<1> DEFINE a == [step |-> step, s |-> s]
<1>1. a \in Ats /\ Put(at, at', o, a)
  BY GoesOn
<1>2. a.s = s /\ a.step = step /\ a.step # "acquired"
  OBVIOUS
<1> HIDE DEF a
<1>3. Leaves(o, s, a, x, b, w)
  BY <1>1, <1>2, Faulted DEF Leaves, Writes, Mine
<1>4. Needs(a, s, x, w) => Needs(at[o], s, ses[s], web[s])
  BY <1>2 DEF Needs, Writes
<1> QED BY <1>3, <1>4, Works DEF Writes

LEMMA BeginStep ==
  ASSUME Inv, NEW o \in Owners, Begin(o)
  PROVE  Inv'
<1> DEFINE s == at[o].s
<1>1. /\ Up(o) /\ s \in Sessions /\ Mine(o, s) /\ ses[s] \in Lives /\ web[s] \in Contexts
      /\ ~ses[s].active /\ book[s] = NoBook /\ web[s].ctx = "live"
      /\ Sound(ses[s], book[s], web[s])
  BY InCall DEF Begin, Knows, Steps
<1>2. UNCHANGED <<proc, profile, lock, ses, web>>
  BY DEF Begin
<1> HIDE DEF s
<1>3. ASSUME NEW b \in Left(NoBook, Opening), book' = [book EXCEPT ![s] = b],
             Fault \/ UNCHANGED faults, at[o].s = s
      PROVE  Writes(o, s, ses[s], b, web[s])
  <2>1. b \in Books
    BY Empty DEF Left, Books
  <2>2. Sound(ses[s], b, web[s])
    <3>1. /\ NoBook # Torn /\ NoBook.count = 0 /\ NoBook.outcome = "none" /\ NoBook.phase = "none"
          /\ Opening.count = 0 /\ Opening.outcome = "none" /\ Opening.phase = "OPENING"
      BY Empty DEF NoBook, Opening
    <3> QED BY <1>1, <3>1 DEF Sound, Left, Mine
  <2> QED BY <1>1, <1>2, <1>3, <2>1, <2>2 DEF Writes, Put, Mine
<1>4. ASSUME NEW b \in Left(NoBook, Opening)
      PROVE  /\ Knows("failed", ses[s], b, web[s], profile.rev)
             /\ b = Opening => Knows("begun", ses[s], b, web[s], profile.rev)
  BY <1>1, <1>4 DEF Knows, Left, NoBook, Opening
<1>5. Opening \in Left(NoBook, Opening) /\ {"begun", "failed"} \subseteq Steps \ {"idle", "acquired"}
  BY DEF Left, Steps
<1>6. CASE book' = [book EXCEPT ![s] = Opening] /\ Goes(o, "begun", s) /\ UNCHANGED faults
  BY <1>1, <1>3, <1>4, <1>5, <1>6, CallGoes DEF s
<1>7. ASSUME NEW b \in Left(NoBook, Opening), book' = [book EXCEPT ![s] = b],
             Goes(o, "failed", s), Fault
      PROVE  Inv'
  BY <1>1, <1>3, <1>4, <1>5, <1>7, CallGoes DEF s
<1> QED BY <1>6, <1>7 DEF Begin, s

LEMMA ActivateStep ==
  ASSUME Inv, NEW o \in Owners, Activate(o)
  PROVE  Inv'
<1> DEFINE s == at[o].s
           n == [Opening EXCEPT !.phase = "ACTIVE"]
           x == [ses[s] EXCEPT !.mirror = n, !.active = TRUE]
<1>1. /\ Up(o) /\ s \in Sessions /\ Mine(o, s) /\ ses[s] \in Lives /\ web[s] \in Contexts
      /\ ~ses[s].active /\ book[s] = Opening /\ web[s].ctx = "live"
      /\ Sound(ses[s], book[s], web[s])
  BY InCall DEF Activate, Knows, Steps
<1>2. UNCHANGED <<proc, profile, lock, web>>
  BY DEF Activate
<1>3. /\ n \in Books /\ n \in Records /\ n.phase = "ACTIVE" /\ n.count = 0 /\ n.outcome = "none"
      /\ Opening.count = 0 /\ Opening.outcome = "none" /\ Opening.phase = "OPENING"
      /\ Opening \in Books /\ n # Torn /\ Opening # Torn
  <2>1. n # Torn /\ Opening # Torn
    BY Empty
  <2> QED BY <2>1, Empty DEF Opening, NoBook
<1> HIDE DEF s, n
<1>4. /\ x \in Lives /\ x.owner = ses[s].owner /\ x.rev = ses[s].rev
  BY <1>1, <1>3 DEF Lives
<1> HIDE DEF x
<1>5. CASE /\ book' = [book EXCEPT ![s] = n] /\ ses' = [ses EXCEPT ![s] = x]
           /\ Ends(o) /\ UNCHANGED faults
  <2>1. Sound(x, n, web[s])
    BY <1>1, <1>3, <1>4 DEF Sound, Mine
  <2>2. Writes(o, s, x, n, web[s])
    BY <1>1, <1>2, <1>3, <1>4, <1>5, <2>1 DEF Writes, Put, Mine, s
  <2> QED BY <1>1, <1>5, <2>2, CallEnds
<1>6. ASSUME NEW b \in Left(book[s], n), book' = [book EXCEPT ![s] = b],
             Goes(o, "failed", s), Fault, UNCHANGED ses
      PROVE  Inv'
  <2>1. b \in Books /\ Sound(ses[s], b, web[s])
    BY <1>1, <1>3 DEF Sound, Mine, Left, Books
  <2>2. Writes(o, s, ses[s], b, web[s])
    BY <1>1, <1>2, <1>6, <2>1 DEF Writes, Put, Mine, s
  <2>3. Knows("failed", ses[s], b, web[s], profile.rev)
    BY <1>1, <1>3 DEF Knows, Left
  <2>4. "failed" \in Steps \ {"idle", "acquired"}
    BY DEF Steps
  <2> QED BY <1>1, <1>6, <2>2, <2>3, <2>4, CallGoes
<1>7. \/ /\ book' = [book EXCEPT ![s] = n] /\ ses' = [ses EXCEPT ![s] = x]
         /\ Ends(o) /\ UNCHANGED faults
      \/ /\ \E b \in Left(book[s], n) : book' = [book EXCEPT ![s] = b]
         /\ Goes(o, "failed", s) /\ Fault /\ UNCHANGED ses
  BY <1>1, Types DEF Activate, s, n, x, Inv
<1> QED BY <1>5, <1>6, <1>7

\* A context that is gone keeps its past.
LEMMA GoneTypes ==
  ASSUME NEW w \in Contexts, NEW how \in {"closed", "lost"}
  PROVE  /\ Gone(w, how) \in Contexts /\ Gone(w, how).ctx = how /\ ~Gone(w, how).usable
         /\ Gone(w, how).ran = w.ran /\ Gone(w, how).tried = w.tried
         /\ Gone(w, how).told = w.told
<1>1. 0 \in 0..MaxObs
  OBVIOUS
<1>2. Gone(w, how) \in Contexts
  BY <1>1 DEF Gone, Contexts
<1> QED BY <1>2 DEF Gone, Contexts

LEMMA CloseFailedOpenStep ==
  ASSUME Inv, NEW o \in Owners, CloseFailedOpen(o)
  PROVE  Inv'
<1> DEFINE s == at[o].s
<1>1. /\ Up(o) /\ s \in Sessions /\ Mine(o, s) /\ ses[s] \in Lives /\ web[s] \in Contexts
      /\ book[s] \in Books /\ ~ses[s].active /\ web[s].ctx = "live"
      /\ book[s] = Torn \/ book[s].phase # "CLOSED"
      /\ Sound(ses[s], book[s], web[s])
  BY InCall DEF CloseFailedOpen, Knows, Steps
<1>2. UNCHANGED <<proc, profile, book, ses, faults>> /\ Ends(o) /\ at[o].s = s
  BY DEF CloseFailedOpen
<1> HIDE DEF s
<1>3. ASSUME NEW how \in {"closed", "lost"}
      PROVE  /\ Gone(web[s], how) \in Contexts /\ Gone(web[s], how).ctx = how
             /\ Sound(ses[s], book[s], Gone(web[s], how))
  <2> DEFINE w == Gone(web[s], how)
  <2>1. /\ w \in Contexts /\ w.ctx = how /\ ~w.usable /\ w.ran = web[s].ran
        /\ w.tried = web[s].tried /\ w.told = web[s].told
    BY <1>1, <1>3, GoneTypes
  <2> HIDE DEF w
  <2>2. Sound(ses[s], book[s], w)
    BY <1>1, <2>1 DEF Sound, Mine
  <2> QED BY <2>1, <2>2 DEF w
<1>4. /\ Put(ses, ses', s, ses[s]) /\ Put(book, book', s, book[s]) /\ ses[s].owner = o
      /\ \A w : web' = [web EXCEPT ![s] = w] => Put(web, web', s, w)
  BY <1>1, <1>2 DEF Put, Mine
<1>5. CASE web' = [web EXCEPT ![s] = Gone(web[s], "closed")] /\ lock' = Released(s)
  <2> DEFINE w == Gone(web[s], "closed")
  <2>1. w \in Contexts /\ w.ctx = "closed" /\ Sound(ses[s], book[s], w) /\ Put(web, web', s, w)
    BY <1>3, <1>4, <1>5
  <2> HIDE DEF w
  <2>2. Idle \in Ats /\ Put(at, at', o, Idle) /\ faults' \in 0..MaxFaults
    BY <1>2, EndsCall, Faulted
  <2>3. Leaves(o, s, Idle, ses[s], book[s], w)
    BY <1>1, <1>2, <1>4, <2>1, <2>2 DEF Leaves
  <2>4. ~Needs(Idle, s, ses[s], w)
    BY <1>1, <2>1 DEF Needs, Idle
  <2> QED BY <1>1, <1>5, <2>3, <2>4, ReleasesOwn, StepKeeps
<1>6. CASE web' = [web EXCEPT ![s] = Gone(web[s], "lost")] /\ UNCHANGED lock
  <2> DEFINE w == Gone(web[s], "lost")
  <2>1. w \in Contexts /\ Sound(ses[s], book[s], w) /\ Put(web, web', s, w)
    BY <1>3, <1>4, <1>6
  <2> HIDE DEF w
  <2>2. Writes(o, s, ses[s], book[s], w)
    BY <1>1, <1>2, <1>4, <1>6, <2>1 DEF Writes
  <2> QED BY <1>1, <1>2, <2>2, CallEnds
<1> QED BY <1>5, <1>6 DEF CloseFailedOpen, s

-----------------------------------------------------------------------------
(* Observing and acting                                                    *)

\* A call begins: the session is active and its owner's.
LEMMA Called ==
  ASSUME Inv, NEW o \in Owners, NEW s \in Sessions, Calls(o, s)
  PROVE  /\ Up(o) /\ at[o] = Idle /\ Mine(o, s) /\ ses[s].active
         /\ ses[s] \in Lives /\ book[s] \in Books /\ web[s] \in Contexts
         /\ Sound(ses[s], book[s], web[s])
BY Has DEF Calls

\* A ledger that can be read is a record whose phase and data agree.
LEMMA ReadsBook ==
  ASSUME NEW b \in Books, b # Torn
  PROVE  b \in Records /\ Shaped(b)
BY DEF Books

\* The mirror of a session, and what it has observed and prepared, are its owner's.
LEMMA SameOwner ==
  ASSUME NEW x, NEW b, NEW w, NEW y, Sound(x, b, w), y.owner = x.owner, x.owner # NoOne
  PROVE  Sound(y, b, w)
BY DEF Sound

\* A truncated ledger says nothing.
LEMMA Tears ==
  ASSUME NEW x, NEW b, NEW w, Sound(x, b, w), x.owner # NoOne, b = Torn \/ b.phase # "CLOSED"
  PROVE  Sound(x, Torn, w) /\ ~w.told
BY DEF Sound

LEMMA RereadTypes ==
  ASSUME NEW x \in Lives, NEW b \in Books
  PROVE  /\ Reread(x, b) \in Lives /\ Reread(x, b).owner = x.owner
         /\ Reread(x, b).rev = x.rev /\ Reread(x, b).active = x.active
         /\ Reread(x, b).bound = 0
<1> DEFINE m == IF Readable(b) THEN b ELSE x.mirror
<1>1. m \in Records /\ 0 \in 0..MaxObs
  BY ReadsBook DEF Lives, Readable
<1>2. Reread(x, b) = [x EXCEPT !.mirror = m, !.bound = 0]
  BY DEF Reread
<1> HIDE DEF m
<1> QED BY <1>1, <1>2 DEF Lives

\* The steps of browser_observe and browser_act.
LEMMA ObserveStep ==
  ASSUME Inv, NEW o \in Owners, NEW s \in Sessions, Observe(o, s)
  PROVE  Inv'
<1>1. /\ Up(o) /\ at[o] = Idle /\ Mine(o, s) /\ ses[s].active
      /\ ses[s] \in Lives /\ book[s] \in Books /\ web[s] \in Contexts
      /\ Sound(ses[s], book[s], web[s])
  BY Called DEF Observe, ActiveSession
<1>2. /\ UNCHANGED <<proc, profile, lock, book, ses, faults>>
      /\ book[s] # Torn /\ web[s].ctx = "live" /\ book[s].obs < MaxObs
  BY DEF Observe, ActiveSession, Matches, Readable, Usable
<1>3. book[s].phase # "CLOSED" /\ ses[s].owner # NoOne
  BY <1>1, <1>2 DEF Sound, Mine
<1>4. book[s] \in Records /\ book[s].obs + 1 \in 0..MaxObs /\ 0 \in 0..MaxObs
  BY <1>1, <1>2, ReadsBook DEF Records
<1>5. CASE web' = [web EXCEPT ![s].obs = book[s].obs + 1] /\ Goes(o, "seen", s)
  <2> DEFINE w == [web[s] EXCEPT !.obs = book[s].obs + 1]
  <2>1. /\ w \in Contexts /\ Put(web, web', s, w) /\ w.ctx = "live" /\ w.obs = book[s].obs + 1
        /\ w.usable = web[s].usable /\ w.ran = web[s].ran /\ w.tried = web[s].tried
        /\ w.told = web[s].told
    BY <1>1, <1>2, <1>4, <1>5 DEF Contexts, Put
  <2> HIDE DEF w
  <2>2. Sound(ses[s], book[s], w)
    BY <1>1, <1>2, <1>3, <2>1 DEF Sound
  <2>3. Writes(o, s, ses[s], book[s], w)
    BY <1>1, <1>2, <2>1, <2>2 DEF Writes, Put, Mine
  <2>4. Knows("seen", ses[s], book[s], w, profile.rev) /\ "seen" \in Steps \ {"idle", "acquired"}
    BY <1>1, <1>2, <1>3, <2>1 DEF Knows, Steps
  <2> QED BY <1>5, <2>3, <2>4, CallGoes
<1>6. CASE web' = [web EXCEPT ![s].obs = 0, ![s].usable = FALSE] /\ UNCHANGED at
  <2> DEFINE w == [web[s] EXCEPT !.obs = 0, !.usable = FALSE]
  <2>1. /\ w \in Contexts /\ Put(web, web', s, w) /\ w.ctx = "live" /\ ~w.usable
        /\ w.ran = web[s].ran /\ w.tried = web[s].tried /\ w.told = web[s].told
    <3>1. web' = [web EXCEPT ![s] = w]
      BY <1>1, <1>6, Types DEF Inv
    <3>2. /\ w \in Contexts /\ w.ctx = "live" /\ ~w.usable
          /\ w.ran = web[s].ran /\ w.tried = web[s].tried /\ w.told = web[s].told
      BY <1>1, <1>2, <1>4 DEF Contexts
    <3> QED BY <3>1, <3>2 DEF Put
  <2> HIDE DEF w
  <2>2. Sound(ses[s], book[s], w)
    BY <1>1, <1>2, <1>3, <2>1 DEF Sound
  <2>3. Writes(o, s, ses[s], book[s], w)
    BY <1>1, <1>2, <2>1, <2>2 DEF Writes, Put, Mine
  <2> QED BY <1>1, <1>6, <2>3, CallEnds
<1> QED BY <1>5, <1>6 DEF Observe

LEMMA RecordObservationStep ==
  ASSUME Inv, NEW o \in Owners, RecordObservation(o)
  PROVE  Inv'
<1> DEFINE s == at[o].s
           b == [book[s] EXCEPT !.obs = web[s].obs]
           x == [ses[s] EXCEPT !.mirror = b, !.seen = b.obs]
<1>1. /\ Up(o) /\ s \in Sessions /\ Mine(o, s) /\ ses[s] \in Lives /\ web[s] \in Contexts
      /\ book[s] \in Books /\ ses[s].active /\ book[s] # Torn /\ book[s].phase # "CLOSED"
      /\ web[s].obs = book[s].obs + 1 /\ Sound(ses[s], book[s], web[s])
  BY InCall DEF RecordObservation, Knows, Steps
<1>2. /\ UNCHANGED <<proc, profile, lock, web>> /\ Ends(o) /\ at[o].s = s
      /\ Put(web, web', s, web[s])
  BY DEF RecordObservation, Put
<1> HIDE DEF s
<1>3. book[s] \in Records /\ Shaped(book[s]) /\ web[s].obs \in 0..MaxObs /\ web[s].obs > 0
  BY <1>1, ReadsBook DEF Contexts, Records
<1>4. /\ b \in Records /\ b.phase = book[s].phase /\ b.count = book[s].count
      /\ b.outcome = book[s].outcome /\ b.obs = web[s].obs /\ b # Torn
  BY <1>3 DEF Records
<1>5. /\ x \in Lives /\ x.owner = ses[s].owner /\ x.rev = ses[s].rev /\ x.active
      /\ ses[s].owner = o /\ o # NoOne
  <2> HIDE DEF b
  <2> QED BY <1>1, <1>3, <1>4 DEF Lives, Mine
<1> HIDE DEF x
<1>6. Settled(book[s]) => b \in Books
  <2> HIDE DEF b
  <2> QED BY <1>3, <1>4 DEF Books, Shaped, Settled
<1> HIDE DEF b
<1>7. Sound(x, b, web[s])
  BY <1>1, <1>4, <1>5 DEF Sound
<1>8. CASE /\ Settled(book[s]) /\ book' = [book EXCEPT ![s] = b]
           /\ ses' = [ses EXCEPT ![s] = x] /\ UNCHANGED faults
  <2>1. Writes(o, s, x, b, web[s])
    BY <1>1, <1>2, <1>5, <1>6, <1>7, <1>8 DEF Writes, Put
  <2> QED BY <1>1, <1>2, <2>1, CallEnds
<1>9. ASSUME Settled(book[s]), Fault, UNCHANGED ses, NEW c \in Left(book[s], b),
             book' = [book EXCEPT ![s] = c]
      PROVE  Inv'
  <2>1. c \in Books
    BY <1>1, <1>6, <1>9 DEF Left, Books
  <2>2. Sound(ses[s], b, web[s])
    BY <1>5, <1>7, SameOwner
  <2>3. Sound(ses[s], c, web[s])
    BY <1>1, <1>5, <2>2, Tears DEF Left
  <2>4. Writes(o, s, ses[s], c, web[s])
    BY <1>1, <1>2, <1>5, <1>9, <2>1, <2>3 DEF Writes, Put
  <2> QED BY <1>1, <1>2, <2>4, CallEnds
<1>10. CASE UNCHANGED <<book, ses, faults>>
  <2>1. Writes(o, s, ses[s], book[s], web[s])
    BY <1>1, <1>2, <1>5, <1>10 DEF Writes, Put
  <2> QED BY <1>1, <1>2, <2>1, CallEnds
<1>11. \/ /\ Settled(book[s]) /\ book' = [book EXCEPT ![s] = b]
          /\ ses' = [ses EXCEPT ![s] = x] /\ UNCHANGED faults
       \/ /\ Settled(book[s]) /\ Fault /\ UNCHANGED ses
          /\ \E c \in Left(book[s], b) : book' = [book EXCEPT ![s] = c]
       \/ UNCHANGED <<book, ses, faults>>
  BY <1>1, Types DEF RecordObservation, s, b, x, Inv
<1> QED BY <1>8, <1>9, <1>10, <1>11

LEMMA PrepareActionStep ==
  ASSUME Inv, NEW o \in Owners, NEW s \in Sessions, PrepareAction(o, s)
  PROVE  Inv'
<1>1. /\ Up(o) /\ at[o] = Idle /\ Mine(o, s) /\ ses[s].active
      /\ ses[s] \in Lives /\ book[s] \in Books /\ web[s] \in Contexts
      /\ Sound(ses[s], book[s], web[s])
  BY Called DEF PrepareAction, ActiveSession
<1> DEFINE x == [ses[s] EXCEPT !.bound = ses[s].seen]
<1>2. /\ ses' = [ses EXCEPT ![s] = x]
      /\ UNCHANGED <<proc, at, profile, lock, book, web, faults>>
  BY <1>1, Types DEF PrepareAction, Inv
<1>3. x \in Lives /\ x.owner = o /\ x.rev = ses[s].rev /\ ses[s].owner = o /\ o # NoOne
  BY <1>1 DEF Lives, Mine
<1> HIDE DEF x
<1>4. Writes(o, s, x, book[s], web[s])
  BY <1>1, <1>2, <1>3, SameOwner DEF Writes, Put
<1> QED BY <1>1, <1>2, <1>4, CallEnds

\* The bound on the actions of all ledgers together bounds those of one.
LEMMA ActsBound ==
  ASSUME Inv, NEW s \in Sessions, book[s] # Torn, Cardinality(Acts) < MaxActs
  PROVE  book[s].count + 1 \in 0..MaxActs
<1> DEFINE n == book[s].count
           T == {s} \X (1..n)
<1>1. n \in 0..MaxActs
  BY SessionTypes, ReadsBook DEF Records
<1>2. T \subseteq Acts
  BY <1>1 DEF Acts, Readable
<1>3. IsFiniteSet(Acts)
  <2>1. IsFiniteSet(1..MaxActs)
    BY FS_Interval
  <2>2. IsFiniteSet(Sessions \X (1..MaxActs))
    BY <2>1, FS_Product
  <2> QED BY <2>2, FS_Subset DEF Acts
<1>4. Cardinality(T) = n
  <2> HIDE DEF n
  <2>0. 1 \in Int /\ n \in Int /\ n >= 0
    BY <1>1
  <2>1. IsFiniteSet(1..n) /\ Cardinality(1..n) = IF 1 > n THEN 0 ELSE n - 1 + 1
    BY <2>0, FS_Interval
  <2>2. IsFiniteSet({s}) /\ Cardinality({s}) = 1
    BY FS_Singleton
  <2>3. Cardinality({s} \X (1..n)) = Cardinality({s}) * Cardinality(1..n)
    BY <2>1, <2>2, FS_Product
  <2>4. Cardinality(T) = 1 * (IF 1 > n THEN 0 ELSE n - 1 + 1)
    BY <2>1, <2>2, <2>3
  <2> QED BY <2>0, <2>4
<1> HIDE DEF n, T
<1>5. Cardinality(T) <= Cardinality(Acts)
  BY <1>2, <1>3, FS_Subset
<1>6. Cardinality(Acts) \in Nat
  BY <1>3, FS_CardinalityType
<1> QED BY <1>1, <1>4, <1>5, <1>6 DEF n

LEMMA BeginActionStep ==
  ASSUME Inv, NEW o \in Owners, NEW s \in Sessions, BeginAction(o, s)
  PROVE  Inv'
<1> DEFINE b == Prepared(book[s])
<1>1. /\ Up(o) /\ at[o] = Idle /\ Mine(o, s) /\ ses[s].active
      /\ ses[s] \in Lives /\ book[s] \in Books /\ web[s] \in Contexts
      /\ Sound(ses[s], book[s], web[s])
  BY Called DEF BeginAction, ActiveSession
<1>2. /\ UNCHANGED <<proc, profile, lock, web>> /\ book[s] # Torn
      /\ ses[s].bound # 0 /\ book[s].obs = ses[s].bound /\ Settled(book[s])
      /\ profile.rev = ses[s].rev /\ Put(web, web', s, web[s])
  BY DEF BeginAction, ActiveSession, Matches, Readable, Current, Put
<1>3. /\ book[s] \in Records /\ book[s].count + 1 \in 0..MaxActs
      /\ book[s].obs > 0 /\ ses[s].owner = o /\ o # NoOne
  <2>1. book[s] \in Records /\ book[s].count + 1 \in 0..MaxActs
    BY <1>1, <1>2, ReadsBook, ActsBound DEF BeginAction
  <2> QED BY <1>1, <1>2, <2>1 DEF Records, Mine
<1>4. /\ b \in Records /\ b.phase = "PREPARED" /\ b.outcome = "none" /\ b.obs = book[s].obs
      /\ b.count = book[s].count + 1 /\ b # Torn
  BY <1>3 DEF Prepared, Records, Phases, Outcomes
<1> HIDE DEF b
<1>5. web[s].tried < b.count /\ b \in Books
  <2>1. web[s].tried <= book[s].count /\ web[s].tried \in Nat /\ book[s].count \in Nat
    BY <1>1, <1>2, <1>3 DEF Sound, Contexts, Records
  <2> QED BY <1>3, <1>4, <2>1 DEF Books, Shaped
<1>6. \A x : x.owner = o => Sound(x, b, web[s])
  <2>1. web[s].tried <= b.count
    BY <1>1, <1>4, <1>5 DEF Contexts, Records
  <2>2. ~web[s].told
    BY <1>1, <1>2 DEF Sound, Settled
  <2> QED BY <1>1, <1>3, <1>4, <2>1, <2>2 DEF Sound
<1>7. CASE /\ book' = [book EXCEPT ![s] = b] /\ Goes(o, "prepared", s)
           /\ UNCHANGED <<ses, faults>>
  <2>1. Writes(o, s, ses[s], b, web[s])
    BY <1>1, <1>2, <1>3, <1>5, <1>6, <1>7 DEF Writes, Put
  <2>2. /\ Knows("prepared", ses[s], b, web[s], profile.rev)
        /\ "prepared" \in Steps \ {"idle", "acquired"}
    BY <1>1, <1>2, <1>4, <1>5 DEF Knows, Steps
  <2> QED BY <1>7, <2>1, <2>2, CallGoes
<1>8. ASSUME NEW c \in Left(book[s], b), book' = [book EXCEPT ![s] = c],
             ses' = [ses EXCEPT ![s] = Reread(ses[s], c)], Fault, UNCHANGED at
      PROVE  Inv'
  <2> DEFINE x == Reread(ses[s], c)
  <2>1. c \in Books
    BY <1>1, <1>5, <1>8 DEF Left, Books
  <2>2. x \in Lives /\ x.owner = o /\ x.rev = ses[s].rev
    BY <1>1, <1>3, <2>1, RereadTypes
  <2>3. Put(ses, ses', s, x) /\ Put(book, book', s, c)
    BY <1>8 DEF Put
  <2> HIDE DEF x
  <2>4. Sound(x, c, web[s])
    <3>1. Sound(x, book[s], web[s]) /\ Sound(x, b, web[s])
      BY <1>1, <1>3, <1>6, <2>2, SameOwner
    <3>2. Sound(x, Torn, web[s])
      BY <1>3, <1>4, <2>2, <3>1, Tears
    <3> QED BY <1>8, <3>1, <3>2 DEF Left
  <2>5. Writes(o, s, x, c, web[s])
    BY <1>1, <1>2, <1>8, <2>1, <2>2, <2>3, <2>4 DEF Writes
  <2> QED BY <1>1, <1>8, <2>5, CallEnds
<1> QED BY <1>7, <1>8 DEF BeginAction, b

LEMMA MarkExecutingStep ==
  ASSUME Inv, NEW o \in Owners, MarkExecuting(o)
  PROVE  Inv'
<1> DEFINE s == at[o].s
           b == Executing(book[s])
<1>1. /\ Up(o) /\ s \in Sessions /\ Mine(o, s) /\ ses[s] \in Lives /\ web[s] \in Contexts
      /\ book[s] \in Books /\ ses[s].active /\ book[s] # Torn /\ book[s].phase = "PREPARED"
      /\ book[s].obs = ses[s].bound /\ web[s].tried < book[s].count
      /\ profile.rev = ses[s].rev /\ Sound(ses[s], book[s], web[s])
  BY InCall DEF MarkExecuting, Knows, Steps
<1>2. /\ UNCHANGED <<proc, profile, lock, web>> /\ at[o].s = s
      /\ Put(web, web', s, web[s])
  BY DEF MarkExecuting, Put
<1> HIDE DEF s
<1>3. book[s] \in Records /\ Shaped(book[s]) /\ ses[s].owner = o /\ o # NoOne
  BY <1>1, ReadsBook DEF Mine
<1>4. /\ b \in Records /\ b.phase = "EXECUTING" /\ b.outcome = book[s].outcome
      /\ b.obs = book[s].obs /\ b.count = book[s].count /\ b # Torn
  BY <1>3 DEF Executing, Records, Phases
<1> HIDE DEF b
<1>5. b \in Books
  BY <1>1, <1>3, <1>4 DEF Books, Shaped
<1>6. \A x : x.owner = o => Sound(x, b, web[s])
  BY <1>1, <1>3, <1>4 DEF Sound
<1>7. CASE /\ book' = [book EXCEPT ![s] = b] /\ Goes(o, "executing", s)
           /\ UNCHANGED <<ses, faults>>
  <2>1. Writes(o, s, ses[s], b, web[s])
    BY <1>1, <1>2, <1>3, <1>5, <1>6, <1>7 DEF Writes, Put
  <2>2. /\ Knows("executing", ses[s], b, web[s], profile.rev)
        /\ "executing" \in Steps \ {"idle", "acquired"}
    BY <1>1, <1>4 DEF Knows, Steps
  <2> QED BY <1>1, <1>7, <2>1, <2>2, CallGoes
<1>8. ASSUME NEW c \in Left(book[s], b), book' = [book EXCEPT ![s] = c],
             ses' = [ses EXCEPT ![s] = Reread(ses[s], c)], Fault, Ends(o)
      PROVE  Inv'
  <2> DEFINE x == Reread(ses[s], c)
  <2>1. c \in Books
    BY <1>1, <1>5, <1>8 DEF Left, Books
  <2>2. x \in Lives /\ x.owner = o /\ x.rev = ses[s].rev
    BY <1>1, <1>3, <2>1, RereadTypes
  <2>3. Put(ses, ses', s, x) /\ Put(book, book', s, c)
    BY <1>8 DEF Put
  <2> HIDE DEF x
  <2>4. Sound(x, c, web[s])
    <3>1. Sound(x, book[s], web[s]) /\ Sound(x, b, web[s])
      BY <1>1, <1>3, <1>6, <2>2, SameOwner
    <3>2. Sound(x, Torn, web[s])
      BY <1>3, <1>4, <2>2, <3>1, Tears
    <3> QED BY <1>8, <3>1, <3>2 DEF Left
  <2>5. Writes(o, s, x, c, web[s])
    BY <1>1, <1>2, <1>8, <2>1, <2>2, <2>3, <2>4 DEF Writes
  <2> QED BY <1>1, <1>8, <2>5, CallEnds
<1> QED BY <1>7, <1>8 DEF MarkExecuting, b, s

LEMMA ExecuteStep ==
  ASSUME Inv, NEW o \in Owners, Execute(o)
  PROVE  Inv'
<1> DEFINE s == at[o].s
           runs == [web[s] EXCEPT !.obs = 0, !.ran = TRUE, !.tried = web[s].tried + 1]
           x == Reread(ses[s], book[s])
<1>1. /\ Up(o) /\ s \in Sessions /\ Mine(o, s) /\ ses[s] \in Lives /\ web[s] \in Contexts
      /\ book[s] \in Books /\ ses[s].active /\ book[s] # Torn /\ book[s].phase = "EXECUTING"
      /\ web[s].tried < book[s].count /\ Sound(ses[s], book[s], web[s])
  BY InCall DEF Execute, Knows, Steps
<1>2. /\ UNCHANGED <<proc, profile, lock, book, faults>> /\ at[o].s = s
      /\ Put(book, book', s, book[s])
  BY DEF Execute, Put
<1>3. /\ book[s] \in Records /\ book[s].outcome = "none" /\ ses[s].owner = o /\ o # NoOne
      /\ web[s].tried + 1 <= book[s].count /\ web[s].tried + 1 \in 0..MaxActs
      /\ 0 \in 0..MaxObs
  <2>1. book[s] \in Records /\ Shaped(book[s])
    BY <1>1, ReadsBook
  <2>2. book[s].count \in 0..MaxActs /\ web[s].tried \in 0..MaxActs
    BY <1>1, <2>1 DEF Records, Contexts
  <2> QED BY <1>1, <2>1, <2>2 DEF Shaped, Mine
<1>4. ASSUME NEW w \in Contexts, w.ctx = web[s].ctx, w.told = web[s].told,
             w.usable => web[s].usable, w.tried \in {web[s].tried, web[s].tried + 1},
             web' = [web EXCEPT ![s] = w],
             NEW y, \/ UNCHANGED ses /\ y = ses[s]
                    \/ ses' = [ses EXCEPT ![s] = x] /\ y = x
      PROVE  Writes(o, s, y, book[s], w)
  <2>1. w.tried <= book[s].count
    BY <1>1, <1>3, <1>4 DEF Contexts, Records
  <2>2. Sound(ses[s], book[s], w)
    BY <1>1, <1>3, <1>4, <2>1 DEF Sound
  <2>3. y \in Lives /\ y.owner = o /\ y.rev = ses[s].rev
    BY <1>1, <1>3, <1>4, RereadTypes
  <2>4. Put(ses, ses', s, y)
    BY <1>4 DEF Put
  <2> HIDE DEF s, x
  <2>5. Sound(y, book[s], w)
    BY <1>3, <2>2, <2>3, SameOwner
  <2> QED BY <1>1, <1>2, <1>4, <2>3, <2>4, <2>5 DEF Writes, Put
<1> HIDE DEF s, x
<1>5. CASE Goes(o, "refused", s) /\ UNCHANGED ses
           /\ web' = [web EXCEPT ![s].obs = 0, ![s].ran = FALSE]
  <2> DEFINE w == [web[s] EXCEPT !.obs = 0, !.ran = FALSE]
  <2>1. web' = [web EXCEPT ![s] = w]
    BY <1>1, <1>5, Types DEF Inv
  <2>2. /\ w \in Contexts /\ w.ctx = web[s].ctx /\ w.told = web[s].told /\ ~w.ran
        /\ w.usable = web[s].usable /\ w.tried = web[s].tried
    BY <1>1, <1>3 DEF Contexts
  <2> HIDE DEF w
  <2>3. Writes(o, s, ses[s], book[s], w)
    BY <1>4, <1>5, <2>1, <2>2
  <2>4. /\ Knows("refused", ses[s], book[s], w, profile.rev)
        /\ "refused" \in Steps \ {"idle", "acquired"}
    BY <1>1, <2>2 DEF Knows, Steps
  <2> QED BY <1>1, <1>5, <2>3, <2>4, CallGoes
<1>6. CASE web' = [web EXCEPT ![s] = runs] /\ Goes(o, "applied", s) /\ UNCHANGED ses
  <2>1. /\ runs \in Contexts /\ runs.ctx = web[s].ctx /\ runs.told = web[s].told /\ runs.ran
        /\ runs.usable = web[s].usable /\ runs.tried = web[s].tried + 1
    BY <1>1, <1>3 DEF Contexts
  <2> HIDE DEF runs
  <2>2. Writes(o, s, ses[s], book[s], runs)
    BY <1>4, <1>6, <2>1
  <2>3. /\ Knows("applied", ses[s], book[s], runs, profile.rev)
        /\ "applied" \in Steps \ {"idle", "acquired"}
    BY <1>1, <2>1 DEF Knows, Steps
  <2> QED BY <1>1, <1>6, <2>2, <2>3, CallGoes
<1>7. ASSUME NEW poisoned \in BOOLEAN, ses' = [ses EXCEPT ![s] = x], Ends(o),
             web' = [web EXCEPT ![s].ran = FALSE, ![s].usable = @ /\ ~poisoned]
      PROVE  Inv'
  <2> DEFINE w == [web[s] EXCEPT !.ran = FALSE, !.usable = web[s].usable /\ ~poisoned]
  <2>1. web' = [web EXCEPT ![s] = w]
    BY <1>1, <1>7, Types DEF Inv, Contexts
  <2>2. /\ w \in Contexts /\ w.ctx = web[s].ctx /\ w.told = web[s].told
        /\ (w.usable => web[s].usable) /\ w.tried = web[s].tried
    BY <1>1 DEF Contexts
  <2> HIDE DEF w
  <2>3. Writes(o, s, x, book[s], w)
    BY <1>4, <1>7, <2>1, <2>2
  <2> QED BY <1>1, <1>7, <2>3, CallEnds
<1>8. ASSUME NEW poisoned \in BOOLEAN, ses' = [ses EXCEPT ![s] = x], Ends(o), web[s].usable,
             web' = [web EXCEPT ![s] = [runs EXCEPT !.usable = ~poisoned]]
      PROVE  Inv'
  <2> DEFINE w == [runs EXCEPT !.usable = ~poisoned]
  <2>1. /\ w \in Contexts /\ w.ctx = web[s].ctx /\ w.told = web[s].told
        /\ w.tried = web[s].tried + 1
    BY <1>1, <1>3 DEF Contexts
  <2>2. web' = [web EXCEPT ![s] = w]
    BY <1>8
  <2> HIDE DEF w
  <2>3. Writes(o, s, x, book[s], w)
    BY <1>4, <1>8, <2>1, <2>2
  <2> QED BY <1>1, <1>8, <2>3, CallEnds
<1> QED BY <1>5, <1>6, <1>7, <1>8 DEF Execute, s, x

LEMMA RecordResultStep ==
  ASSUME Inv, NEW o \in Owners, RecordResult(o)
  PROVE  Inv'
<1> DEFINE s == at[o].s
           out == IF at[o].step = "applied" THEN "applied" ELSE "not_executed"
           b == Result(book[s], out)
           x == [ses[s] EXCEPT !.mirror = b, !.bound = 0]
           y == [ses[s] EXCEPT !.bound = 0]
<1>1. /\ Up(o) /\ s \in Sessions /\ Mine(o, s) /\ ses[s] \in Lives /\ web[s] \in Contexts
      /\ book[s] \in Books /\ ses[s].active /\ book[s] # Torn /\ book[s].phase = "EXECUTING"
      /\ Sound(ses[s], book[s], web[s])
      /\ out = IF web[s].ran THEN "applied" ELSE "not_executed"
  <2>1. CASE In(o, "applied")
    BY <2>1, InCall DEF Knows, Steps
  <2>2. CASE In(o, "refused")
    BY <2>2, InCall DEF Knows, Steps
  <2> QED BY <2>1, <2>2 DEF RecordResult
<1>2. /\ UNCHANGED <<proc, profile, lock, web>> /\ Ends(o) /\ at[o].s = s
      /\ Put(web, web', s, web[s])
  BY DEF RecordResult, Put
<1>3. /\ book[s] \in Records /\ Shaped(book[s]) /\ ses[s].owner = o /\ o # NoOne
      /\ out \in Outcomes /\ out # "none" /\ 0 \in 0..MaxObs
  BY <1>1, ReadsBook DEF Mine, Outcomes
<1>4. \/ /\ book' = [book EXCEPT ![s] = b]
         /\ ses' = [ses EXCEPT ![s] = x] /\ UNCHANGED faults
      \/ /\ \E c \in Left(book[s], b) : book' = [book EXCEPT ![s] = c]
         /\ ses' = [ses EXCEPT ![s] = y] /\ Fault
  BY <1>1, Types DEF RecordResult, Inv
<1> HIDE DEF s, out
<1>5. /\ b \in Records /\ b.phase = "OBSERVED" /\ b.outcome = out /\ b.obs = book[s].obs
      /\ b.count = book[s].count /\ b # Torn
  BY <1>3 DEF Result, Records, Phases
<1> HIDE DEF b
<1>6. b \in Books
  BY <1>1, <1>3, <1>5 DEF Books, Shaped
<1>7. /\ x \in Lives /\ x.owner = o /\ x.rev = ses[s].rev
      /\ y \in Lives /\ y.owner = o /\ y.rev = ses[s].rev
  BY <1>1, <1>3, <1>5 DEF Lives
<1> HIDE DEF x, y
<1>8. Sound(x, b, web[s]) /\ Sound(y, b, web[s])
  BY <1>1, <1>3, <1>5, <1>7 DEF Sound
<1>9. CASE book' = [book EXCEPT ![s] = b] /\ ses' = [ses EXCEPT ![s] = x] /\ UNCHANGED faults
  <2>1. Writes(o, s, x, b, web[s])
    BY <1>1, <1>2, <1>6, <1>7, <1>8, <1>9 DEF Writes, Put
  <2> QED BY <1>1, <1>2, <2>1, CallEnds
<1>10. ASSUME NEW c \in Left(book[s], b), book' = [book EXCEPT ![s] = c],
              ses' = [ses EXCEPT ![s] = y], Fault
       PROVE  Inv'
  <2>1. c \in Books
    BY <1>1, <1>6, <1>10 DEF Left, Books
  <2>2. Sound(y, c, web[s])
    <3>1. Sound(y, book[s], web[s])
      BY <1>1, <1>3, <1>7, SameOwner
    <3>2. Sound(y, Torn, web[s])
      BY <1>1, <1>3, <1>7, <3>1, Tears
    <3> QED BY <1>8, <1>10, <3>1, <3>2 DEF Left
  <2>3. Writes(o, s, y, c, web[s])
    BY <1>1, <1>2, <1>7, <1>10, <2>1, <2>2 DEF Writes, Put
  <2> QED BY <1>1, <1>2, <2>3, CallEnds
<1> QED BY <1>4, <1>9, <1>10

-----------------------------------------------------------------------------
(* Closing, and taking over                                                *)

\* The steps of browser_close and owner_shutdown.
LEMMA CloseContextStep ==
  ASSUME Inv, NEW o \in Owners, NEW s \in Sessions, Calls(o, s), CloseContext(o, s)
  PROVE  Inv'
<1>1. /\ Up(o) /\ at[o] = Idle /\ Mine(o, s) /\ ses[s].active
      /\ ses[s] \in Lives /\ book[s] \in Books /\ web[s] \in Contexts
      /\ Sound(ses[s], book[s], web[s]) /\ ses[s].owner = o /\ o # NoOne
  BY Called DEF Mine
<1>2. UNCHANGED <<proc, profile, lock, book, ses, faults>> /\ web[s].ctx = "live"
  BY DEF CloseContext
<1>3. book[s] = Torn \/ book[s].phase # "CLOSED"
  BY <1>1, <1>2 DEF Sound
<1>4. ASSUME NEW how \in {"closed", "lost"}, web' = [web EXCEPT ![s] = Gone(web[s], how)]
      PROVE  /\ Gone(web[s], how).ctx = how
             /\ Writes(o, s, ses[s], book[s], Gone(web[s], how))
  <2> DEFINE w == Gone(web[s], how)
  <2>1. /\ w \in Contexts /\ w.ctx = how /\ ~w.usable /\ w.ran = web[s].ran
        /\ w.tried = web[s].tried /\ w.told = web[s].told
    BY <1>1, <1>4, GoneTypes
  <2> HIDE DEF w
  <2>2. Sound(ses[s], book[s], w)
    BY <1>1, <1>3, <2>1 DEF Sound
  <2>3. Put(web, web', s, w)
    BY <1>4 DEF Put, w
  <2>4. Writes(o, s, ses[s], book[s], w)
    BY <1>1, <1>2, <2>1, <2>2, <2>3 DEF Writes, Put
  <2> QED BY <2>1, <2>4 DEF w
<1>5. CASE web' = [web EXCEPT ![s] = Gone(web[s], "closed")] /\ Goes(o, "closing", s)
  <2> DEFINE w == Gone(web[s], "closed")
  <2>1. w.ctx = "closed" /\ Writes(o, s, ses[s], book[s], w)
    BY <1>4, <1>5
  <2> HIDE DEF w
  <2>2. /\ Knows("closing", ses[s], book[s], w, profile.rev)
        /\ "closing" \in Steps \ {"idle", "acquired"}
    BY <1>1, <1>3, <2>1 DEF Knows, Steps
  <2> QED BY <1>5, <2>1, <2>2, CallGoes
<1>6. ASSUME NEW how \in {"closed", "lost"}, UNCHANGED at,
             web' = [web EXCEPT ![s] = Gone(web[s], how)]
      PROVE  Inv'
  <2>1. Writes(o, s, ses[s], book[s], Gone(web[s], how))
    BY <1>4, <1>6
  <2> QED BY <1>1, <1>6, <2>1, CallEnds
<1> QED BY <1>5, <1>6 DEF CloseContext

LEMMA CloseLedgerStep ==
  ASSUME Inv, NEW o \in Owners, CloseLedger(o)
  PROVE  Inv'
<1> DEFINE s == at[o].s
           b == Closed(book[s])
           x == [ses[s] EXCEPT !.mirror = b]
<1>1. /\ Up(o) /\ s \in Sessions /\ Mine(o, s) /\ ses[s] \in Lives /\ web[s] \in Contexts
      /\ book[s] \in Books /\ ses[s].active /\ web[s].ctx = "closed"
      /\ book[s] = Torn \/ book[s].phase # "CLOSED"
      /\ Sound(ses[s], book[s], web[s]) /\ ses[s].owner = o /\ o # NoOne
  <2>1. "closing" \in Steps /\ In(o, "closing")
    BY DEF CloseLedger, Steps
  <2>2. /\ Up(o) /\ s \in Sessions /\ Mine(o, s) /\ ses[s] \in Lives /\ web[s] \in Contexts
        /\ book[s] \in Books /\ Sound(ses[s], book[s], web[s])
        /\ Knows("closing", ses[s], book[s], web[s], profile.rev)
    BY <2>1, InCall
  <2> QED BY <2>2 DEF Knows, Mine
<1>2. /\ UNCHANGED <<proc, profile, lock, web>> /\ at[o].s = s
      /\ Put(web, web', s, web[s])
  BY DEF CloseLedger, Put
<1>3. CASE Matches(s) /\ Closable(book[s])
  <2>1. /\ book[s] \in Records /\ Shaped(book[s]) /\ book[s] # Torn
        /\ book[s].phase \in {"ACTIVE", "OBSERVED"}
    BY <1>1, <1>3, ReadsBook DEF Matches, Readable, Closable
  <2>2. \/ /\ book' = [book EXCEPT ![s] = b] /\ ses' = [ses EXCEPT ![s] = x]
           /\ Goes(o, "closed", s) /\ UNCHANGED faults
        \/ /\ \E c \in Left(book[s], b) : book' = [book EXCEPT ![s] = c]
           /\ Ends(o) /\ Fault /\ UNCHANGED ses
    BY <1>1, <1>3, Types DEF CloseLedger, Inv
  <2> HIDE DEF s
  <2>3. /\ b \in Records /\ b.phase = "CLOSED" /\ b.outcome = book[s].outcome
        /\ b.count = book[s].count /\ b # Torn
    BY <2>1 DEF Closed, Records, Phases
  <2> HIDE DEF b
  <2>4. b \in Books
    <3>1. book[s].count \in Nat
      BY <2>1 DEF Records
    <3> QED BY <2>1, <2>3, <3>1 DEF Books, Shaped
  <2>5. x \in Lives /\ x.owner = o /\ x.rev = ses[s].rev /\ x.active
    BY <1>1, <2>3 DEF Lives
  <2> HIDE DEF x
  <2>6. Sound(ses[s], b, web[s]) /\ Sound(x, b, web[s])
    BY <1>1, <2>1, <2>3, <2>5 DEF Sound
  <2>7. CASE /\ book' = [book EXCEPT ![s] = b] /\ ses' = [ses EXCEPT ![s] = x]
             /\ Goes(o, "closed", s) /\ UNCHANGED faults
    <3>1. Writes(o, s, x, b, web[s])
      BY <1>1, <1>2, <2>4, <2>5, <2>6, <2>7 DEF Writes, Put
    <3>2. /\ Knows("closed", x, b, web[s], profile.rev)
          /\ "closed" \in Steps \ {"idle", "acquired"}
      BY <1>1, <2>3, <2>5 DEF Knows, Steps
    <3> QED BY <1>1, <2>7, <3>1, <3>2, CallGoes
  <2>8. ASSUME NEW c \in Left(book[s], b), book' = [book EXCEPT ![s] = c],
               Ends(o), Fault, UNCHANGED ses
        PROVE  Inv'
    <3>1. c \in Books
      BY <1>1, <2>4, <2>8 DEF Left, Books
    <3>2. Sound(ses[s], Torn, web[s])
      BY <1>1, Tears
    <3>3. Sound(ses[s], c, web[s])
      BY <1>1, <2>6, <2>8, <3>2 DEF Left
    <3>4. Writes(o, s, ses[s], c, web[s])
      BY <1>1, <1>2, <2>8, <3>1, <3>3 DEF Writes, Put
    <3> QED BY <1>1, <2>8, <3>4, CallEnds
  <2> QED BY <2>2, <2>7, <2>8
<1>4. CASE Ends(o) /\ UNCHANGED <<book, ses, faults>>
  <2>1. Writes(o, s, ses[s], book[s], web[s])
    BY <1>1, <1>2, <1>4 DEF Writes, Put
  <2> QED BY <1>1, <1>4, <2>1, CallEnds
<1> QED BY <1>3, <1>4 DEF CloseLedger

LEMMA ReleaseClosedStep ==
  ASSUME Inv, NEW o \in Owners, ReleaseClosed(o)
  PROVE  Inv'
<1> DEFINE s == at[o].s
           x == Forgotten(ses[s])
           w == [web[s] EXCEPT !.told = TRUE]
<1>1. /\ Up(o) /\ s \in Sessions /\ Mine(o, s) /\ ses[s] \in Lives /\ web[s] \in Contexts
      /\ book[s] \in Books /\ web[s].ctx = "closed" /\ book[s] # Torn
      /\ book[s].phase = "CLOSED" /\ Sound(ses[s], book[s], web[s])
      /\ ses[s].owner = o /\ o # NoOne
  <2>1. "closed" \in Steps /\ In(o, "closed")
    BY DEF ReleaseClosed, Steps
  <2>2. /\ Up(o) /\ s \in Sessions /\ Mine(o, s) /\ ses[s] \in Lives /\ web[s] \in Contexts
        /\ book[s] \in Books /\ Sound(ses[s], book[s], web[s])
        /\ Knows("closed", ses[s], book[s], web[s], profile.rev)
    BY <2>1, InCall
  <2> QED BY <2>2 DEF Knows, Mine
<1>2. /\ UNCHANGED <<proc, profile, book, faults>> /\ Ends(o) /\ at[o].s = s
      /\ lock' = Released(s) /\ ses' = [ses EXCEPT ![s] = x] /\ web' = [web EXCEPT ![s] = w]
      /\ Put(book, book', s, book[s])
  BY <1>1, Types DEF ReleaseClosed, Put, Inv
<1> HIDE DEF s
<1>3. x \in Lives /\ x.owner = o /\ x.rev = ses[s].rev /\ ~x.active
  BY <1>1, Empty DEF Forgotten, NoSession, Lives
<1>4. /\ w \in Contexts /\ w.ctx = "closed" /\ w.usable = web[s].usable /\ w.ran = web[s].ran
      /\ w.tried = web[s].tried
  BY <1>1 DEF Contexts
<1> HIDE DEF x, w
<1>5. Sound(x, book[s], w)
  BY <1>1, <1>3, <1>4 DEF Sound
<1>6. Idle \in Ats /\ Put(at, at', o, Idle) /\ faults' \in 0..MaxFaults
  BY <1>2, EndsCall, Faulted
<1>7. Leaves(o, s, Idle, x, book[s], w)
  BY <1>1, <1>2, <1>3, <1>4, <1>5, <1>6 DEF Leaves, Put
<1>8. ~Needs(Idle, s, x, w)
  BY <1>3, <1>4 DEF Needs, Idle
<1> QED BY <1>1, <1>2, <1>7, <1>8, ReleasesOwn, StepKeeps

\* Whoever tells that a session is closed changes nothing of it.
LEMMA OutcloseStep ==
  ASSUME Inv, NEW o \in Owners, NEW s \in Sessions, Outclose(o, s)
  PROVE  Inv'
<1> DEFINE w == [web[s] EXCEPT !.told = TRUE]
<1>1. /\ web' = [web EXCEPT ![s] = w] /\ book[s] # Torn /\ book[s].phase = "CLOSED"
      /\ UNCHANGED <<proc, at, profile, lock, book, ses, faults>>
  BY Types DEF Outclose, Readable, Inv
<1>2. web[s] \in Contexts /\ Sound(ses[s], book[s], web[s])
  BY Types DEF Inv, SoundInv
<1>3. /\ w \in Contexts /\ w.ctx = web[s].ctx /\ w.usable = web[s].usable /\ w.ran = web[s].ran
      /\ w.tried = web[s].tried /\ w.obs = web[s].obs
  BY <1>2 DEF Contexts
<1> HIDE DEF w
<1>4. /\ web' \in [Sessions -> Contexts] /\ web'[s] = w
      /\ \A r \in Sessions : r # s => web'[r] = web[r]
  BY <1>1, <1>3, Types DEF Inv
<1>5. \A r \in Sessions : /\ web'[r].ctx = web[r].ctx /\ web'[r].ran = web[r].ran
                          /\ web'[r].tried = web[r].tried /\ web'[r].obs = web[r].obs
  BY <1>3, <1>4
<1>6. TypeOK'
  BY <1>1, <1>4, Types, TypesNext DEF Inv
<1>7. PlaceInv'
  <2> SUFFICES ASSUME NEW q \in Owners, at[q] # Idle
               PROVE  /\ Up(q) /\ at[q].s \in Sessions /\ at[q].step # "idle" /\ Mine(q, at[q].s)
                      /\ Knows(at[q].step, ses[at[q].s], book[at[q].s], web'[at[q].s], profile.rev)
    BY <1>1 DEF PlaceInv, Up, Mine
  <2>1. /\ Up(q) /\ at[q].s \in Sessions /\ at[q].step # "idle" /\ Mine(q, at[q].s)
        /\ Knows(at[q].step, ses[at[q].s], book[at[q].s], web[at[q].s], profile.rev)
    BY DEF Inv, PlaceInv
  <2>2. CASE at[q].s # s
    BY <1>4, <2>1, <2>2
  <2>3. CASE at[q].s = s
    <3>1. at[q].step # "acquired"
      BY <1>1, <2>1, <2>3 DEF Knows, NoBook
    <3> QED BY <1>4, <1>5, <2>1, <2>3, <3>1 DEF Knows
  <2> QED BY <2>2, <2>3
<1>8. SoundInv'
  <2>1. Sound(ses[s], book[s], w)
    <3>1. ses[s].owner # NoOne
      BY <1>1, <1>2 DEF Sound, NoBook
    <3> QED BY <1>1, <1>2, <1>3, <3>1 DEF Sound
  <2>2. \A r \in Sessions : Sound(ses'[r], book'[r], web'[r])
    BY <1>1, <1>4, <2>1 DEF Inv, SoundInv
  <2> QED BY <2>2 DEF SoundInv
<1>9. DeadInv'
  BY <1>1, <1>5 DEF Inv, DeadInv, Mine, Up
<1>10. HoldInv'
  <2>1. \A r \in Sessions : Held(r)' => Held(r)
    BY <1>1, <1>5 DEF Held, Needs, Mine, Up
  <2> QED BY <1>1, <2>1 DEF Inv, HoldInv
<1>11. RevInv'
  BY <1>1 DEF Inv, RevInv
<1> QED BY <1>6, <1>7, <1>8, <1>9, <1>10, <1>11 DEF Inv

\* The steps of a takeover.
LEMMA BeginTakeoverStep ==
  ASSUME Inv, NEW o \in Owners, NEW s \in Sessions, BeginTakeover(o, s)
  PROVE  Inv'
<1>1. /\ Up(o) /\ at[o] = Idle /\ Mine(o, s) /\ ses[s].active
      /\ ses[s] \in Lives /\ book[s] \in Books /\ web[s] \in Contexts
      /\ Sound(ses[s], book[s], web[s]) /\ ses[s].owner = o /\ o # NoOne
  BY Called DEF BeginTakeover, ActiveSession, Mine
<1>2. UNCHANGED <<proc, at, profile, lock, book, ses, faults>> /\ web[s].ctx = "live"
  BY DEF BeginTakeover, Usable
<1>3. ASSUME NEW w \in Contexts, w.ctx = "live", w.ran = web[s].ran, w.tried = web[s].tried,
             w.told = web[s].told, web' = [web EXCEPT ![s] = w]
      PROVE  Inv'
  <2>1. Sound(ses[s], book[s], w)
    BY <1>1, <1>2, <1>3 DEF Sound
  <2>2. Writes(o, s, ses[s], book[s], w)
    BY <1>1, <1>2, <1>3, <2>1 DEF Writes, Put
  <2> QED BY <1>1, <1>2, <2>2, CallEnds
<1>4. 0 \in 0..MaxObs
  OBVIOUS
<1>5. CASE web' = [web EXCEPT ![s].headed = TRUE, ![s].obs = 0]
  <2> DEFINE w == [web[s] EXCEPT !.headed = TRUE, !.obs = 0]
  <2>1. web' = [web EXCEPT ![s] = w]
    BY <1>1, <1>5, Types DEF Inv
  <2>2. w \in Contexts /\ w.ctx = "live" /\ w.ran = web[s].ran /\ w.tried = web[s].tried
        /\ w.told = web[s].told
    BY <1>1, <1>2, <1>4 DEF Contexts
  <2> HIDE DEF w
  <2> QED BY <1>3, <2>1, <2>2
<1>6. CASE web' = [web EXCEPT ![s].usable = FALSE, ![s].obs = 0]
  <2> DEFINE w == [web[s] EXCEPT !.usable = FALSE, !.obs = 0]
  <2>1. web' = [web EXCEPT ![s] = w]
    BY <1>1, <1>6, Types DEF Inv
  <2>2. w \in Contexts /\ w.ctx = "live" /\ w.ran = web[s].ran /\ w.tried = web[s].tried
        /\ w.told = web[s].told
    BY <1>1, <1>2, <1>4 DEF Contexts
  <2> HIDE DEF w
  <2> QED BY <1>3, <2>1, <2>2
<1> QED BY <1>5, <1>6 DEF BeginTakeover

\* As many advances as there are sessions.
LEMMA RevisionBound ==
  ASSUME Inv, NEW s \in Sessions, profile.rev = ses[s].rev
  PROVE  profile.rev <= Cardinality(Sessions)
<1> DEFINE f == [r \in Sessions |-> ses[r].rev]
           T == {f[r] : r \in Sessions}
<1>1. f \in [Sessions -> T] /\ \A t \in T : \E r \in Sessions : f[r] = t
  OBVIOUS
<1>2. f \in Surjection(Sessions, T)
  BY <1>1 DEF Surjection
<1>3. IsFiniteSet(T) /\ Cardinality(T) <= Cardinality(Sessions)
  BY <1>2, FS_Surjection
<1>4. profile.rev \in Nat \ {0}
  BY Types DEF Inv, Profiles
<1>5. 1..profile.rev \subseteq T
  <2> SUFFICES ASSUME NEW n \in 1..profile.rev PROVE \E r \in Sessions : ses[r].rev = n
    OBVIOUS
  <2>1. CASE n = profile.rev
    BY <2>1
  <2>2. CASE n \in 1..(profile.rev - 1)
    BY <2>2 DEF Inv, RevInv
  <2> QED BY <1>4, <2>1, <2>2
<1> HIDE DEF T
<1>6. Cardinality(1..profile.rev) = profile.rev
  <2>1. 1 \in Int /\ profile.rev \in Int /\ ~(1 > profile.rev)
    BY <1>4
  <2>2. Cardinality(1..profile.rev) = profile.rev - 1 + 1
    BY <2>1, FS_Interval
  <2> QED BY <1>4, <2>2
<1>7. Cardinality(1..profile.rev) <= Cardinality(T)
  BY <1>3, <1>5, FS_Subset
<1>8. Cardinality(T) \in Nat /\ Cardinality(Sessions) \in Nat
  BY <1>3, FS_CardinalityType
<1> QED BY <1>3, <1>4, <1>6, <1>7, <1>8

LEMMA CompleteTakeoverStep ==
  ASSUME Inv, NEW o \in Owners, NEW s \in Sessions, CompleteTakeover(o, s)
  PROVE  Inv'
<1>1. /\ Up(o) /\ at[o] = Idle /\ Mine(o, s) /\ ses[s].active /\ ses[s] \in Lives
  BY Called DEF CompleteTakeover
<1>2. /\ lock = s /\ profile.rev # ses[s].rev + 1 /\ profile \in Profiles
      /\ UNCHANGED <<proc, at, lock, book, ses, web>> /\ (Fault \/ UNCHANGED faults)
  BY Types DEF CompleteTakeover, LeaseHolds, AlreadyAdvanced, Inv
<1>3. Held(s)
  BY <1>1 DEF Held, Needs
<1>4. profile.rev = ses[s].rev
  BY <1>2, <1>3 DEF Inv, HoldInv, Owned
<1>5. profile.rev + 1 \in 1..(Cardinality(Sessions) + 1)
  <2>1. profile.rev \in Nat /\ Cardinality(Sessions) \in Nat
    BY <1>2, FS_CardinalityType DEF Profiles
  <2> QED BY <1>4, <2>1, RevisionBound
<1>6. /\ profile' \in Profiles /\ profile'.place = profile.place /\ profile'.status = profile.status
      /\ profile'.rev \in {profile.rev, profile.rev + 1}
  <2>1. \/ profile' = [profile EXCEPT !.rev = profile.rev + 1]
        \/ profile' = [profile EXCEPT !.torn = TRUE]
    BY <1>2 DEF CompleteTakeover, Profiles
  <2> QED BY <1>2, <1>5, <2>1 DEF Profiles
<1>7. TypeOK'
  BY <1>2, <1>6, Faulted, Types, TypesNext DEF Inv
<1>8. PlaceInv'
  <2> SUFFICES ASSUME NEW q \in Owners, at[q] # Idle
               PROVE  /\ Up(q) /\ at[q].s \in Sessions /\ at[q].step # "idle" /\ Mine(q, at[q].s)
                      /\ Knows(at[q].step, ses[at[q].s], book[at[q].s], web[at[q].s], profile'.rev)
    BY <1>2 DEF PlaceInv, Up, Mine
  <2>1. /\ Up(q) /\ at[q].s \in Sessions /\ at[q].step # "idle" /\ Mine(q, at[q].s)
        /\ Knows(at[q].step, ses[at[q].s], book[at[q].s], web[at[q].s], profile.rev)
    BY DEF Inv, PlaceInv
  <2>2. at[q].step \notin {"prepared", "executing"}
    <3> SUFFICES ASSUME at[q].step \in {"prepared", "executing"} PROVE FALSE
      OBVIOUS
    <3>1. ses[at[q].s].active
      BY <2>1 DEF Knows
    <3>2. Held(at[q].s)
      BY <2>1, <3>1 DEF Held, Needs
    <3>3. at[q].s = s
      BY <1>2, <2>1, <3>2 DEF Inv, HoldInv, Owned
    <3> QED BY <1>1, <2>1, <3>3 DEF Mine
  <2> QED BY <2>1, <2>2 DEF Knows
<1>9. SoundInv' /\ DeadInv'
  BY <1>2 DEF Inv, SoundInv, DeadInv, Mine, Up
<1>10. HoldInv'
  <2> SUFFICES ASSUME NEW r \in Sessions, Held(r)' PROVE Owned(lock', profile', r, ses'[r].rev)
    BY DEF HoldInv
  <2>1. Held(r)
    BY <1>2 DEF Held, Mine, Up
  <2>2. Owned(lock, profile, r, ses[r].rev)
    BY <2>1 DEF Inv, HoldInv
  <2> QED BY <1>2, <1>4, <1>6, <2>2 DEF Owned
<1>11. RevInv'
  <2>1. ASSUME NEW r \in 1..(profile'.rev - 1) PROVE \E t \in Sessions : ses[t].rev = r
    <3>1. r \in 1..(profile.rev - 1) \/ r = profile.rev
      BY <1>2, <1>6 DEF Profiles
    <3> QED BY <1>4, <3>1 DEF Inv, RevInv
  <2> QED BY <1>2, <2>1 DEF RevInv
<1> QED BY <1>7, <1>8, <1>9, <1>10, <1>11 DEF Inv

-----------------------------------------------------------------------------
(* The profile's owner; starts and deaths                                  *)

\* The profile is revoked or cleared only when nobody has the lock.
LEMMA ProfileStep ==
  ASSUME Inv, NEW o \in Owners, Revoke(o) \/ Clear(o)
  PROVE  Inv'
<1>1. /\ lock' = NoOne /\ UNCHANGED <<proc, at, book, ses, web>> /\ NoLiveWriter(o)
      /\ Fault \/ UNCHANGED faults
  BY DEF Revoke, Clear
<1>2. profile' \in Profiles /\ profile'.rev = profile.rev
  <2>1. profile \in Profiles
    BY Types DEF Inv
  <2> QED BY <2>1 DEF Revoke, Clear, Profiles
<1>3. TypeOK'
  BY <1>1, <1>2, Faulted, Types, TypesNext DEF Inv
<1>4. PlaceInv' /\ SoundInv' /\ DeadInv' /\ RevInv'
  BY <1>1, <1>2 DEF Inv, PlaceInv, SoundInv, DeadInv, RevInv, Mine, Up
<1>5. HoldInv'
  <2>1. \A r \in Sessions : Held(r)' => Held(r)
    BY <1>1 DEF Held, Mine, Up
  <2>2. \A r \in Sessions : ~Held(r)
    BY <1>1, Unheld
  <2> QED BY <2>1, <2>2 DEF HoldInv
<1> QED BY <1>3, <1>4, <1>5 DEF Inv

LEMMA StartStep ==
  ASSUME Inv, NEW o \in Owners, Start(o)
  PROVE  Inv'
<1>1. /\ proc[o] = "new" /\ proc' = [proc EXCEPT ![o] = "up"]
      /\ UNCHANGED <<at, profile, lock, book, ses, web, faults>>
  BY DEF Start
<1>2. /\ proc' \in [Owners -> {"new", "up", "dead"}] /\ proc'[o] = "up"
      /\ \A q \in Owners : q # o => proc'[q] = proc[q]
  BY <1>1, Types DEF Inv
<1>3. \A s \in Sessions : ~Mine(o, s)
  BY <1>1 DEF Inv, DeadInv, Up
<1>4. TypeOK'
  BY <1>1, <1>2, Types, TypesNext DEF Inv
<1>5. PlaceInv'
  BY <1>1, <1>2 DEF Inv, PlaceInv, Mine, Up
<1>6. SoundInv' /\ RevInv'
  BY <1>1 DEF Inv, SoundInv, RevInv
<1>7. DeadInv'
  BY <1>1, <1>2 DEF Inv, DeadInv, Mine, Up
<1>8. HoldInv'
  <2>1. \A r \in Sessions : Held(r)' => Held(r)
    BY <1>1, <1>2, <1>3 DEF Held, Mine, Up
  <2> QED BY <1>1, <2>1 DEF Inv, HoldInv
<1> QED BY <1>4, <1>5, <1>6, <1>7, <1>8 DEF Inv

\* A ledger that is being written is not yet closed.
LEMMA WritingOpen ==
  ASSUME Inv, NEW o \in Owners, NEW s \in Sessions, at[o].s = s, at[o].step \in Writing
  PROVE  Mine(o, s) /\ (book[s] = Torn \/ book[s].phase # "CLOSED")
<1>1. at[o] # Idle
  BY DEF Idle, Writing
<1>2. Mine(o, s) /\ Knows(at[o].step, ses[s], book[s], web[s], profile.rev)
  BY <1>1 DEF Inv, PlaceInv
<1> QED BY <1>2 DEF Knows, Writing, NoBook, Opening

LEMMA DieStep ==
  ASSUME Inv, NEW o \in Owners, Die(o)
  PROVE  Inv'
<1>1. /\ Up(o) /\ proc' = [proc EXCEPT ![o] = "dead"] /\ Ends(o)
      /\ web' = [s \in Sessions |-> IF Mine(o, s) /\ web[s].ctx = "live"
                                    THEN Gone(web[s], "lost") ELSE web[s]]
      /\ ses' = [s \in Sessions |-> IF Mine(o, s) THEN Forgotten(ses[s]) ELSE ses[s]]
      /\ UNCHANGED <<profile, lock>> /\ (Fault \/ UNCHANGED faults)
  BY DEF Die
<1>2. /\ proc' \in [Owners -> {"new", "up", "dead"}] /\ proc'[o] = "dead"
      /\ \A q \in Owners : q # o => proc'[q] = proc[q]
  BY <1>1, Types DEF Inv
<1>3. /\ at' \in [Owners -> Ats] /\ at'[o] = Idle /\ \A q \in Owners : q # o => at'[q] = at[q]
  BY <1>1, EndsCall, Types DEF Ends, Inv
<1>4. ASSUME NEW s \in Sessions
      PROVE  /\ book'[s] \in Books
             /\ \/ book'[s] = book[s]
                \/ Mine(o, s) /\ book'[s] = Torn /\ (book[s] = Torn \/ book[s].phase # "CLOSED")
  BY Types, WritingOpen DEF Die, Inv, Books
<1>5. book' \in [Sessions -> Books]
  <2>1. book' = book \/ \E s \in Sessions : book' = [book EXCEPT ![s] = Torn]
    BY DEF Die
  <2> QED BY <2>1, Types DEF Inv, Books
<1>6. ASSUME NEW s \in Sessions, Mine(o, s)
      PROVE  /\ ses'[s] \in Lives /\ ses'[s].owner = o /\ ses'[s].rev = ses[s].rev
             /\ ~ses'[s].active
             /\ web'[s] \in Contexts /\ web'[s].ctx # "live"
             /\ Sound(ses'[s], book'[s], web'[s])
  <2>1. /\ ses[s] \in Lives /\ web[s] \in Contexts /\ book[s] \in Books
        /\ Sound(ses[s], book[s], web[s]) /\ ses[s].owner = o /\ o # NoOne
    BY <1>6, Has DEF Mine
  <2>2. /\ ses'[s] = Forgotten(ses[s])
        /\ web'[s] = IF web[s].ctx = "live" THEN Gone(web[s], "lost") ELSE web[s]
    BY <1>1, <1>6
  <2>3. /\ ses'[s] \in Lives /\ ses'[s].owner = o /\ ses'[s].rev = ses[s].rev /\ ~ses'[s].active
    <3>1. Forgotten(ses[s]) \in Lives /\ Forgotten(ses[s]).owner = o
          /\ Forgotten(ses[s]).rev = ses[s].rev /\ ~Forgotten(ses[s]).active
      BY <2>1, Empty DEF Forgotten, NoSession, Lives
    <3> QED BY <2>2, <3>1
  <2>4. /\ web'[s] \in Contexts /\ web'[s].ctx # "live" /\ web'[s].ran = web[s].ran
        /\ web'[s].tried = web[s].tried /\ web'[s].told = web[s].told
        /\ (web[s].ctx # "live" => web'[s] = web[s])
    BY <2>1, <2>2, GoneTypes
  <2>5. ~web'[s].usable
    BY <2>1, <2>2, GoneTypes DEF Sound
  <2>6. Sound(ses'[s], book[s], web'[s])
    BY <2>1, <2>3, <2>4, <2>5 DEF Sound
  <2>7. Sound(ses'[s], book'[s], web'[s])
    BY <1>4, <2>1, <2>3, <2>6, Tears
  <2> QED BY <2>3, <2>4, <2>7
<1>7. ASSUME NEW s \in Sessions, ~Mine(o, s)
      PROVE  ses'[s] = ses[s] /\ web'[s] = web[s] /\ book'[s] = book[s]
  BY <1>1, <1>4, <1>7
<1>8. ses' \in [Sessions -> Lives] /\ web' \in [Sessions -> Contexts]
  <2>1. \A s \in Sessions : ses'[s] \in Lives /\ web'[s] \in Contexts
    BY <1>6, <1>7, Has
  <2>2. ses' = [s \in Sessions |-> ses'[s]] /\ web' = [s \in Sessions |-> web'[s]]
    BY <1>1
  <2> QED BY <2>1, <2>2
<1>9. TypeOK'
  BY <1>1, <1>2, <1>3, <1>5, <1>8, Faulted, Types, TypesNext DEF Inv
<1>10. PlaceInv'
  <2> SUFFICES ASSUME NEW q \in Owners, at'[q] # Idle
               PROVE  /\ Up(q)' /\ at'[q].s \in Sessions /\ at'[q].step # "idle"
                      /\ ses'[at'[q].s].owner = q
                      /\ Knows(at'[q].step, ses'[at'[q].s], book'[at'[q].s],
                               web'[at'[q].s], profile'.rev)
    BY DEF PlaceInv, Mine
  <2>1. q # o /\ at'[q] = at[q]
    BY <1>3
  <2>2. /\ Up(q) /\ at[q].s \in Sessions /\ at[q].step # "idle" /\ Mine(q, at[q].s)
        /\ Knows(at[q].step, ses[at[q].s], book[at[q].s], web[at[q].s], profile.rev)
    BY <2>1 DEF Inv, PlaceInv
  <2>3. ~Mine(o, at[q].s)
    BY <2>1, <2>2 DEF Mine
  <2> QED BY <1>1, <1>2, <1>7, <2>1, <2>2, <2>3 DEF Up, Mine
<1>11. SoundInv'
  <2>1. \A s \in Sessions : Sound(ses'[s], book'[s], web'[s])
    BY <1>6, <1>7 DEF Inv, SoundInv
  <2> QED BY <2>1 DEF SoundInv
<1>12. DeadInv'
  <2>1. ASSUME NEW s \in Sessions, NEW q \in Owners, ses'[s].owner = q, ~Up(q)'
        PROVE  proc'[q] = "dead" /\ ~ses'[s].active /\ web'[s].ctx # "live"
    <3>1. CASE Mine(o, s)
      BY <1>2, <1>6, <2>1, <3>1
    <3>2. CASE ~Mine(o, s)
      BY <1>2, <1>7, <2>1, <3>2 DEF Inv, DeadInv, Mine, Up
    <3> QED BY <3>1, <3>2
  <2> QED BY <2>1 DEF DeadInv, Mine
<1>13. HoldInv'
  <2> SUFFICES ASSUME NEW r \in Sessions, NEW q \in Owners, ses'[r].owner = q, Up(q)',
                      Needs(at'[q], r, ses'[r], web'[r])
               PROVE  Owned(lock', profile', r, ses'[r].rev)
    BY DEF HoldInv, Held, Mine
  <2>1. q # o /\ Up(q)
    BY <1>2 DEF Up
  <2>2. ~Mine(o, r)
    BY <1>6, <2>1
  <2>3. Held(r)
    BY <1>3, <1>7, <2>1, <2>2 DEF Held, Mine
  <2> QED BY <1>1, <1>7, <2>2, <2>3 DEF Inv, HoldInv
<1>14. RevInv'
  <2>1. \A s \in Sessions : ses'[s].rev = ses[s].rev
    BY <1>6, <1>7
  <2> QED BY <1>1, <2>1 DEF Inv, RevInv
<1> QED BY <1>9, <1>10, <1>11, <1>12, <1>13, <1>14 DEF Inv

-----------------------------------------------------------------------------
(* The invariant holds                                                     *)

\* Nothing is open at the start.
LEMMA InitInv == Init => Inv
<1> SUFFICES ASSUME Init PROVE Inv
  OBVIOUS
<1>1. /\ proc = [o \in Owners |-> IF o \in First THEN "up" ELSE "new"]
      /\ at = [o \in Owners |-> Idle]
      /\ profile = [rev |-> 1, status |-> "active", torn |-> FALSE, place |-> "there"]
      /\ lock = NoOne /\ book = [s \in Sessions |-> NoBook]
      /\ ses = [s \in Sessions |-> NoSession] /\ web = [s \in Sessions |-> NoContext]
      /\ faults = 0
  BY DEF Init
<1>2. TypeOK
  <2>1. Idle \in Ats
    BY DEF Idle, Ats, Steps
  <2>2. profile \in Profiles
    <3>1. Cardinality(Sessions) \in Nat
      BY FS_CardinalityType
    <3> QED BY <1>1, <3>1 DEF Profiles
  <2>3. proc \in [Owners -> {"new", "up", "dead"}] /\ at \in [Owners -> Ats]
    BY <1>1, <2>1
  <2>4. /\ book \in [Sessions -> Books] /\ ses \in [Sessions -> Lives]
        /\ web \in [Sessions -> Contexts]
    BY <1>1, Empty
  <2>5. lock \in Sessions \cup {NoOne, Torn} /\ faults \in 0..MaxFaults
    BY <1>1
  <2> QED BY <2>2, <2>3, <2>4, <2>5, Types
<1>3. PlaceInv
  BY <1>1 DEF PlaceInv
<1>4. ASSUME NEW s \in Sessions
      PROVE  ses[s] = NoSession /\ book[s] = NoBook /\ web[s] = NoContext
  BY <1>1
<1>5. SoundInv
  <2>1. Sound(NoSession, NoBook, NoContext)
    <3>1. NoBook # Torn
      BY Empty
    <3> QED BY <3>1 DEF Sound, NoSession, NoBook, NoContext
  <2> QED BY <1>4, <2>1 DEF SoundInv
<1>6. ASSUME NEW s \in Sessions, NEW o \in Owners PROVE ~Mine(o, s)
  BY <1>4 DEF Mine, NoSession
<1>7. DeadInv /\ HoldInv
  BY <1>6 DEF DeadInv, HoldInv, Held
<1>8. RevInv
  BY <1>1 DEF RevInv
<1> QED BY <1>2, <1>3, <1>5, <1>7, <1>8 DEF Inv

LEMMA StutterInv == Inv /\ UNCHANGED vars => Inv'
BY DEF Inv, vars, TypeOK, PlaceInv, Mine, Up, SoundInv, DeadInv, HoldInv, Held, RevInv

LEMMA NextInv == Inv /\ [Next]_vars => Inv'
<1> SUFFICES ASSUME Inv, [Next]_vars PROVE Inv'
  OBVIOUS
<1>1. CASE UNCHANGED vars
  BY <1>1, StutterInv
<1>2. ASSUME NEW o \in Owners,
             \/ Start(o) \/ Launch(o) \/ Begin(o) \/ Activate(o) \/ CloseFailedOpen(o)
             \/ RecordObservation(o) \/ MarkExecuting(o) \/ Execute(o) \/ RecordResult(o)
             \/ CloseLedger(o) \/ ReleaseClosed(o) \/ Revoke(o) \/ Clear(o) \/ Die(o)
      PROVE  Inv'
  BY <1>2, StartStep, LaunchStep, BeginStep, ActivateStep, CloseFailedOpenStep,
     RecordObservationStep, MarkExecutingStep, ExecuteStep, RecordResultStep,
     CloseLedgerStep, ReleaseClosedStep, ProfileStep, DieStep
<1>3. ASSUME NEW o \in Owners, NEW s \in Sessions,
             \/ Acquire(o, s) \/ Observe(o, s) \/ PrepareAction(o, s) \/ BeginAction(o, s)
             \/ Close(o, s) \/ OwnerShutdown(o, s) \/ Outclose(o, s)
             \/ BeginTakeover(o, s) \/ CompleteTakeover(o, s)
      PROVE  Inv'
  <2>1. CASE Close(o, s) \/ OwnerShutdown(o, s)
    BY <2>1, CloseContextStep DEF Close, OwnerShutdown
  <2> QED BY <1>3, <2>1, AcquireStep, ObserveStep, PrepareActionStep, BeginActionStep,
             OutcloseStep, BeginTakeoverStep, CompleteTakeoverStep
<1> QED BY <1>1, <1>2, <1>3 DEF Next

LEMMA InvHolds == Spec => []Inv
BY InitInv, NextInv, PTL DEF Spec

-----------------------------------------------------------------------------
(* The theorems                                                            *)

\* A reachable state is of the declared types and within its bounds; of the
\* revision of the profile and the count of actions this takes the rest of the
\* invariant, and the shape of a ledger is what _verify_phase_shape demands.
THEOREM TypeCorrect == Spec => []TypeOK
<1>1. Inv => TypeOK
  BY DEF Inv
<1> QED BY <1>1, InvHolds, PTL

\* A live process that has a browser on the profile, or one it could not be sure
\* to have closed, has the lock, whoever took over or cleared the locks of dead
\* ones (acquire_writer, revoke, clear).
THEOREM ProfileIsHis == Spec => []LockIsHis
<1>1. Inv => LockIsHis
  <2> SUFFICES ASSUME Inv, NEW s \in Sessions, web[s].ctx \in {"live", "lost"},
                      Up(ses[s].owner)
               PROVE  lock = s /\ profile.place = "there" /\ profile.status = "active"
    BY DEF LockIsHis
  <2>1. ses[s].owner \in Owners
    <3>1. ses[s] \in Lives /\ Sound(ses[s], book[s], web[s])
      BY SessionTypes DEF Inv, SoundInv
    <3>2. ses[s].owner # NoOne
      BY <3>1 DEF Sound, NoContext
    <3> QED BY <3>1, <3>2 DEF Lives
  <2>2. Held(s)
    BY <2>1 DEF Held, Mine, Needs
  <2> QED BY <2>2 DEF Inv, HoldInv, Owned
<1> QED BY <1>1, InvHolds, PTL

\* Nothing is done that the ledger does not count: begin_action is durable
\* before the browser acts, and an action is not done twice.
THEOREM LedgerGoesFirst == Spec => []WriteAhead
<1>1. Inv => WriteAhead
  BY DEF Inv, SoundInv, Sound, WriteAhead, Readable
<1> QED BY <1>1, InvHolds, PTL

\* What the ledger says of the last action is what the browser did, also after
\* writes that failed and mirrors that are old (record_result).
THEOREM ResultsAreTrue == Spec => []ResultTrue
<1>1. Inv => ResultTrue
  BY DEF Inv, SoundInv, Sound, ResultTrue, Readable
<1> QED BY <1>1, InvHolds, PTL

\* A session that is CLOSED in its ledger, or reported as cleaned by any owner,
\* has a closed context and no action of unknown outcome.
THEOREM ClosesAreClean == Spec => []ClosedIsClean
<1>1. Inv => ClosedIsClean
  <2> SUFFICES ASSUME Inv, NEW s \in Sessions,
                      (Readable(book[s]) /\ book[s].phase = "CLOSED") \/ web[s].told
               PROVE  /\ web[s].ctx = "closed" /\ Readable(book[s])
                      /\ (book[s].outcome = "none" => book[s].count = 0)
    BY DEF ClosedIsClean
  <2>1. Sound(ses[s], book[s], web[s])
    BY DEF Inv, SoundInv
  <2>2. book[s] # Torn /\ book[s].phase = "CLOSED" /\ web[s].ctx = "closed"
    BY <2>1 DEF Sound, Readable
  <2>3. Shaped(book[s])
    BY <2>2, SessionTypes, ReadsBook
  <2> QED BY <2>2, <2>3 DEF Shaped, Readable
<1> QED BY <1>1, InvHolds, PTL

\* Only Execute has the browser do something.
LEMMA OthersTryNothing ==
  ASSUME Inv, [Next]_vars, NEW s \in Sessions
  PROVE  \/ web'[s].tried = web[s].tried
         \/ \E o \in Owners : Execute(o)
<1>1. web[s] \in Contexts /\ web \in [Sessions -> Contexts]
  BY Types DEF Inv
<1>2. ASSUME NEW r \in Sessions, NEW w \in Contexts, w.tried = web[r].tried,
             web' = [web EXCEPT ![r] = w]
      PROVE  web'[s].tried = web[s].tried
  BY <1>1, <1>2
<1>3. CASE UNCHANGED web
  BY <1>3
<1>4. ASSUME NEW o \in Owners, CloseFailedOpen(o) PROVE web'[s].tried = web[s].tried
  <2>1. at[o].s \in Sessions /\ web[at[o].s] \in Contexts
    BY <1>4, InCall DEF CloseFailedOpen, Steps
  <2>2. \E how \in {"closed", "lost"} : web' = [web EXCEPT ![at[o].s] = Gone(web[at[o].s], how)]
    BY <1>4 DEF CloseFailedOpen
  <2> QED BY <1>2, <2>1, <2>2, GoneTypes
<1>5. ASSUME NEW o \in Owners, NEW r \in Sessions, CloseContext(o, r)
      PROVE  web'[s].tried = web[s].tried
  <2>1. \E how \in {"closed", "lost"} : web' = [web EXCEPT ![r] = Gone(web[r], how)]
    BY <1>5 DEF CloseContext
  <2> QED BY <1>2, <2>1, GoneTypes, SessionTypes
<1>6. ASSUME NEW o \in Owners, Launch(o) PROVE web'[s].tried = web[s].tried
  <2>1. at[o].s \in Sessions /\ web[at[o].s] \in Contexts
    BY <1>6, InCall DEF Launch, Steps
  <2>2. CASE web' = [web EXCEPT ![at[o].s].ctx = "lost"]
    BY <1>1, <2>1, <2>2 DEF Contexts
  <2>3. CASE web' = [web EXCEPT ![at[o].s].ctx = "live", ![at[o].s].usable = TRUE]
    <3> DEFINE w == [web[at[o].s] EXCEPT !.ctx = "live", !.usable = TRUE]
    <3>1. web' = [web EXCEPT ![at[o].s] = w] /\ w \in Contexts /\ w.tried = web[at[o].s].tried
      BY <1>1, <2>1, <2>3 DEF Contexts
    <3> QED BY <1>2, <2>1, <3>1
  <2> QED BY <1>3, <1>6, <2>2, <2>3 DEF Launch
<1>7. ASSUME NEW o \in Owners, ReleaseClosed(o) PROVE web'[s].tried = web[s].tried
  <2>1. at[o].s \in Sessions
    BY <1>7, InCall DEF ReleaseClosed, Steps
  <2> QED BY <1>1, <1>7, <2>1 DEF ReleaseClosed, Contexts
<1>8. ASSUME NEW o \in Owners, NEW r \in Sessions, Outclose(o, r)
      PROVE  web'[s].tried = web[s].tried
  BY <1>1, <1>8 DEF Outclose, Contexts
<1>9. ASSUME NEW o \in Owners, NEW r \in Sessions, Observe(o, r) \/ BeginTakeover(o, r)
      PROVE  web'[s].tried = web[s].tried
  BY <1>1, <1>9 DEF Observe, BeginTakeover, Contexts
<1>10. ASSUME NEW o \in Owners, Die(o) PROVE web'[s].tried = web[s].tried
  BY <1>1, <1>10, GoneTypes DEF Die
<1>11. CASE UNCHANGED vars
  BY <1>11 DEF vars
<1>12. ASSUME NEW o \in Owners,
              \/ Start(o) \/ Begin(o) \/ Activate(o) \/ RecordObservation(o)
              \/ MarkExecuting(o) \/ RecordResult(o) \/ CloseLedger(o) \/ Revoke(o) \/ Clear(o)
              \/ \E r \in Sessions : Acquire(o, r) \/ PrepareAction(o, r)
                                     \/ BeginAction(o, r) \/ CompleteTakeover(o, r)
       PROVE  UNCHANGED web
  BY <1>12 DEF Start, Begin, Activate, RecordObservation, MarkExecuting, RecordResult,
               CloseLedger, Revoke, Clear, Acquire, PrepareAction, BeginAction,
               CompleteTakeover
<1> QED BY <1>3, <1>4, <1>5, <1>6, <1>7, <1>8, <1>9, <1>10, <1>11, <1>12
        DEF Next, Close, OwnerShutdown

\* The browser acts only with the lock, on the revision of the profile the
\* session was opened with and on the observation its ledger names, although
\* between the checks of act and the effect any other owner may run
\* (begin_action, execute, advance_revision, revoke).
THEOREM OnlyUnderTheLease == Spec => ActsUnderLease
<1>1. ASSUME Inv, [Next]_vars, NEW s \in Sessions, web'[s].tried > web[s].tried
      PROVE  /\ lock = s /\ profile.rev = ses[s].rev /\ profile.status = "active"
             /\ book[s].phase = "EXECUTING" /\ book[s].obs = web[s].obs
  <2>1. web[s].tried \in Nat
    BY <1>1, SessionTypes DEF Contexts
  <2>2. PICK o \in Owners : Execute(o)
    BY <1>1, <2>1, OthersTryNothing
  <2>3. /\ Up(o) /\ at[o].s \in Sessions /\ Mine(o, at[o].s)
        /\ Knows("executing", ses[at[o].s], book[at[o].s], web[at[o].s], profile.rev)
    BY <1>1, <2>2, InCall DEF Execute, Steps
  <2>4. web \in [Sessions -> Contexts]
    BY <1>1, Types DEF Inv
  <2>5. at[o].s = s /\ web[s].obs = ses[s].bound
    <3> DEFINE r == at[o].s
    <3>1. ASSUME NEW u, web' = [web EXCEPT ![r] = u], u.tried = web[r].tried
          PROVE  FALSE
      BY <1>1, <2>1, <2>3, <2>4, <3>1
    <3>2. ASSUME NEW u, web' = [web EXCEPT ![r] = u]
          PROVE  r = s
      BY <1>1, <2>1, <2>4, <3>2
    <3>3. web[r].obs = ses[r].bound /\ \E u : web' = [web EXCEPT ![r] = u]
      <4>1. web[r] \in Contexts
        BY <2>3, <2>4
      <4>2. CASE web' = [web EXCEPT ![r].obs = 0, ![r].ran = FALSE]
        <5> DEFINE u == [web[r] EXCEPT !.obs = 0, !.ran = FALSE]
        <5>1. web' = [web EXCEPT ![r] = u] /\ u.tried = web[r].tried
          BY <2>3, <2>4, <4>1, <4>2 DEF Contexts
        <5> HIDE DEF u
        <5> QED BY <3>1, <5>1
      <4>3. CASE \E poisoned \in BOOLEAN :
                   web' = [web EXCEPT ![r].ran = FALSE, ![r].usable = @ /\ ~poisoned]
        <5>1. PICK poisoned \in BOOLEAN :
                web' = [web EXCEPT ![r].ran = FALSE, ![r].usable = @ /\ ~poisoned]
          BY <4>3
        <5> DEFINE u == [web[r] EXCEPT !.ran = FALSE, !.usable = @ /\ ~poisoned]
        <5>2. web' = [web EXCEPT ![r] = u] /\ u.tried = web[r].tried
          BY <2>3, <2>4, <4>1, <5>1 DEF Contexts
        <5> HIDE DEF u
        <5> QED BY <3>1, <5>2
      <4> QED BY <2>2, <4>2, <4>3 DEF Execute
    <3> QED BY <3>2, <3>3
  <2>6. /\ book[s].phase = "EXECUTING" /\ book[s].obs = ses[s].bound
        /\ profile.rev = ses[s].rev /\ ses[s].active
    BY <2>3, <2>5 DEF Knows
  <2>7. Held(s)
    BY <2>3, <2>5, <2>6 DEF Held, Needs
  <2> QED BY <1>1, <2>5, <2>6, <2>7 DEF Inv, HoldInv, Owned
<1>2. Inv /\ [Next]_vars =>
        [\A s \in Sessions : web'[s].tried > web[s].tried =>
           /\ lock = s /\ profile.rev = ses[s].rev /\ profile.status = "active"
           /\ book[s].phase = "EXECUTING" /\ book[s].obs = web[s].obs]_vars
  BY <1>1
<1> QED BY <1>2, InvHolds, PTL DEF Spec, ActsUnderLease

-----------------------------------------------------------------------------
(***************************************************************************)
(* The adapter of the browser, BrowserWorker, for any sessions and any     *)
(* number of uses and closes.                                              *)
(*                                                                         *)
(* At most one session is in play: known to the caller, held by the worker *)
(* or named by an answer (OneInv).  A worker that can still open finds none*)
(* in play (NewInv), and behind a receipt nothing comes but the word of a  *)
(* new worker (ReceiptInv): so an answer that says CLEANED is the last of  *)
(* its worker and of that session (DoneInv).  What the caller may meet in  *)
(* the queues, and how far behind it the answers can be, is the pace of    *)
(* each of its calls (PaceInv), as long as the worker is not told to stop. *)
(* Every context that is alive is known or being opened, or the adapter    *)
(* remembers an open of which it does not know the outcome (LiveInv).  A   *)
(* session that is still to be opened has no context (Unborn): so whatever *)
(* becomes of an open, it is a step of the port, BrowserEnvironment.       *)
(***************************************************************************)
CONSTANTS MaxUses, MaxCloses
VARIABLES call, fresh, known, stopped, anonymous, closing, requests, responses, held, uses,
          closes

Adapter == INSTANCE BrowserWorker WITH None <- NoOne

\* What the caller can be in, and the answers there are to each request.
CallShapes == [at : {"idle", "ready", "wait", "join"},
          op : Adapter!Ops \cup {"none", "start", "cleaned", "unknown", "acted"},
          s : Sessions \cup {NoOne}]
Receipts == {"cleaned", "unknown"}
Naming == {"handle", "view"} \cup Receipts
Fits(op, value) ==
  \/ op = "ready" /\ value \in {"ready", "error"}
  \/ op = "open" /\ value \in {"handle", "refused", "error"}
  \/ op = "observe" /\ value \in {"view", "error"}
  \/ op = "execute" /\ value \in {"acted", "done", "refused", "error"}
  \/ op = "takeover" /\ value \in {"done", "refused", "error"}
  \/ op = "close" /\ value \in Receipts \cup {"error"}
Replies == {r \in [op : Adapter!Ops \cup {"ready"}, s : Sessions \cup {NoOne}, value : Adapter!Values] :
              Fits(r.op, r.value) /\ (r.s = NoOne <=> r.op = "ready")}

AdapterTypes ==
  /\ call \in CallShapes /\ fresh \subseteq Sessions
  /\ known \in [Sessions -> {"no", "usable", "headed", "unusable"}]
  /\ stopped \in BOOLEAN /\ anonymous \in BOOLEAN /\ shut \in BOOLEAN
  /\ requests \in Seq(Adapter!Requests) /\ responses \in Seq(Replies)
  /\ worker \in [at : {"gone", "starting", "loop", "pumping", "busy", "leaving"},
                 req : Adapter!Requests \cup {Adapter!NoRequest}]
  /\ held \subseteq Sessions /\ cleaned \subseteq Sessions
  /\ context \in [Sessions -> {"none", "live", "closed"}]

\* Where the worker is, and how many requests and answers are under way.
InWork == worker.at = "busy"
Over == worker.at \in {"leaving", "gone"}
Waits(op) == call.at = "wait" /\ call.op = op
Own == [op |-> call.op, s |-> call.s]
Lag == Len(requests) + Len(responses) + (IF InWork THEN 1 ELSE 0)
Asked(q) == \E i \in 1..Len(requests) : requests[i] = q
ToOpen(s) == Asked([op |-> "open", s |-> s]) \/ (InWork /\ worker.req = [op |-> "open", s |-> s])
Named(s) == \E i \in 1..Len(responses) : responses[i].s = s /\ responses[i].value \in Naming
Plays(s) == known[s] # "no" \/ s \in held \/ Named(s)
Handy == \E s \in Sessions : known[s] \in {"usable", "headed"}

CallInv ==
  /\ call.at = "idle" => call = Adapter!Idle
  /\ call.at = "ready" => ~stopped /\ call.op = "open" /\ call.s \in fresh
  /\ call.at = "wait" => call.op \in Adapter!Ops /\ call.s \in Sessions \ fresh
  /\ Waits("open") => ~stopped /\ call.s \notin Adapter!Known
  /\ call.at = "wait" /\ call.op # "open" => Adapter!Known = {call.s}
  /\ call.at = "join" => /\ stopped /\ call.op \in {"start", "cleaned", "unknown", "acted"}
                        /\ (call.op = "acted" => call.s \in Sessions)

ThreadInv ==
  /\ worker.at \in {"gone", "starting"} => held = {}
  /\ worker.at = "leaving" /\ ~stopped => held = {}
  /\ worker.at = "pumping" => held # {}
  /\ InWork => worker.req \in Adapter!Requests
  /\ worker.at = "starting" /\ ~stopped => call.at = "ready"

\* A session is opened once: until the worker answers, only the open names it.
Unborn(s) ==
  /\ s \notin held /\ s \notin Adapter!Known /\ context[s] = "none"
  /\ \A i \in 1..Len(responses) : responses[i].s # s
  /\ \A i \in 1..Len(requests) : requests[i].s = s => requests[i].op = "open"
  /\ InWork /\ worker.req.s = s => worker.req.op = "open"
BornInv ==
  /\ \A s \in Sessions : s \in fresh \/ ToOpen(s) => Unborn(s)
  /\ \A s \in fresh : ~ToOpen(s)
  /\ \A i, j \in 1..Len(requests) :
       requests[i].op = "open" /\ requests[j] = requests[i] => i = j
  /\ InWork /\ worker.req.op = "open" => ~Asked(worker.req)

\* One session in play; none of it for a worker that can open; receipts are last.
OneInv == \A s, t \in Sessions : Plays(s) /\ Plays(t) => s = t
NewInv ==
  worker.at \in {"starting", "loop", "busy"} /\ held = {} =>
    \/ \A s \in Sessions : ~Plays(s)
    \/ ~InWork /\ (stopped \/ (call.at = "ready" /\ requests = <<>>))
ReceiptInv ==
  \A i \in 1..Len(responses) : responses[i].value \in Receipts =>
    \/ i = Len(responses) /\ Over /\ held = {}
    \/ i = 1 /\ call.at = "ready"

\* A session that is closed for good, and what says that one is.
Done(s) == context[s] = "closed" /\ s \notin held /\ s \notin fresh /\ ~ToOpen(s)
ToldClean(s) == \E i \in 1..Len(responses) : responses[i] = Adapter!Answer("close", s, "cleaned")
DoneInv ==
  /\ \A s \in Sessions : s \in cleaned \/ ToldClean(s) => Done(s)
  /\ call.op = "cleaned" => /\ call.at = "join" /\ Adapter!Known = {} /\ responses = <<>>
                            /\ Over /\ held = {} /\ call.s \in Sessions /\ Done(call.s)

\* The request of a call that waits is the last of all, or has been answered last.
OwnInv ==
  call.at = "wait" =>
    IF requests # <<>> THEN requests[Len(requests)] = Own
    ELSE IF InWork THEN worker.req = Own
    ELSE /\ worker.at # "starting"
         /\ responses # <<>> /\ responses[Len(responses)].op = call.op
         /\ responses[Len(responses)].s = call.s

\* The pace, call by call.  At rest with nothing known the worker is gone; in an
\* open that finds nothing known, what was asked before can only be refused.
Refused(q) == q.op = "open" \/ q.s \notin held
NextIsError ==
  \/ responses # <<>> /\ Adapter!IsError(Head(responses))
  \/ responses = <<>> /\ InWork /\ held # {} /\ Refused(worker.req)
  \/ /\ responses = <<>> /\ worker.at \in {"loop", "pumping"} /\ requests # <<>> /\ held # {}
     /\ Refused(Head(requests))
Receipted(i) == Len(responses) = i /\ responses[i].value \in Receipts
FirstIsNot(s) ==
  /\ responses # <<>> => Head(responses).s # s
  /\ responses = <<>> /\ InWork => worker.req.s # s
  /\ responses = <<>> /\ ~InWork => requests # <<>> /\ Head(requests).s # s

RestInv == call = Adapter!Idle /\ Adapter!Known = {} => worker.at = "gone" /\ responses = <<>>
OpenInv ==
  (call.at = "ready" \/ Waits("open")) /\ Adapter!Known = {} =>
    /\ \A i \in 1..Len(responses) :
         \/ Adapter!IsError(responses[i])
         \/ responses[i].value = "ready" /\ call.at = "ready" /\ i = 1
         \/ /\ responses[i].value = "handle" /\ held = {responses[i].s} /\ ~Over
            /\ \A j \in 1..Len(responses) : responses[j].value = "handle" => j = i
    /\ \A i \in 1..Len(requests) : Refused(requests[i])
    /\ InWork => Refused(worker.req)
    /\ call.at = "ready" /\ worker.at # "starting" => responses # <<>> /\ Head(responses).op = "ready"
    /\ call.at = "ready" /\ worker.at = "starting" => responses = <<>>
    /\ call.at = "wait" => Lag = 1 \/ FirstIsNot(call.s)
\* With a session known the answers are one behind at most, and two in its close;
\* with a usable one they are not behind at all.
SetInv ==
  call = Adapter!Idle /\ Adapter!Known # {} =>
    /\ Lag <= 1 /\ (Handy => Lag = 0)
    /\ Over => requests = <<>> /\ Receipted(1)
StartInv ==
  call.at = "ready" /\ Adapter!Known # {} =>
    requests = <<>> /\ responses # <<>> /\ Head(responses).value \in Receipts
SecondInv ==
  Waits("open") /\ Adapter!Known # {} =>
    /\ Lag <= 2 /\ (Handy => Lag = 1)
    /\ Over => Len(requests) = 1 /\ Receipted(1)
UseInv == call.at = "wait" /\ call.op \in Adapter!UseOps => Lag = 1 /\ ~Over
CloseInv ==
  Waits("close") =>
    \/ NextIsError
    \/ /\ Lag <= 2
       /\ Over /\ responses # <<>> /\ Head(responses).value \notin Receipts =>
            requests = <<>> /\ Receipted(2)
PaceInv ==
  ~stopped => RestInv /\ OpenInv /\ SetInv /\ StartInv /\ SecondInv /\ UseInv /\ CloseInv

\* An open that nobody waits for any more does not meet an empty profile.
Stranded(s) == ToOpen(s) /\ ~(Waits("open") /\ call.s = s)
LiveInv ==
  \/ anonymous
  \/ /\ \A s \in Sessions : context[s] = "live" \/ s \in held =>
          s \in Adapter!Known \/ (Waits("open") /\ call.s = s /\ Adapter!Known = {})
     /\ \A s \in Sessions : Stranded(s) =>
          /\ Adapter!Known # {} /\ \A r \in Sessions : ~ToldClean(r)
          /\ InWork /\ worker.req.op = "close" => worker.req.s \notin held
          /\ \A i, j \in 1..Len(requests) :
               requests[i].op = "close" /\ requests[i].s \in held
                 /\ requests[j] = [op |-> "open", s |-> s] => j < i
ShutInv ==
  shut => ~closing.on /\ call = Adapter!Idle /\ worker.at = "gone" /\ Adapter!Live \subseteq misread

\* A shutdown makes no call but close.  As long as nothing has failed, what is known
\* is still to be closed, or being closed, or was misread.
ExitInv ==
  /\ closing \in [on : BOOLEAN, todo : SUBSET Sessions, failed : BOOLEAN]
  /\ misread \subseteq Sessions
  /\ closing.on =>
       /\ call = Adapter!Idle \/ Waits("close") \/ (call.at = "join" /\ call.op # "start")
       /\ \/ closing.failed
          \/ /\ ~anonymous
             /\ \A s \in Adapter!Known :
                  s \in closing.todo \/ s \in misread \/ (call # Adapter!Idle /\ s = call.s)

AdInv ==
  /\ AdapterTypes /\ CallInv /\ ThreadInv /\ BornInv /\ OneInv /\ NewInv /\ ReceiptInv
  /\ DoneInv /\ OwnInv /\ PaceInv /\ LiveInv /\ ShutInv

-----------------------------------------------------------------------------
(* Queues                                                                  *)

\* What a queue is after something was put at its end.
LEMMA OnAppend ==
  ASSUME NEW T, NEW q \in Seq(T), NEW e \in T
  PROVE  /\ Append(q, e) \in Seq(T) /\ Append(q, e) # <<>> /\ Len(q) \in Nat
         /\ Len(Append(q, e)) = Len(q) + 1 /\ Append(q, e)[Len(q) + 1] = e
         /\ \A i \in 1..Len(q) : Append(q, e)[i] = q[i]
OBVIOUS

\* And after its head was taken.
LEMMA OnTail ==
  ASSUME NEW T, NEW q \in Seq(T), q # <<>>
  PROVE  /\ Tail(q) \in Seq(T) /\ Len(q) \in Nat \ {0} /\ Len(Tail(q)) = Len(q) - 1
         /\ Head(q) = q[1] /\ Head(q) \in T /\ 1 \in 1..Len(q)
         /\ \A i \in 1..(Len(q) - 1) : i + 1 \in 1..Len(q) /\ Tail(q)[i] = q[i + 1]
OBVIOUS

LEMMA OnQueue ==
  ASSUME NEW T, NEW q \in Seq(T)
  PROVE  Len(q) \in Nat /\ (q = <<>> <=> Len(q) = 0) /\ \A i \in 1..Len(q) : q[i] \in T
OBVIOUS

-----------------------------------------------------------------------------
(* The steps of the caller                                                 *)

\* The caller may take an answer and may ask for something: an open of a new
\* session, or anything else of one in play.
Asks ==
  \/ UNCHANGED <<requests, fresh>>
  \/ \E s \in fresh : /\ requests' = Append(requests, [op |-> "open", s |-> s])
                      /\ fresh' = fresh \ {s}
  \/ \E op \in Adapter!Ops \ {"open"}, s \in Sessions :
       /\ Plays(s) /\ requests' = Append(requests, [op |-> op, s |-> s]) /\ UNCHANGED fresh
Hears == \/ UNCHANGED responses
         \/ responses # <<>> /\ responses' = Tail(responses)
Speaks ==
  /\ Asks /\ Hears /\ UNCHANGED <<worker, held, context>>
  /\ known' \in [Sessions -> {"no", "usable", "headed", "unusable"}]
  /\ \A s \in Sessions : known'[s] # "no" => Plays(s)

\* What is taken away from the answers was there, and the last stays the last.
LEMMA Heard ==
  ASSUME AdapterTypes, Hears
  PROVE  /\ responses' \in Seq(Replies) /\ Len(responses') \in Nat
         /\ \A i \in 1..Len(responses') :
              \E j \in 1..Len(responses) :
                /\ responses'[i] = responses[j] /\ (j = Len(responses) <=> i = Len(responses'))
                /\ (responses' = responses => j = i)
                /\ (responses' # responses => j = i + 1)
<1>1. responses \in Seq(Replies) /\ Len(responses) \in Nat
  BY DEF AdapterTypes
<1>2. CASE responses' = responses
  BY <1>1, <1>2
<1>3. CASE responses # <<>> /\ responses' = Tail(responses)
  <2> DEFINE t == Tail(responses)
             n == Len(responses)
  <2>1. /\ t \in Seq(Replies) /\ n \in Nat \ {0} /\ Len(t) = n - 1
        /\ \A i \in 1..(n - 1) : i + 1 \in 1..n /\ t[i] = responses[i + 1]
    BY <1>1, <1>3, OnTail
  <2>2. responses' = t
    BY <1>3
  <2> HIDE DEF t, n
  <2>3. t # responses
    BY <2>1 DEF n
  <2>4. ASSUME NEW i \in 1..Len(t)
        PROVE  \E j \in 1..n : t[i] = responses[j] /\ (j = n <=> i = Len(t)) /\ j = i + 1
    <3>1. i \in 1..(n - 1)
      BY <2>1
    <3>2. i + 1 \in 1..n /\ t[i] = responses[i + 1]
      BY <2>1, <3>1
    <3> QED BY <2>1, <3>1, <3>2
  <2>5. Len(t) \in Nat
    BY <2>1
  <2> QED BY <2>1, <2>2, <2>3, <2>4, <2>5 DEF n
<1> QED BY <1>2, <1>3 DEF Hears

LEMMA SpeaksPlays ==
  ASSUME AdapterTypes, Speaks, NEW s \in Sessions, Plays(s)'
  PROVE  Plays(s)
<1>1. CASE known'[s] # "no"
  BY <1>1 DEF Speaks
<1>2. CASE s \in held'
  BY <1>2 DEF Speaks, Plays
<1>3. CASE Named(s)'
  <2>1. PICK i \in 1..Len(responses') : responses'[i].s = s /\ responses'[i].value \in Naming
    BY <1>3 DEF Named
  <2>2. \E j \in 1..Len(responses) : responses[j] = responses'[i]
    BY <2>1, Heard DEF Speaks
  <2> QED BY <2>1, <2>2 DEF Plays, Named
<1> QED BY <1>1, <1>2, <1>3 DEF Plays

\* What is asked for is new: an open of a session that was fresh, or it is of one
\* in play; what was asked before stays where it is.
NewRequest(q) ==
  \/ q.op = "open" /\ q.s \in fresh /\ fresh' = fresh \ {q.s}
  \/ q.op # "open" /\ Plays(q.s) /\ fresh' = fresh

LEMMA AskedFor ==
  ASSUME AdapterTypes, Asks
  PROVE  /\ requests' \in Seq(Adapter!Requests) /\ Len(requests') \in Nat /\ Len(requests) \in Nat
         /\ Len(requests') >= Len(requests) /\ fresh' \subseteq fresh
         /\ \A i \in 1..Len(requests) : i \in 1..Len(requests') /\ requests'[i] = requests[i]
         /\ \A i \in 1..Len(requests') :
              \/ i \in 1..Len(requests)
              \/ i = Len(requests) + 1 /\ requests'[i] \in Adapter!Requests /\ NewRequest(requests'[i])
         /\ fresh' = fresh \/ (Len(requests') = Len(requests) + 1 /\ NewRequest(requests'[Len(requests')]))
<1>1. requests \in Seq(Adapter!Requests) /\ Len(requests) \in Nat /\ fresh \subseteq Sessions
  BY DEF AdapterTypes
<1>2. CASE UNCHANGED <<requests, fresh>>
  BY <1>1, <1>2
<1>3. ASSUME NEW q \in Adapter!Requests, requests' = Append(requests, q), NewRequest(q),
             fresh' \subseteq fresh
      PROVE  /\ requests' \in Seq(Adapter!Requests) /\ Len(requests') = Len(requests) + 1
             /\ \A i \in 1..Len(requests) : i \in 1..Len(requests') /\ requests'[i] = requests[i]
             /\ requests'[Len(requests')] = q
             /\ \A i \in 1..Len(requests') :
                  \/ i \in 1..Len(requests)
                  \/ i = Len(requests) + 1 /\ requests'[i] \in Adapter!Requests /\ NewRequest(requests'[i])
  <2> DEFINE a == Append(requests, q)
             n == Len(requests)
  <2>1. a \in Seq(Adapter!Requests) /\ Len(a) = n + 1 /\ a[n + 1] = q /\ \A i \in 1..n : a[i] = requests[i]
    BY <1>1, OnAppend
  <2>2. requests' = a /\ n \in Nat
    BY <1>1, <1>3
  <2> HIDE DEF a
  <2>3. \A i \in 1..Len(a) : i \in 1..n \/ i = n + 1
    BY <2>1, <2>2
  <2> HIDE DEF n
  <2>4. \A i \in 1..n : i \in 1..Len(a)
    BY <2>1, <2>2
  <2> QED BY <1>3, <2>1, <2>2, <2>3, <2>4 DEF n
<1>4. CASE \E s \in fresh : /\ requests' = Append(requests, [op |-> "open", s |-> s])
                            /\ fresh' = fresh \ {s}
  <2>1. PICK s \in fresh : /\ requests' = Append(requests, [op |-> "open", s |-> s])
                           /\ fresh' = fresh \ {s}
    BY <1>4
  <2>2. [op |-> "open", s |-> s] \in Adapter!Requests /\ NewRequest([op |-> "open", s |-> s])
    BY <1>1, <2>1 DEF Adapter!Requests, Adapter!Ops, NewRequest
  <2>3. fresh' \subseteq fresh
    BY <2>1
  <2> HIDE DEF NewRequest
  <2> QED BY <1>1, <1>3, <2>1, <2>2, <2>3
<1>5. CASE \E op \in Adapter!Ops \ {"open"}, s \in Sessions :
             /\ Plays(s) /\ requests' = Append(requests, [op |-> op, s |-> s]) /\ UNCHANGED fresh
  <2>1. PICK op \in Adapter!Ops \ {"open"}, s \in Sessions :
             /\ Plays(s) /\ requests' = Append(requests, [op |-> op, s |-> s]) /\ UNCHANGED fresh
    BY <1>5
  <2>2. [op |-> op, s |-> s] \in Adapter!Requests /\ NewRequest([op |-> op, s |-> s])
    BY <2>1 DEF Adapter!Requests, NewRequest
  <2> QED BY <1>1, <1>3, <2>1, <2>2
<1> QED BY <1>2, <1>4, <1>5 DEF Asks

LEMMA SpeaksBorn ==
  ASSUME AdapterTypes, BornInv, Speaks
  PROVE  BornInv' /\ \A s \in Sessions : ToOpen(s)' => ToOpen(s) \/ s \in fresh
<1>1. /\ worker' = worker /\ held' = held /\ fresh \subseteq Sessions /\ fresh' \subseteq fresh
      /\ requests \in Seq(Adapter!Requests) /\ Len(requests') \in Nat /\ Len(requests) \in Nat
  BY AskedFor DEF Speaks, AdapterTypes
<1>2. ASSUME NEW s \in Sessions, ToOpen(s)'
      PROVE  \/ ToOpen(s)
             \/ s \in fresh /\ s \notin fresh'
  <2>1. CASE InWork' /\ worker'.req = [op |-> "open", s |-> s]
    BY <1>1, <2>1 DEF ToOpen, InWork
  <2>2. CASE Asked([op |-> "open", s |-> s])'
    <3>1. PICK i \in 1..Len(requests') : requests'[i] = [op |-> "open", s |-> s]
      BY <2>2 DEF Asked
    <3>2. CASE i \in 1..Len(requests)
      BY <3>1, <3>2, AskedFor DEF Speaks, ToOpen, Asked
    <3>3. CASE NewRequest(requests'[i])
      BY <3>1, <3>3 DEF NewRequest
    <3> QED BY <3>2, <3>3, AskedFor DEF Speaks
  <2> QED BY <1>2, <2>1, <2>2 DEF ToOpen
<1>3. ASSUME NEW s \in Sessions, s \in fresh' \/ ToOpen(s)' PROVE Unborn(s)'
  <2>1. s \in fresh \/ ToOpen(s)
    BY <1>1, <1>2, <1>3
  <2>2. Unborn(s)
    BY <2>1 DEF BornInv
  <2>3. ~Plays(s)
    BY <2>2 DEF Unborn, Plays, Named, Adapter!Known
  <2>4. s \notin held' /\ s \notin Adapter!Known'
    BY <1>1, <2>2, <2>3 DEF Unborn, Adapter!Known, Speaks
  <2>5. \A i \in 1..Len(responses') : responses'[i].s # s
    BY <2>2, Heard DEF Unborn, Speaks
  <2>6. \A i \in 1..Len(requests') : requests'[i].s = s => requests'[i].op = "open"
    BY <2>2, <2>3, AskedFor DEF Unborn, Speaks, NewRequest
  <2>7. InWork' /\ worker'.req.s = s => worker'.req.op = "open"
    BY <1>1, <2>2 DEF Unborn, InWork
  <2>8. context'[s] = "none"
    BY <2>2 DEF Unborn, Speaks
  <2> QED BY <2>4, <2>5, <2>6, <2>7, <2>8 DEF Unborn
<1>4. \A s \in fresh' : ~ToOpen(s)'
  BY <1>1, <1>2 DEF BornInv
<1>5. ASSUME NEW i \in 1..Len(requests'), NEW j \in 1..Len(requests'),
             requests'[i].op = "open", requests'[j] = requests'[i]
      PROVE  i = j
  <2>1. CASE i \in 1..Len(requests) /\ j \in 1..Len(requests)
    BY <1>5, <2>1, AskedFor DEF BornInv, Speaks
  <2>2. ASSUME NEW k \in 1..Len(requests), NEW m \in 1..Len(requests'), NewRequest(requests'[m]),
               requests'[k] = requests'[m], requests'[m].op = "open"
        PROVE  FALSE
    <3>1. requests[k] = requests'[m] /\ requests[k] \in Adapter!Requests
      BY <1>1, <2>2, AskedFor, OnQueue DEF Speaks
    <3>2. requests[k] = [op |-> "open", s |-> requests[k].s] /\ requests[k].s \in fresh
      BY <2>2, <3>1 DEF NewRequest, Adapter!Requests
    <3>3. ToOpen(requests[k].s)
      BY <3>2 DEF ToOpen, Asked
    <3> QED BY <3>2, <3>3 DEF BornInv
  <2> QED BY <1>5, <2>1, <2>2, AskedFor DEF Speaks
<1>6. ASSUME InWork', worker'.req.op = "open", Asked(worker.req)' PROVE FALSE
  <2>1. PICK i \in 1..Len(requests') : requests'[i] = worker.req
    BY <1>1, <1>6 DEF Asked
  <2>2. CASE i \in 1..Len(requests)
    BY <1>1, <1>6, <2>1, <2>2, AskedFor DEF Asked, BornInv, InWork, Speaks
  <2>3. CASE requests'[i] \in Adapter!Requests /\ NewRequest(requests'[i])
    <3>1. worker.req = [op |-> "open", s |-> worker.req.s] /\ worker.req.s \in fresh
      BY <1>1, <1>6, <2>1, <2>3 DEF NewRequest, Adapter!Requests
    <3>2. ToOpen(worker.req.s)
      BY <1>1, <1>6, <3>1 DEF ToOpen, InWork
    <3> QED BY <3>1, <3>2 DEF BornInv
  <2> QED BY <2>2, <2>3, AskedFor DEF Speaks
<1> QED BY <1>1, <1>2, <1>3, <1>4, <1>5, <1>6 DEF BornInv

\* What an answer says of a session is said of it when it is taken too.
LEMMA SpeaksKeeps ==
  ASSUME AdapterTypes, BornInv, OneInv, Speaks
  PROVE  /\ OneInv'
         /\ \A s \in Sessions : Done(s) => Done(s)'
         /\ \A s \in Sessions : ToldClean(s)' => ToldClean(s)
         /\ ReceiptInv /\ (call.at # "ready" \/ call'.at = "ready" \/ responses' # responses) => ReceiptInv'
<1>1. OneInv'
  BY SpeaksPlays DEF OneInv
<1>2. ASSUME NEW s \in Sessions, Done(s) PROVE Done(s)'
  BY <1>2, SpeaksBorn, AskedFor DEF Done, Speaks
<1>3. ASSUME NEW s \in Sessions, ToldClean(s)' PROVE ToldClean(s)
  BY <1>3, Heard DEF Speaks, ToldClean
<1>4. ASSUME ReceiptInv, call.at # "ready" \/ call'.at = "ready" \/ responses' # responses
      PROVE  ReceiptInv'
  <2> SUFFICES ASSUME NEW i \in 1..Len(responses'), responses'[i].value \in Receipts
               PROVE  \/ i = Len(responses') /\ Over' /\ held' = {}
                      \/ i = 1 /\ call'.at = "ready"
    BY DEF ReceiptInv
  <2>1. PICK j \in 1..Len(responses) :
          /\ responses'[i] = responses[j] /\ (j = Len(responses) <=> i = Len(responses'))
          /\ (responses' = responses => j = i) /\ (responses' # responses => j = i + 1)
    BY Heard DEF Speaks
  <2>2. \/ j = Len(responses) /\ Over /\ held = {}
        \/ j = 1 /\ call.at = "ready"
    BY <1>4, <2>1 DEF ReceiptInv
  <2>3. Over' = Over /\ held' = held
    BY DEF Over, Speaks
  <2>4. i \in Nat /\ i >= 1
    BY Heard DEF Speaks
  <2> QED BY <1>4, <2>1, <2>2, <2>3, <2>4
<1> QED BY <1>1, <1>2, <1>3, <1>4

\* A step of the caller keeps what is not about its own call.
LEMMA CallerStep ==
  ASSUME AdInv, Speaks, UNCHANGED <<cleaned, shut>>, ~shut, call' \in CallShapes,
         stopped' \in BOOLEAN, anonymous' \in BOOLEAN, stopped => stopped',
         worker.at = "starting" => stopped' \/ call'.at = "ready",
         \/ call.at # "ready" \/ requests # <<>> \/ stopped'
         \/ (call'.at = "ready" /\ requests' = <<>>)
         \/ held # {} \/ \A s \in Sessions : ~Plays(s),
         call.at # "ready" \/ call'.at = "ready" \/ responses' # responses \/ responses = <<>>,
         call'.op = "cleaned" =>
           /\ call'.at = "join" /\ Adapter!Known' = {} /\ responses' = <<>> /\ Over /\ held = {}
           /\ call'.s \in Sessions /\ Done(call'.s),
         CallInv', OwnInv', PaceInv', LiveInv'
  PROVE  AdInv'
<1>1. /\ worker' = worker /\ held' = held /\ context' = context
      /\ requests' \in Seq(Adapter!Requests) /\ responses' \in Seq(Replies) /\ fresh' \subseteq fresh
  BY AskedFor, Heard DEF Speaks, AdInv
<1>2. AdapterTypes'
  BY <1>1 DEF AdInv, AdapterTypes, Speaks
<1>3. BornInv' /\ OneInv'
  BY SpeaksBorn, SpeaksKeeps DEF AdInv
<1>4. ThreadInv'
  BY <1>1 DEF AdInv, ThreadInv, InWork
<1>5. NewInv'
  <2> SUFFICES ASSUME worker'.at \in {"starting", "loop", "busy"}, held' = {},
                      NEW r \in Sessions, Plays(r)'
               PROVE  ~InWork' /\ (stopped' \/ (call'.at = "ready" /\ requests' = <<>>))
    BY DEF NewInv
  <2>1. Plays(r)
    BY SpeaksPlays DEF AdInv
  <2>2. ~InWork /\ (stopped \/ (call.at = "ready" /\ requests = <<>>))
    BY <1>1, <2>1 DEF AdInv, NewInv
  <2> QED BY <1>1, <2>1, <2>2 DEF InWork
<1>6. ReceiptInv'
  <2>1. CASE responses' # <<>> \/ responses # <<>>
    <3>1. CASE call.at # "ready" \/ call'.at = "ready" \/ responses' # responses
      BY <3>1, SpeaksKeeps DEF AdInv
    <3> QED BY <2>1, <3>1
  <2>2. CASE responses' = <<>>
    BY <2>2 DEF ReceiptInv
  <2> QED BY <2>1, <2>2
<1>7. DoneInv'
  <2>1. \A s \in Sessions : s \in cleaned' \/ ToldClean(s)' => Done(s)'
    BY SpeaksKeeps DEF AdInv, DoneInv
  <2>2. ASSUME call'.op = "cleaned"
        PROVE  /\ call'.at = "join" /\ Adapter!Known' = {} /\ responses' = <<>>
               /\ Over' /\ held' = {} /\ call'.s \in Sessions /\ Done(call.s)'
    <3>1. \A s \in Sessions : Done(s) => Done(s)'
      BY SpeaksKeeps DEF AdInv
    <3>2. \A s : s = call'.s /\ Done(s)' => Done(call.s)'
      BY DEF Done, ToOpen, Asked, InWork
    <3> QED BY <1>1, <2>2, <3>1, <3>2 DEF Over
  <2> QED BY <2>1, <2>2 DEF DoneInv
<1>8. ShutInv'
  BY DEF ShutInv
<1> QED BY <1>2, <1>3, <1>4, <1>5, <1>6, <1>7, <1>8 DEF AdInv

\* What is alive stays accounted for while no open ends and nothing is forgotten.
LEMMA LiveKeeps ==
  ASSUME AdInv, Speaks, ~Waits("open"), anonymous' = anonymous, Adapter!Known \subseteq Adapter!Known',
         fresh' = fresh \/ (Waits("open")' /\ call'.s \in fresh \ fresh')
  PROVE  LiveInv'
<1> SUFFICES ASSUME ~anonymous PROVE LiveInv'
  BY DEF LiveInv
<1>1. /\ worker' = worker /\ held' = held /\ context' = context
      /\ requests \in Seq(Adapter!Requests) /\ Len(requests') \in Nat
  BY AskedFor DEF Speaks, AdInv, AdapterTypes
<1>2. ASSUME NEW s \in Sessions, context'[s] = "live" \/ s \in held' PROVE s \in Adapter!Known'
  BY <1>1, <1>2 DEF AdInv, LiveInv
<1>3. ASSUME NEW s \in Sessions, Stranded(s)' PROVE Stranded(s) /\ s \notin fresh
  <2>1. ToOpen(s)' /\ s \notin fresh'
    BY <1>3, SpeaksBorn DEF AdInv, Stranded, BornInv, AdapterTypes
  <2>2. CASE s \in fresh
    <3>1. Waits("open")' /\ call'.s \in fresh \ fresh'
      BY <2>1, <2>2
    <3>2. PICK q : fresh' = fresh \ {q}
      BY <3>1, AskedFor DEF Speaks, AdInv, NewRequest
    <3>3. s = call'.s
      BY <2>1, <2>2, <3>1, <3>2
    <3> QED BY <1>3, <3>1, <3>3 DEF Stranded, Waits
  <2>3. ToOpen(s) \/ s \in fresh
    BY <2>1, SpeaksBorn DEF AdInv
  <2> QED BY <2>2, <2>3 DEF Stranded
<1>4. ASSUME NEW s \in Sessions, Stranded(s)'
      PROVE  /\ Adapter!Known' # {} /\ \A r \in Sessions : ~ToldClean(r)'
             /\ InWork' /\ worker'.req.op = "close" => worker'.req.s \notin held'
  <2>1. Stranded(s)
    BY <1>3, <1>4
  <2>2. /\ Adapter!Known # {} /\ \A r \in Sessions : ~ToldClean(r)
        /\ InWork /\ worker.req.op = "close" => worker.req.s \notin held
    BY <2>1 DEF AdInv, LiveInv
  <2> QED BY <1>1, <2>2, SpeaksKeeps DEF AdInv, InWork
<1>5. ASSUME NEW s \in Sessions, Stranded(s)', NEW i \in 1..Len(requests'),
             NEW j \in 1..Len(requests'), requests'[i].op = "close", requests'[i].s \in held',
             requests'[j] = [op |-> "open", s |-> s]
      PROVE  j < i
  <2>1. Stranded(s) /\ s \notin fresh
    BY <1>3, <1>5
  <2>2. j \in 1..Len(requests) /\ requests[j] = requests'[j]
    BY <1>5, <2>1, AskedFor DEF Speaks, AdInv, NewRequest
  <2>3. CASE i \in 1..Len(requests)
    <3>1. requests[i] = requests'[i]
      BY <2>3, AskedFor DEF Speaks, AdInv
    <3> QED BY <1>1, <1>5, <2>1, <2>2, <2>3, <3>1 DEF AdInv, LiveInv
  <2>4. CASE i = Len(requests) + 1
    BY <2>2, <2>4, AskedFor DEF Speaks, AdInv
  <2> QED BY <2>3, <2>4, AskedFor DEF Speaks, AdInv
<1> QED BY <1>2, <1>4, <1>5 DEF LiveInv

\* Which of the paces is meant is a matter of the call.
LEMMA PaceOf ==
  /\ call = Adapter!Idle /\ RestInv /\ SetInv => PaceInv
  /\ call.at = "ready" /\ OpenInv /\ StartInv => PaceInv
  /\ call.at = "wait" /\ call.op = "open" /\ OpenInv /\ SecondInv => PaceInv
  /\ call.at = "wait" /\ call.op \in Adapter!UseOps /\ UseInv => PaceInv
  /\ call.at = "wait" /\ call.op = "close" /\ CloseInv => PaceInv
  /\ stopped => PaceInv
BY DEF PaceInv, RestInv, SetInv, OpenInv, StartInv, SecondInv, UseInv, CloseInv, Waits,
   Adapter!Idle, Adapter!UseOps

LEMMA PaceNext ==
  /\ call' = Adapter!Idle /\ RestInv' /\ SetInv' => PaceInv'
  /\ call'.at = "ready" /\ OpenInv' /\ StartInv' => PaceInv'
  /\ call'.at = "wait" /\ call'.op = "open" /\ OpenInv' /\ SecondInv' => PaceInv'
  /\ call'.at = "wait" /\ call'.op \in Adapter!UseOps /\ UseInv' => PaceInv'
  /\ call'.at = "wait" /\ call'.op = "close" /\ CloseInv' => PaceInv'
  /\ stopped' => PaceInv'
BY DEF PaceInv, RestInv, SetInv, OpenInv, StartInv, SecondInv, UseInv, CloseInv, Waits,
   Adapter!Idle, Adapter!UseOps

\* A request is the last in the queue.
LEMMA Sends ==
  ASSUME AdapterTypes, NEW op \in Adapter!Ops, NEW s \in Sessions, Adapter!Send(op, s)
  PROVE  /\ call' \in CallShapes /\ call'.at = "wait" /\ call'.op = op /\ call'.s = s
         /\ requests' # <<>> /\ Len(requests') = Len(requests) + 1 /\ Len(requests) \in Nat
         /\ requests' = Append(requests, [op |-> op, s |-> s])
         /\ requests'[Len(requests')] = [op |-> op, s |-> s] /\ OwnInv'
<1> DEFINE q == [op |-> op, s |-> s]
           a == Append(requests, q)
           n == Len(requests)
<1>1. /\ a # <<>> /\ Len(a) = n + 1 /\ a[n + 1] = q /\ n \in Nat
  <2>1. q \in Adapter!Requests
    BY DEF Adapter!Requests
  <2> QED BY <2>1, OnAppend DEF AdapterTypes
<1>2. requests' = a /\ call' = [at |-> "wait", op |-> op, s |-> s]
  BY DEF Adapter!Send, Adapter!In
<1>3. call' \in CallShapes
  BY <1>2 DEF CallShapes
<1> HIDE DEF a, n
<1>4. requests' # <<>> /\ Len(requests') = n + 1 /\ requests'[Len(requests')] = q
  BY <1>1, <1>2
<1>5. OwnInv'
  BY <1>2, <1>4 DEF OwnInv, Own
<1> QED BY <1>1, <1>2, <1>3, <1>4, <1>5 DEF a, n

LEMMA Sizes ==
  ASSUME AdapterTypes
  PROVE  /\ Len(requests) \in Nat /\ Len(responses) \in Nat /\ Lag \in Nat
         /\ (requests = <<>> <=> Len(requests) = 0)
         /\ (responses = <<>> <=> Len(responses) = 0)
         /\ (responses # <<>> => Head(responses) = responses[1] /\ Head(responses) \in Replies)
BY OnQueue, OnTail DEF AdapterTypes, Lag

\* A call that begins.
LEMMA IdleStep ==
  ASSUME AdInv, call = Adapter!Idle, call'.at # "join", call'.op # "cleaned", Speaks, ~shut,
         call' \in CallShapes, UNCHANGED <<stopped, anonymous, cleaned, shut>>,
         CallInv', OwnInv', PaceInv', LiveInv'
  PROVE  AdInv'
<1>1. call.at # "ready"
  BY DEF Adapter!Idle
<1>2. stopped' \in BOOLEAN /\ anonymous' \in BOOLEAN
  BY DEF AdInv, AdapterTypes
<1>3. worker.at = "starting" => stopped'
  BY <1>1 DEF AdInv, ThreadInv
<1> QED BY <1>1, <1>2, <1>3, CallerStep

LEMMA CloseStep ==
  ASSUME AdInv, NEW s \in Sessions, Adapter!Close(s)
  PROVE  AdInv'
<1>1. /\ call = Adapter!Idle /\ ~shut /\ s \in Adapter!Known /\ Adapter!Send("close", s)
      /\ UNCHANGED <<fresh, known, stopped, anonymous, responses, worker, held, context,
                     cleaned, shut>>
  BY DEF Adapter!Close, Adapter!adapter, Adapter!thread, Adapter!ghosts
<1>2. AdapterTypes /\ "close" \in Adapter!Ops
  BY DEF AdInv, Adapter!Ops
<1>3. /\ call' \in CallShapes /\ call'.at = "wait" /\ call'.op = "close" /\ call'.s = s
      /\ Len(requests') = Len(requests) + 1 /\ requests' = Append(requests, [op |-> "close", s |-> s])
      /\ OwnInv'
  BY <1>1, <1>2, Sends
<1>4. Plays(s)
  BY <1>1 DEF Plays, Adapter!Known
<1>5. Speaks
  BY <1>1, <1>2, <1>3, <1>4 DEF Speaks, Asks, Hears, AdapterTypes, Plays, Adapter!Ops,
     Adapter!UseOps
<1>6. Adapter!Known = {s} /\ Adapter!Known' = Adapter!Known /\ s \notin fresh
  <2>1. Adapter!Known = {s}
    BY <1>1 DEF AdInv, OneInv, Plays, Adapter!Known
  <2> QED BY <1>1, <2>1 DEF Adapter!Known, AdInv, BornInv, Unborn
<1>7. CallInv'
  BY <1>1, <1>3, <1>6 DEF CallInv, Waits, Adapter!Ops, Adapter!UseOps
<1>8. PaceInv'
  <2>1. ASSUME ~stopped PROVE CloseInv'
    <3>1. SetInv /\ Adapter!Known # {}
      BY <1>6, <2>1 DEF AdInv, PaceInv
    <3>2. Lag <= 1 /\ (Over => Receipted(1))
      BY <1>1, <3>1 DEF SetInv
    <3>3. Lag' <= 2
      BY <1>1, <1>2, <1>3, <3>2, Sizes DEF Lag, InWork
    <3>4. Over' /\ responses' # <<>> => Head(responses').value \in Receipts
      BY <1>1, <1>2, <3>2, Sizes DEF Over, Receipted
    <3> QED BY <3>3, <3>4 DEF CloseInv
  <2> QED BY <1>1, <1>3, <2>1, PaceNext DEF PaceInv
<1>9. LiveInv'
  BY <1>1, <1>5, <1>6, LiveKeeps DEF Waits, Adapter!Idle
<1> QED BY <1>1, <1>3, <1>5, <1>7, <1>8, <1>9, IdleStep

LEMMA UseStep ==
  ASSUME AdInv, NEW op \in Adapter!UseOps, NEW s \in Sessions, Adapter!Use(op, s)
  PROVE  AdInv'
<1>1. /\ call = Adapter!Idle /\ ~shut /\ known[s] \in {"usable", "headed"} /\ Adapter!Send(op, s)
      /\ UNCHANGED <<fresh, known, stopped, anonymous, responses, worker, held, context,
                     cleaned, shut>>
  BY DEF Adapter!Use, Adapter!adapter, Adapter!thread, Adapter!ghosts
<1>2. AdapterTypes /\ op \in Adapter!Ops /\ op # "open" /\ op # "close"
  BY DEF AdInv, Adapter!Ops, Adapter!UseOps
<1>3. /\ call' \in CallShapes /\ call'.at = "wait" /\ call'.op = op /\ call'.s = s
      /\ Len(requests') = Len(requests) + 1 /\ requests' = Append(requests, [op |-> op, s |-> s])
      /\ OwnInv'
  BY <1>1, <1>2, Sends
<1>4. Plays(s) /\ s \in Adapter!Known
  BY <1>1 DEF Plays, Adapter!Known
<1>5. Speaks
  BY <1>1, <1>2, <1>3, <1>4 DEF Speaks, Asks, Hears, AdapterTypes, Plays
<1>6. Adapter!Known = {s} /\ Adapter!Known' = Adapter!Known /\ s \notin fresh
  <2>1. Adapter!Known = {s}
    BY <1>4 DEF AdInv, OneInv, Plays, Adapter!Known
  <2> QED BY <1>1, <2>1 DEF Adapter!Known, AdInv, BornInv, Unborn
<1>7. CallInv'
  BY <1>1, <1>2, <1>3, <1>6 DEF CallInv, Waits
<1>8. PaceInv'
  <2>1. ASSUME ~stopped PROVE UseInv'
    <3>1. SetInv /\ Adapter!Known # {} /\ Handy
      BY <1>1, <1>6, <2>1 DEF AdInv, PaceInv, Handy
    <3>2. Lag = 0 /\ (Over => Receipted(1))
      BY <1>1, <3>1 DEF SetInv
    <3>3. Len(responses) = 0 /\ Lag' = 1
      BY <1>1, <1>2, <1>3, <3>2, Sizes DEF Lag, InWork
    <3>4. ~Over'
      BY <1>1, <3>2, <3>3 DEF Over, Receipted
    <3> QED BY <3>3, <3>4 DEF UseInv
  <2> QED BY <1>1, <1>3, <2>1, PaceNext DEF PaceInv
<1>9. LiveInv'
  BY <1>1, <1>5, <1>6, LiveKeeps DEF Waits, Adapter!Idle
<1> QED BY <1>1, <1>2, <1>3, <1>5, <1>7, <1>8, <1>9, IdleStep DEF Adapter!UseOps

LEMMA OpenStep ==
  ASSUME AdInv, NEW s \in Sessions, Adapter!Open(s)
  PROVE  AdInv'
<1>1. /\ call = Adapter!Idle /\ ~shut /\ ~stopped /\ Adapter!Alive /\ s \in fresh
      /\ Adapter!Send("open", s) /\ fresh' = fresh \ {s}
      /\ UNCHANGED <<known, stopped, anonymous, responses, worker, held, context,
                     cleaned, shut>>
  BY DEF Adapter!Open, Adapter!adapter, Adapter!thread, Adapter!ghosts
<1>2. AdapterTypes /\ "open" \in Adapter!Ops
  BY DEF AdInv, Adapter!Ops
<1>3. /\ call' \in CallShapes /\ call'.at = "wait" /\ call'.op = "open" /\ call'.s = s
      /\ Len(requests') = Len(requests) + 1 /\ requests' = Append(requests, [op |-> "open", s |-> s])
      /\ OwnInv'
  BY <1>1, <1>2, Sends
<1>4. Speaks
  BY <1>1, <1>2, <1>3 DEF Speaks, Asks, Hears, AdapterTypes, Plays
<1>5. Adapter!Known' = Adapter!Known /\ s \notin Adapter!Known
  BY <1>1 DEF Adapter!Known, AdInv, BornInv, Unborn
<1>6. CallInv'
  BY <1>1, <1>2, <1>3, <1>5 DEF CallInv, Waits
<1>7. PaceInv'
  <2>1. SetInv /\ RestInv
    BY <1>1 DEF AdInv, PaceInv
  <2>2. Adapter!Known # {}
    BY <1>1, <2>1 DEF RestInv, Adapter!Alive
  <2>3. Lag <= 1 /\ (Handy => Lag = 0) /\ (Over => requests = <<>> /\ Receipted(1))
    BY <1>1, <2>1, <2>2 DEF SetInv
  <2>4. Lag' = Lag + 1 /\ Lag \in Nat
    BY <1>1, <1>2, <1>3, Sizes DEF Lag, InWork
  <2>5. Over' => Len(requests') = 1 /\ Receipted(1)'
    BY <1>1, <1>2, <1>3, <2>3, Sizes DEF Over, Receipted
  <2>6. Handy' => Lag' = 1
    BY <1>1, <2>3, <2>4 DEF Handy
  <2>7. SecondInv'
    BY <2>3, <2>4, <2>5, <2>6 DEF SecondInv
  <2>8. OpenInv'
    BY <1>5, <2>2 DEF OpenInv
  <2> QED BY <1>3, <2>7, <2>8, PaceNext
<1>8. LiveInv'
  BY <1>1, <1>3, <1>4, <1>5, LiveKeeps DEF Waits, Adapter!Idle
<1> QED BY <1>1, <1>3, <1>4, <1>6, <1>7, <1>8, IdleStep

LEMMA StartWorkerStep ==
  ASSUME AdInv, NEW s \in Sessions, Adapter!StartWorker(s)
  PROVE  AdInv'
<1>1. /\ call = Adapter!Idle /\ ~shut /\ ~stopped /\ worker.at = "gone" /\ s \in fresh
      /\ worker' = [at |-> "starting", req |-> Adapter!NoRequest]
      /\ call' = [at |-> "ready", op |-> "open", s |-> s]
      /\ UNCHANGED <<fresh, known, stopped, anonymous, requests, responses, held, context,
                     cleaned, shut>>
  BY DEF Adapter!StartWorker, Adapter!adapter, Adapter!ghosts, Adapter!Alive, Adapter!In
<1>2. ~InWork /\ ~InWork' /\ Over /\ ~Over' /\ held = {} /\ Adapter!Known' = Adapter!Known
  BY <1>1 DEF InWork, Over, AdInv, ThreadInv, Adapter!Known
<1>3. /\ \A t : Asked(t)' = Asked(t)
      /\ \A t : ToOpen(t)' = ToOpen(t)
      /\ \A t : Named(t)' = Named(t)
      /\ \A t : Plays(t)' = Plays(t)
      /\ \A t : Done(t)' = Done(t)
      /\ \A t : ToldClean(t)' = ToldClean(t)
  BY <1>1, <1>2 DEF Asked, ToOpen, Named, Plays, Done, ToldClean
<1>4. RestInv /\ SetInv
  BY <1>1 DEF AdInv, PaceInv
<1>5. Adapter!Known = {} => responses = <<>>
  BY <1>1, <1>4 DEF RestInv
<1>6. Adapter!Known # {} => requests = <<>> /\ Receipted(1) /\ responses # <<>> /\ Head(responses) = responses[1]
  <2>1. Adapter!Known # {} => requests = <<>> /\ Receipted(1)
    BY <1>1, <1>2, <1>4 DEF SetInv
  <2> QED BY <2>1, Sizes DEF AdInv, Receipted
<1>7. AdapterTypes'
  BY <1>1 DEF AdInv, AdapterTypes, CallShapes, Adapter!Ops, Adapter!NoRequest
<1>8. CallInv'
  BY <1>1 DEF CallInv, Adapter!Idle, Waits
<1>9. ThreadInv'
  BY <1>1, <1>2 DEF ThreadInv
<1>10. BornInv'
  BY <1>1, <1>2, <1>3 DEF AdInv, BornInv, Unborn, Adapter!Known
<1>11. OneInv'
  BY <1>3 DEF AdInv, OneInv
<1>12. NewInv'
  <2>1. CASE Adapter!Known = {}
    BY <1>2, <1>3, <1>5, <2>1 DEF NewInv, Plays, Named, Adapter!Known, AdInv, AdapterTypes
  <2>2. CASE Adapter!Known # {}
    BY <1>1, <1>2, <1>6, <2>2 DEF NewInv
  <2> QED BY <2>1, <2>2
<1>13. ReceiptInv'
  BY <1>1, <1>5, <1>6 DEF ReceiptInv, Receipted, AdInv, AdapterTypes
<1>14. DoneInv'
  BY <1>1, <1>3 DEF AdInv, DoneInv
<1>15. OwnInv'
  BY <1>1 DEF OwnInv
<1>16. PaceInv'
  <2>1. OpenInv'
    BY <1>1, <1>2, <1>5 DEF OpenInv, Refused, Waits
  <2>2. StartInv'
    BY <1>1, <1>2, <1>6 DEF StartInv, Receipted
  <2> QED BY <1>1, <2>1, <2>2, PaceNext
<1>17. LiveInv'
  BY <1>1, <1>2, <1>3 DEF AdInv, LiveInv, Stranded, Waits, Adapter!Idle
<1>18. ShutInv'
  BY <1>1 DEF ShutInv
<1> QED BY <1>7, <1>8, <1>9, <1>10, <1>11, <1>12, <1>13, <1>14, <1>15, <1>16, <1>17,
       <1>18 DEF AdInv

\* The first of the answers, and what is behind it.
LEMMA Takes ==
  ASSUME AdapterTypes, responses # <<>>, responses' = Tail(responses)
  PROVE  /\ responses[1] = Head(responses) /\ Head(responses) \in Replies
         /\ 1 \in 1..Len(responses) /\ Len(responses) \in Nat \ {0}
         /\ Len(responses') = Len(responses) - 1 /\ responses' # responses
         /\ \A i \in 1..Len(responses') :
              i \in Nat /\ i + 1 # 1 /\ i + 1 \in 1..Len(responses) /\ responses'[i] = responses[i + 1]
         /\ (responses' # <<>> => /\ Head(responses') = responses'[1] /\ 1 \in 1..Len(responses')
                                  /\ responses'[1] = responses[2] /\ 2 \in 1..Len(responses))
         /\ (responses' = <<>> <=> Len(responses) = 1) /\ Hears
<1> DEFINE t == Tail(responses)
           n == Len(responses)
<1>1. /\ t \in Seq(Replies) /\ n \in Nat \ {0} /\ Len(t) = n - 1
      /\ Head(responses) = responses[1] /\ Head(responses) \in Replies /\ 1 \in 1..n
      /\ \A i \in 1..(n - 1) : i + 1 \in 1..n /\ t[i] = responses[i + 1]
  BY OnTail DEF AdapterTypes
<1>2. responses' = t
  OBVIOUS
<1> HIDE DEF t
<1>3. responses' # responses
  BY <1>1, <1>2
<1>4. \A i \in 1..Len(t) : i \in Nat /\ i + 1 # 1 /\ i + 1 \in 1..n /\ t[i] = responses[i + 1]
  BY <1>1
<1>5. t = <<>> <=> n = 1
  BY <1>1, OnQueue
<1>6. t # <<>> => Head(t) = t[1] /\ 1 \in 1..Len(t) /\ t[1] = responses[2] /\ 2 \in 1..n
  <2>1. ASSUME t # <<>> PROVE n - 1 >= 1 /\ 1 \in 1..Len(t) /\ 2 \in 1..n
    BY <1>1, <1>5, <2>1
  <2>2. t # <<>> => t[1] = responses[1 + 1]
    BY <1>4, <2>1
  <2>3. t # <<>> => Head(t) = t[1]
    BY <1>1, OnTail
  <2> QED BY <2>1, <2>2, <2>3
<1> QED BY <1>1, <1>2, <1>3, <1>4, <1>5, <1>6 DEF Hears

\* What stands first in the queue of requests stays there when one is added.
LEMMA FirstStays ==
  ASSUME AdapterTypes, NEW q \in Adapter!Requests, requests # <<>>, requests' = Append(requests, q)
  PROVE  requests' # <<>> /\ Head(requests') = Head(requests) /\ Head(requests) = requests[1]
         /\ 1 \in 1..Len(requests)
<1>1. /\ requests' \in Seq(Adapter!Requests) /\ requests' # <<>>
      /\ \A i \in 1..Len(requests) : requests'[i] = requests[i]
  BY OnAppend DEF AdapterTypes
<1>2. Head(requests) = requests[1] /\ 1 \in 1..Len(requests)
  BY OnTail DEF AdapterTypes
<1>3. Head(requests') = requests'[1]
  BY <1>1, OnTail
<1> QED BY <1>1, <1>2, <1>3

\* A session that no open was asked for yet is nowhere.
LEMMA FreshNowhere ==
  ASSUME AdapterTypes, BornInv, NEW s \in fresh
  PROVE  /\ s \notin held /\ s \notin Adapter!Known
         /\ \A i \in 1..Len(responses) : responses[i].s # s
         /\ \A i \in 1..Len(requests) : requests[i].s # s
         /\ (InWork /\ worker.req \in Adapter!Requests => worker.req.s # s)
<1>1. s \in Sessions /\ Unborn(s) /\ ~ToOpen(s)
  BY DEF AdapterTypes, BornInv
<1>2. ASSUME NEW i \in 1..Len(requests), requests[i].s = s PROVE FALSE
  <2>1. requests[i].op = "open" /\ requests[i] \in Adapter!Requests
    BY <1>1, <1>2 DEF Unborn, AdapterTypes
  <2>2. requests[i] = [op |-> "open", s |-> s]
    BY <1>2, <2>1 DEF Adapter!Requests
  <2> QED BY <1>1, <2>2 DEF ToOpen, Asked
<1>3. ASSUME InWork, worker.req \in Adapter!Requests, worker.req.s = s PROVE FALSE
  <2>1. worker.req = [op |-> "open", s |-> s]
    BY <1>1, <1>3 DEF Unborn, Adapter!Requests
  <2> QED BY <1>1, <1>3, <2>1 DEF ToOpen
<1> QED BY <1>1, <1>2, <1>3 DEF Unborn

LEMMA WaitReadyStep ==
  ASSUME AdInv, Adapter!WaitReady
  PROVE  AdInv'
<1>1. /\ call.at = "ready" /\ ~stopped /\ call.op = "open" /\ call.s \in fresh /\ call.s \in Sessions
      /\ UNCHANGED <<known, anonymous, worker, held, context, cleaned, shut>>
      /\ AdapterTypes /\ Adapter!Known' = Adapter!Known /\ ~shut
  BY DEF Adapter!WaitReady, Adapter!thread, Adapter!ghosts, AdInv, CallInv, AdapterTypes,
     Adapter!Known, ShutInv, Adapter!Idle
<1>2. CASE /\ responses # <<>> /\ Head(responses).value = "ready" /\ responses' = Adapter!Taken
           /\ Adapter!Send("open", call.s) /\ fresh' = fresh \ {call.s} /\ UNCHANGED stopped
  <2> DEFINE s == call.s
             q == [op |-> "open", s |-> s]
  <2>1. /\ call' \in CallShapes /\ call'.at = "wait" /\ call'.op = "open" /\ call'.s = s
        /\ Len(requests') = Len(requests) + 1 /\ requests' = Append(requests, q)
        /\ OwnInv' /\ q \in Adapter!Requests
    BY <1>1, <1>2, Sends DEF Adapter!Ops, Adapter!Requests
  <2>2. responses' = Tail(responses)
    BY <1>2 DEF Adapter!Taken
  <2>3. Adapter!Known = {}
    BY <1>1, <1>2 DEF AdInv, PaceInv, StartInv, Receipts
  <2>4. OpenInv
    BY <1>1 DEF AdInv, PaceInv
  <2>5. worker.at # "starting"
    BY <1>1, <1>2, <2>3, <2>4 DEF OpenInv
  <2>6. held # {} \/ \A r \in Sessions : ~Plays(r)
    BY <1>1, <2>3, <2>4 DEF OpenInv, Plays, Named, Naming, Receipts, Adapter!Known,
       Adapter!IsError
  <2>7. Speaks
    <3>1. Hears
      BY <1>2, <2>2 DEF Hears
    <3>2. Asks
      BY <1>1, <1>2, <2>1 DEF Asks
    <3> QED BY <1>1, <3>1, <3>2 DEF Speaks, AdapterTypes, Plays
  <2>8. CallInv'
    BY <1>1, <1>2, <2>1, <2>3 DEF CallInv, Waits, Adapter!Ops
  <2>9. LiveInv'
    BY <1>1, <1>2, <2>1, <2>7, LiveKeeps DEF Waits
  <2>10. OpenInv'
    <3>1. ASSUME NEW i \in 1..Len(responses')
          PROVE  \/ Adapter!IsError(responses'[i])
                 \/ /\ responses'[i].value = "handle" /\ held' = {responses'[i].s} /\ ~Over'
                    /\ \A j \in 1..Len(responses') : responses'[j].value = "handle" => j = i
      <4>1. i + 1 \in 1..Len(responses) /\ responses'[i] = responses[i + 1] /\ i + 1 # 1
            /\ i \in Nat
        BY <1>1, <1>2, <2>2, Takes
      <4>2. CASE Adapter!IsError(responses[i + 1])
        BY <4>1, <4>2
      <4>3. CASE /\ responses[i + 1].value = "handle" /\ held = {responses[i + 1].s} /\ ~Over
                 /\ \A j \in 1..Len(responses) : responses[j].value = "handle" => j = i + 1
        <5>1. \A j \in 1..Len(responses') : j + 1 \in 1..Len(responses) /\ responses'[j] = responses[j + 1]
          BY <1>1, <1>2, <2>2, Takes
        <5>2. \A j \in 1..Len(responses') : j \in Nat
          BY <1>1, <1>2, <2>2, Takes
        <5> QED BY <1>1, <4>1, <4>3, <5>1, <5>2 DEF Over
      <4> QED BY <1>1, <2>3, <2>4, <4>1, <4>2, <4>3 DEF OpenInv
    <3>2. ASSUME NEW i \in 1..Len(requests') PROVE Refused(requests[i])'
      <4>1. i \in 1..Len(requests) \/ requests'[i].op = "open"
        BY <2>1, <2>7, AskedFor, <1>1 DEF Speaks
      <4>2. ASSUME i \in 1..Len(requests) PROVE Refused(requests[i]) /\ requests'[i] = requests[i]
        BY <1>1, <2>3, <2>4, <2>7, <4>2, AskedFor DEF Speaks, OpenInv
      <4> QED BY <1>1, <4>1, <4>2 DEF Refused
    <3>3. InWork' => Refused(worker.req)'
      BY <1>1, <2>3, <2>4 DEF OpenInv, InWork, Refused
    <3>4. Lag' = 1 \/ FirstIsNot(call.s)'
      <4>1. /\ \A i \in 1..Len(responses) : responses[i].s # s
            /\ \A i \in 1..Len(requests) : requests[i].s # s
            /\ (InWork => worker.req.s # s)
        BY <1>1, FreshNowhere DEF AdInv, ThreadInv
      <4>2. responses' # <<>> => Head(responses').s # s
        <5>1. responses' # <<>> => Head(responses') = responses[2] /\ 2 \in 1..Len(responses)
          BY <1>1, <1>2, <2>2, Takes
        <5> QED BY <4>1, <5>1
      <4>3. InWork' => worker'.req.s # s
        BY <1>1, <4>1 DEF InWork
      <4>4. requests # <<>> => requests' # <<>> /\ Head(requests').s # s
        BY <1>1, <2>1, <4>1, FirstStays
      <4>5. requests = <<>> /\ responses' = <<>> /\ ~InWork' => Lag' = 1
        BY <1>1, <2>1, Sizes DEF Lag
      <4> QED BY <2>1, <4>2, <4>3, <4>4, <4>5 DEF FirstIsNot
    <3> QED BY <2>1, <3>1, <3>2, <3>3, <3>4 DEF OpenInv
  <2>11. SecondInv'
    BY <1>1, <2>3 DEF SecondInv
  <2>12. PaceInv'
    BY <2>1, <2>10, <2>11, PaceNext
  <2>13. responses' # responses /\ stopped' \in BOOLEAN /\ anonymous' \in BOOLEAN
    BY <1>1, <1>2, <2>2, Takes DEF AdapterTypes
  <2> QED BY <1>1, <1>2, <2>1, <2>5, <2>6, <2>7, <2>8, <2>9, <2>12, <2>13, CallerStep
<1>3. CASE /\ stopped' = TRUE /\ UNCHANGED <<fresh, requests>> /\ Hears
           /\ call' \in {Adapter!Idle, Adapter!In("join", "start", NoOne)}
           /\ responses' # responses \/ responses = <<>>
  <2>1. Speaks
    BY <1>1, <1>3 DEF Speaks, Asks, AdapterTypes, Plays
  <2>2. call' \in CallShapes /\ call'.op # "cleaned" /\ ~Waits("open")' /\ call'.at \in {"idle", "join"}
    BY <1>3 DEF CallShapes, Adapter!Idle, Adapter!In, Waits
  <2>3. CallInv' /\ OwnInv' /\ PaceInv'
    <3>1. CallInv'
      BY <1>3 DEF CallInv, Adapter!Idle, Adapter!In, Waits
    <3> QED BY <1>3, <2>2, <3>1, PaceNext DEF OwnInv
  <2>4. LiveInv'
    BY <1>1, <1>3, <2>1, LiveKeeps DEF Waits
  <2> QED BY <1>1, <1>3, <2>1, <2>2, <2>3, <2>4, CallerStep DEF AdapterTypes
<1>4. CASE /\ responses # <<>> /\ Head(responses).value # "ready" /\ responses' = Adapter!Taken
           /\ stopped' = TRUE /\ call' = Adapter!In("join", "start", NoOne)
           /\ UNCHANGED <<fresh, requests>>
  BY <1>1, <1>3, <1>4, Takes DEF Adapter!Taken
<1>5. CASE /\ responses = <<>> /\ stopped' = TRUE /\ Adapter!Returns
           /\ UNCHANGED <<fresh, requests, responses>>
  BY <1>3, <1>5 DEF Adapter!Returns, Hears
<1> QED BY <1>2, <1>4, <1>5 DEF Adapter!WaitReady

\* While the caller waits, the thread is not starting unless it was told to stop.
LEMMA Waiting ==
  ASSUME AdInv, call.at = "wait"
  PROVE  /\ AdapterTypes /\ ~shut /\ call.op \in Adapter!Ops /\ call.s \in Sessions \ fresh
         /\ (worker.at = "starting" => stopped) /\ call.at # "ready" /\ call # Adapter!Idle
BY DEF AdInv, CallInv, ThreadInv, ShutInv, Adapter!Idle

\* An answer names a session, but for the one of a worker that starts.
LEMMA AnswerNames ==
  ASSUME AdapterTypes, responses # <<>>
  PROVE  LET r == Head(responses) IN
           /\ r \in Replies
           /\ (r.value \in Naming => r.s \in Sessions /\ Named(r.s) /\ Plays(r.s))
<1>1. Head(responses) = responses[1] /\ Head(responses) \in Replies /\ 1 \in 1..Len(responses)
  BY OnTail DEF AdapterTypes
<1>2. Head(responses).value \in Naming => Head(responses).s \in Sessions
  BY <1>1 DEF Replies, Fits, Naming, Receipts
<1> QED BY <1>1, <1>2 DEF Plays, Named

LEMMA OpenFailsStep ==
  ASSUME AdInv, call.at = "wait", Hears, Adapter!OpenFails,
         UNCHANGED <<fresh, worker, held, context, cleaned, shut>>
  PROVE  AdInv'
<1>1. /\ anonymous' = TRUE /\ stopped' = TRUE /\ UNCHANGED <<known, requests>>
      /\ call' = [at |-> "join", op |-> "start", s |-> NoOne]
  BY DEF Adapter!OpenFails, Adapter!In
<1>2. AdapterTypes /\ ~shut /\ call.at # "ready"
  BY Waiting
<1>3. Speaks
  BY <1>1, <1>2 DEF Speaks, Asks, AdapterTypes, Plays
<1>4. call' \in CallShapes /\ CallInv' /\ OwnInv' /\ LiveInv'
  BY <1>1 DEF CallShapes, CallInv, OwnInv, LiveInv, Waits, Adapter!Idle
<1>5. PaceInv'
  BY <1>1, PaceNext
<1> QED BY <1>1, <1>2, <1>3, <1>4, <1>5, CallerStep

LEMMA Room ==
  ASSUME AdapterTypes, Lag <= 2, responses # <<>>
  PROVE  /\ (InWork => Len(requests) = 0 /\ Len(responses) = 1)
         /\ (Len(requests) # 0 => Len(requests) = 1 /\ Len(responses) = 1)
<1> DEFINE m == Len(requests)
           n == Len(responses)
<1>1. m \in Nat /\ n \in Nat /\ n # 0
  BY Sizes
<1>2. Lag = m + n + (IF InWork THEN 1 ELSE 0)
  BY DEF Lag
<1> HIDE DEF m, n
<1>3. InWork => m = 0 /\ n = 1
  BY <1>1, <1>2
<1>4. m # 0 => m = 1 /\ n = 1
  BY <1>1, <1>2, <1>3
<1> QED BY <1>3, <1>4 DEF m, n

\* With a session that is known and another that is still to be opened, there is
\* room for one answer besides the open.
LEMMA SecondLive ==
  ASSUME AdInv, Waits("open"), Adapter!Known # {}, ~stopped, Speaks, responses # <<>>,
         responses' = Tail(responses), UNCHANGED <<fresh, anonymous>>, Adapter!Known \subseteq Adapter!Known',
         \/ UNCHANGED requests
         \/ \E s \in Sessions : requests' = Append(requests, [op |-> "close", s |-> s])
  PROVE  LiveInv'
<1> SUFFICES ASSUME ~anonymous PROVE LiveInv'
  BY DEF LiveInv
<1>1. /\ AdapterTypes /\ worker' = worker /\ held' = held /\ context' = context
      /\ requests \in Seq(Adapter!Requests) /\ Len(requests) \in Nat
      /\ Len(responses) \in Nat \ {0} /\ Lag <= 2
  <2>1. SecondInv
    BY DEF AdInv, PaceInv
  <2> QED BY <2>1, Takes DEF Speaks, AdInv, AdapterTypes, SecondInv
<1>2. \A s \in Sessions : context'[s] = "live" \/ s \in held' => s \in Adapter!Known'
  BY <1>1 DEF AdInv, LiveInv
<1>3. ASSUME NEW s \in Sessions, Stranded(s)'
      PROVE  /\ ToOpen(s) /\ responses' = <<>>
             /\ (InWork => requests = <<>> /\ worker.req.op = "open")
             /\ \A i \in 1..Len(requests) : i = 1 /\ requests[i].op = "open"
  <2>1. ToOpen(s)
    <3>1. BornInv'
      BY SpeaksBorn DEF AdInv
    <3>2. ToOpen(s)' /\ s \notin fresh'
      BY <1>3, <3>1 DEF Stranded, BornInv
    <3> QED BY <3>2, SpeaksBorn DEF AdInv
  <2>2. CASE InWork
    <3>1. Len(requests) = 0 /\ Len(responses) = 1
      BY <1>1, <2>2, Room
    <3>2. requests = <<>> /\ responses' = <<>>
      BY <1>1, <3>1, Takes, Sizes
    <3>3. worker.req.op = "open"
      BY <2>1, <3>1 DEF ToOpen, Asked
    <3> QED BY <2>1, <3>1, <3>2, <3>3
  <2>3. CASE ~InWork
    <3>1. PICK i \in 1..Len(requests) : requests[i] = [op |-> "open", s |-> s]
      BY <2>1, <2>3 DEF ToOpen, Asked
    <3>2. Len(requests) = 1 /\ Len(responses) = 1
      <4>1. Len(requests) # 0
        BY <1>1, <3>1
      <4> QED BY <1>1, <4>1, Room
    <3>3. responses' = <<>>
      BY <1>1, <3>2, Takes
    <3>4. \A k \in 1..Len(requests) : k = 1 /\ k = i
      BY <3>1, <3>2
    <3> QED BY <2>1, <2>3, <3>1, <3>3, <3>4
  <2> QED BY <2>2, <2>3
<1>4. ASSUME NEW s \in Sessions, Stranded(s)'
      PROVE  /\ Adapter!Known' # {} /\ \A r \in Sessions : ~ToldClean(r)'
             /\ (InWork' /\ worker'.req.op = "close" => worker'.req.s \notin held')
  <2>1. Adapter!Known' # {}
    OBVIOUS
  <2>2. /\ responses' = <<>> /\ (InWork => worker.req.op = "open")
    BY <1>3, <1>4
  <2>3. \A r \in Sessions : ~ToldClean(r)'
    <3>1. 1..Len(responses') = {}
      BY <2>2
    <3> QED BY <3>1 DEF ToldClean
  <2>4. InWork' /\ worker'.req.op = "close" => worker'.req.s \notin held'
    BY <1>1, <2>2 DEF InWork
  <2> QED BY <2>1, <2>3, <2>4
<1>5. ASSUME NEW s \in Sessions, Stranded(s)', NEW i \in 1..Len(requests'),
             NEW j \in 1..Len(requests'), requests'[i].op = "close", requests'[i].s \in held',
             requests'[j] = [op |-> "open", s |-> s]
      PROVE  j < i
  <2>1. \A k \in 1..Len(requests) : k = 1 /\ requests[k].op = "open" /\ requests'[k] = requests[k]
    BY <1>1, <1>3, <1>5, AskedFor DEF Speaks
  <2>2. i \notin 1..Len(requests)
    BY <1>5, <2>1
  <2>3. PICK c \in Sessions : requests' = Append(requests, [op |-> "close", s |-> c])
    BY <2>2
  <2>4. /\ Len(requests') = Len(requests) + 1
        /\ requests'[Len(requests) + 1] = [op |-> "close", s |-> c]
    <3>1. [op |-> "close", s |-> c] \in Adapter!Requests
      BY DEF Adapter!Requests, Adapter!Ops
    <3> QED BY <1>1, <2>3, <3>1, OnAppend
  <2>5. i = Len(requests) + 1 /\ j # Len(requests) + 1
    BY <1>1, <1>5, <2>2, <2>4
  <2> QED BY <1>1, <2>4, <2>5
<1> QED BY <1>2, <1>4, <1>5 DEF LiveInv

\* An open that returns with a handle of its own.
LEMMA OpenedStep ==
  ASSUME AdInv, Waits("open"), responses # <<>>, responses' = Tail(responses),
         Adapter!IsHandle(Head(responses)), known' = [known EXCEPT ![call.s] = "usable"], Adapter!Returns,
         UNCHANGED <<fresh, stopped, anonymous, requests, worker, held, context, cleaned, shut>>
  PROVE  AdInv'
<1> DEFINE s == call.s
<1>1. /\ AdapterTypes /\ ~shut /\ ~stopped /\ call.at = "wait" /\ call.at # "ready"
      /\ s \in Sessions \ fresh /\ s \notin Adapter!Known /\ call' = Adapter!Idle
  BY Waiting DEF Waits, Adapter!Returns, AdInv, CallInv
<1>2. /\ Head(responses).value = "handle" /\ Head(responses).s = s
      /\ responses[1] = Head(responses) /\ 1 \in 1..Len(responses)
  BY <1>1, Takes DEF Adapter!IsHandle
<1>3. Named(s) /\ Plays(s)
  BY <1>2 DEF Named, Naming, Plays
<1>4. Adapter!Known = {}
  BY <1>1, <1>3 DEF AdInv, OneInv, Plays, Adapter!Known
<1>5. Adapter!Known' = {s} /\ known' \in [Sessions -> {"no", "usable", "headed", "unusable"}]
  BY <1>1, <1>4 DEF Adapter!Known, AdapterTypes
<1>6. Speaks
  <2>1. Hears
    BY DEF Hears
  <2>2. \A t \in Sessions : known'[t] # "no" => Plays(t)
    BY <1>3, <1>5 DEF Adapter!Known
  <2> QED BY <1>5, <2>1, <2>2 DEF Speaks, Asks
<1>7. /\ held = {s} /\ ~Over /\ Lag = 1
  <2>1. OpenInv
    BY <1>1 DEF AdInv, PaceInv
  <2>2. held = {s} /\ ~Over
    BY <1>2, <1>4, <2>1 DEF OpenInv, Adapter!IsError
  <2>3. Lag = 1 \/ FirstIsNot(s)
    BY <1>1, <1>4, <2>1 DEF OpenInv
  <2> QED BY <1>2, <2>2, <2>3 DEF FirstIsNot
<1>8. requests = <<>> /\ ~InWork /\ Lag' = 0
  <2>1. Len(responses) \in Nat \ {0} /\ Len(responses') = Len(responses) - 1
    BY <1>1, Takes
  <2>2. Len(requests) = 0 /\ ~InWork
    BY <1>1, <1>7, <2>1, Sizes DEF Lag, InWork
  <2>3. Lag' = 0
    BY <1>7, <2>1, <2>2 DEF Lag, InWork
  <2> QED BY <1>1, <2>2, <2>3, Sizes
<1>9. CallInv' /\ OwnInv' /\ call' \in CallShapes
  BY <1>1 DEF CallInv, OwnInv, CallShapes, Adapter!Idle, Waits
<1>10. PaceInv'
  <2>1. SetInv'
    BY <1>7, <1>8 DEF SetInv, Over
  <2>2. RestInv'
    BY <1>5 DEF RestInv
  <2> QED BY <1>1, <2>1, <2>2, PaceNext
<1>11. LiveInv'
  <2> SUFFICES ASSUME ~anonymous PROVE LiveInv'
    BY DEF LiveInv
  <2>1. \A t \in Sessions : context'[t] = "live" \/ t \in held' => t \in Adapter!Known'
    BY <1>4, <1>5 DEF AdInv, LiveInv
  <2>2. \A t \in Sessions : ~Stranded(t)'
    BY <1>1, <1>8, Sizes DEF Stranded, ToOpen, Asked, InWork
  <2> QED BY <2>1, <2>2 DEF LiveInv
<1>12. stopped' \in BOOLEAN /\ anonymous' \in BOOLEAN /\ call'.op # "cleaned"
  BY <1>1 DEF AdapterTypes, Adapter!Idle
<1> QED BY <1>1, <1>6, <1>9, <1>10, <1>11, <1>12, Waiting, CallerStep

\* An open that gets an answer that names no session and is no error.
LEMMA OpenMissedStep ==
  ASSUME AdInv, Waits("open"), responses # <<>>, responses' = Tail(responses),
         Head(responses).value \in {"ready", "done", "acted"}, Adapter!Returns,
         UNCHANGED <<fresh, known, stopped, anonymous, requests, worker, held, context, cleaned,
                     shut>>
  PROVE  AdInv'
<1>1. /\ AdapterTypes /\ ~shut /\ ~stopped /\ call.at = "wait" /\ call.at # "ready"
      /\ call' = Adapter!Idle /\ Adapter!Known' = Adapter!Known /\ call.op = "open"
  BY Waiting DEF Waits, Adapter!Returns, AdInv, CallInv, Adapter!Known
<1>2. OpenInv /\ SecondInv
  BY <1>1 DEF AdInv, PaceInv
<1>3. Head(responses) = responses[1] /\ 1 \in 1..Len(responses)
      /\ Len(responses) \in Nat \ {0} /\ Len(responses') = Len(responses) - 1
  BY <1>1, Takes
<1>4. Adapter!Known # {}
  BY <1>1, <1>2, <1>3 DEF OpenInv, Adapter!IsError
<1>5. Speaks
  BY <1>1 DEF Speaks, Asks, Hears, AdapterTypes, Plays
<1>6. Lag <= 2 /\ (Handy => Lag = 1) /\ ~Over
  BY <1>2, <1>3, <1>4 DEF SecondInv, Receipted, Receipts
<1>7. Lag' = Lag - 1 /\ Lag \in Nat
  BY <1>1, <1>3, Sizes DEF Lag, InWork
<1>8. CallInv' /\ OwnInv' /\ call' \in CallShapes
  BY <1>1 DEF CallInv, OwnInv, CallShapes, Adapter!Idle, Waits
<1>9. PaceInv'
  <2>1. SetInv'
    BY <1>1, <1>6, <1>7 DEF SetInv, Over, Handy
  <2>2. RestInv'
    BY <1>1, <1>4 DEF RestInv
  <2> QED BY <1>1, <2>1, <2>2, PaceNext
<1>10. LiveInv'
  BY <1>1, <1>4, <1>5, SecondLive
<1>11. stopped' \in BOOLEAN /\ anonymous' \in BOOLEAN /\ call'.op # "cleaned"
  BY <1>1 DEF AdapterTypes, Adapter!Idle
<1> QED BY <1>1, <1>5, <1>8, <1>9, <1>10, <1>11, Waiting, CallerStep

\* An open that gets what names a session that is not the one it asked for: the
\* tool closes that one at once.
LEMMA OpenMistakenStep ==
  ASSUME AdInv, Waits("open"), responses # <<>>, responses' = Tail(responses),
         Head(responses).value \in Naming, ~Adapter!IsHandle(Head(responses)),
         known' = [known EXCEPT ![Head(responses).s] = "usable"],
         Adapter!Send("close", Head(responses).s),
         UNCHANGED <<fresh, stopped, anonymous, worker, held, context, cleaned, shut>>
  PROVE  AdInv'
<1> DEFINE r == Head(responses)
<1>1. /\ AdapterTypes /\ ~shut /\ ~stopped /\ call.at = "wait" /\ call.at # "ready"
      /\ call.op = "open" /\ call.s \notin Adapter!Known
  BY Waiting DEF Waits, AdInv, CallInv
<1>2. /\ responses[1] = r /\ 1 \in 1..Len(responses) /\ responses' # responses
      /\ Len(responses) \in Nat \ {0} /\ Len(responses') = Len(responses) - 1
  BY <1>1, Takes
<1>3. r.s \in Sessions /\ Plays(r.s) /\ r.s \notin fresh
  <2>1. r.s \in Sessions /\ Plays(r.s)
    BY <1>1, AnswerNames
  <2>2. r.s \notin fresh
    BY <1>1, <1>2, FreshNowhere DEF AdInv
  <2> QED BY <2>1, <2>2
<1>4. Adapter!Known \subseteq {r.s}
  BY <1>3 DEF AdInv, OneInv, Plays, Adapter!Known
<1>5. Adapter!Known' = {r.s} /\ known' \in [Sessions -> {"no", "usable", "headed", "unusable"}]
  BY <1>1, <1>3, <1>4 DEF Adapter!Known, AdapterTypes
<1>6. /\ call' \in CallShapes /\ call'.at = "wait" /\ call'.op = "close" /\ call'.s = r.s
      /\ Len(requests') = Len(requests) + 1 /\ Len(requests) \in Nat
      /\ requests' = Append(requests, [op |-> "close", s |-> r.s]) /\ OwnInv'
  BY <1>1, <1>3, Sends DEF Adapter!Ops
<1>7. Speaks
  <2>1. Hears
    BY DEF Hears
  <2>2. \A t \in Sessions : known'[t] # "no" => Plays(t)
    BY <1>3, <1>5 DEF Adapter!Known
  <2>3. Asks
    BY <1>3, <1>6 DEF Asks, Adapter!Ops, Adapter!UseOps
  <2> QED BY <1>5, <2>1, <2>2, <2>3 DEF Speaks
<1>8. CallInv'
  BY <1>3, <1>5, <1>6 DEF CallInv, Waits, Adapter!Ops
<1>9. CASE Adapter!Known = {}
  <2>1. OpenInv
    BY <1>1 DEF AdInv, PaceInv
  <2>2. /\ r.value = "handle" /\ held = {r.s} /\ ~Over /\ r.s # call.s
        /\ \A j \in 1..Len(responses) : responses[j].value = "handle" => j = 1
    <3>1. r.value = "handle" /\ held = {r.s} /\ ~Over
          /\ \A j \in 1..Len(responses) : responses[j].value = "handle" => j = 1
      BY <1>1, <1>2, <1>9, <2>1 DEF OpenInv, Naming, Receipts, Adapter!IsError
    <3> QED BY <3>1 DEF Adapter!IsHandle
  <2>3. NextIsError'
    <3>1. CASE responses' # <<>>
      <4>1. Head(responses') = responses[2] /\ 2 \in 1..Len(responses)
        BY <1>1, <3>1, Takes
      <4>2. Adapter!IsError(responses[2])
        BY <1>1, <1>9, <2>1, <2>2, <4>1 DEF OpenInv
      <4> QED BY <3>1, <4>1, <4>2 DEF NextIsError, Adapter!IsError
    <3>2. CASE responses' = <<>> /\ InWork
      BY <1>1, <1>9, <2>1, <2>2, <3>2 DEF OpenInv, NextIsError, Refused, InWork
    <3>3. CASE responses' = <<>> /\ ~InWork
      <4>1. worker.at \in {"loop", "pumping"}
        BY <1>1, <2>2, <3>3, Waiting DEF Over, InWork, AdInv, AdapterTypes
      <4>2. Len(responses) = 1
        BY <1>1, <3>3, Takes
      <4>3. requests # <<>>
        BY <1>1, <1>2, <2>2, <3>3, <4>2 DEF AdInv, OwnInv
      <4>4. /\ requests' # <<>> /\ Head(requests') = Head(requests)
            /\ Head(requests) = requests[1] /\ 1 \in 1..Len(requests)
        <5>1. [op |-> "close", s |-> r.s] \in Adapter!Requests
          BY <1>3 DEF Adapter!Requests, Adapter!Ops
        <5> QED BY <1>1, <1>6, <4>3, <5>1, FirstStays
      <4>5. Refused(Head(requests))
        BY <1>1, <1>9, <2>1, <4>4 DEF OpenInv
      <4>6. (Head(requests').op = "open" \/ Head(requests').s \notin held') /\ held' # {}
        BY <2>2, <4>4, <4>5 DEF Refused
      <4> QED BY <3>3, <4>1, <4>4, <4>6 DEF NextIsError, Refused
    <3> QED BY <3>1, <3>2, <3>3
  <2>4. PaceInv'
    BY <1>6, <2>3, PaceNext DEF CloseInv
  <2>5. LiveInv'
    BY <1>3, <1>9, <2>2 DEF AdInv, LiveInv
  <2> QED BY <1>1, <1>2, <1>6, <1>7, <1>8, <2>4, <2>5, Waiting, CallerStep DEF AdapterTypes
<1>10. CASE Adapter!Known # {}
  <2>1. Lag <= 2 /\ (Over => Receipted(1))
    BY <1>1, <1>10 DEF AdInv, PaceInv, SecondInv
  <2>2. CloseInv'
    <3>1. Lag' <= 2
      <4>1. Lag' = Lag
        <5> DEFINE m == Len(requests)
                   n == Len(responses)
        <5>1. m \in Nat /\ n \in Nat
          BY <1>1, Sizes
        <5>2. Lag = m + n + (IF InWork THEN 1 ELSE 0) /\ InWork' = InWork
          BY DEF Lag, InWork
        <5>3. Lag' = (m + 1) + (n - 1) + (IF InWork' THEN 1 ELSE 0)
          BY <1>2, <1>6 DEF Lag
        <5> HIDE DEF m, n
        <5> QED BY <5>1, <5>2, <5>3
      <4> QED BY <2>1, <4>1
    <3>2. Over' => responses' = <<>>
      BY <1>1, <2>1, Takes DEF Over, Receipted
    <3> QED BY <3>1, <3>2 DEF CloseInv
  <2>3. PaceInv'
    BY <1>6, <2>2, PaceNext
  <2>4. LiveInv'
    BY <1>1, <1>3, <1>4, <1>5, <1>6, <1>7, <1>10, SecondLive
  <2> QED BY <1>1, <1>2, <1>6, <1>7, <1>8, <2>3, <2>4, Waiting, CallerStep DEF AdapterTypes
<1> QED BY <1>9, <1>10

\* observe, execute or a takeover that ends, with an answer or without one.
LEMMA UseEnds ==
  ASSUME AdInv, call.at = "wait", call.op \in Adapter!UseOps, Adapter!Returns, Hears,
         known' \in [Sessions -> {"no", "usable", "headed", "unusable"}],
         \A t \in Sessions : known'[t] # "no" <=> known[t] # "no",
         responses' # responses \/ known'[call.s] = "unusable",
         UNCHANGED <<fresh, stopped, anonymous, requests, worker, held, context, cleaned, shut>>
  PROVE  AdInv'
<1>1. /\ AdapterTypes /\ ~shut /\ call.at # "ready" /\ call' = Adapter!Idle /\ Adapter!Known = {call.s}
      /\ ~Waits("open")
  BY Waiting DEF Waits, Adapter!Returns, AdInv, CallInv, Adapter!UseOps
<1>2. Adapter!Known' = Adapter!Known
  BY DEF Adapter!Known
<1>3. Speaks
  BY DEF Speaks, Asks, Plays
<1>4. CallInv' /\ OwnInv' /\ call' \in CallShapes
  BY <1>1 DEF CallInv, OwnInv, CallShapes, Adapter!Idle, Waits
<1>5. PaceInv'
  <2>1. ASSUME ~stopped PROVE SetInv'
    <3>1. Lag = 1 /\ ~Over
      BY <1>1, <2>1 DEF AdInv, PaceInv, UseInv
    <3>2. ~Over'
      BY <3>1 DEF Over
    <3>3. CASE responses # <<>> /\ responses' = Tail(responses)
      <4>1. Len(responses) \in Nat \ {0} /\ Len(responses') = Len(responses) - 1
        BY <1>1, <3>3, Takes
      <4>2. Lag' = Lag - 1
        BY <1>1, <4>1, Sizes DEF Lag, InWork
      <4> QED BY <3>1, <3>2, <4>2 DEF SetInv
    <3>4. CASE responses' = responses
      <4>1. ~Handy'
        BY <1>1, <1>2, <3>4 DEF Handy, Adapter!Known
      <4>2. Lag' = Lag
        BY <3>4 DEF Lag, InWork
      <4> QED BY <3>1, <3>2, <4>1, <4>2 DEF SetInv
    <3> QED BY <3>3, <3>4 DEF Hears
  <2>2. RestInv'
    BY <1>1, <1>2 DEF RestInv
  <2> QED BY <1>1, <2>1, <2>2, PaceNext DEF PaceInv
<1>6. LiveInv'
  BY <1>1, <1>2, <1>3, LiveKeeps
<1> QED BY <1>1, <1>3, <1>4, <1>5, <1>6, Waiting, CallerStep DEF AdapterTypes, Adapter!Idle

\* A close whose outcome stays unknown, or was read from the receipt of an action.
LEMMA CloseUnknownStep ==
  ASSUME AdInv, Waits("close"), Hears, NEW v \in {"unknown", "acted"}, Adapter!CloseGoesOn(v),
         UNCHANGED <<fresh, worker, held, context, cleaned, shut>>
  PROVE  AdInv'
<1>1. /\ AdapterTypes /\ ~shut /\ call.at = "wait" /\ call.at # "ready"
      /\ ~Waits("open") /\ Adapter!Known = {call.s} /\ call.s \in Sessions
  BY Waiting DEF Waits, AdInv, CallInv
<1>2. /\ known' = [known EXCEPT ![call.s] = "unusable"] /\ stopped' = TRUE
      /\ call' = [at |-> "join", op |-> v, s |-> call.s] /\ UNCHANGED <<anonymous, requests>>
  BY DEF Adapter!CloseGoesOn, Adapter!In
<1>3. /\ known' \in [Sessions -> {"no", "usable", "headed", "unusable"}]
      /\ \A t \in Sessions : known'[t] # "no" <=> known[t] # "no"
  BY <1>1, <1>2 DEF AdapterTypes, Adapter!Known
<1>4. Speaks /\ Adapter!Known' = Adapter!Known
  BY <1>2, <1>3 DEF Speaks, Asks, Plays, Adapter!Known
<1>5. CallInv' /\ OwnInv' /\ call' \in CallShapes /\ PaceInv'
  <2>1. CallInv' /\ OwnInv' /\ call' \in CallShapes
    BY <1>1, <1>2 DEF CallInv, OwnInv, CallShapes, Adapter!Idle, Waits
  <2> QED BY <1>2, <2>1, PaceNext
<1>6. LiveInv'
  BY <1>1, <1>2, <1>4, LiveKeeps
<1> QED BY <1>1, <1>2, <1>4, <1>5, <1>6, CallerStep DEF AdapterTypes

\* A close whose answer says CLEANED: it is the last one of a worker that is done.
LEMMA CloseCleanedStep ==
  ASSUME AdInv, Waits("close"), responses # <<>>, responses' = Tail(responses),
         Head(responses).value = "cleaned", Adapter!CloseGoesOn("cleaned"),
         UNCHANGED <<fresh, worker, held, context, cleaned, shut>>
  PROVE  AdInv'
<1> DEFINE s == call.s
           r == Head(responses)
<1>1. /\ AdapterTypes /\ ~shut /\ call.at = "wait" /\ call.at # "ready"
      /\ ~Waits("open") /\ Adapter!Known = {s} /\ s \in Sessions
  BY Waiting DEF Waits, AdInv, CallInv
<1>2. /\ known' = [known EXCEPT ![s] = "no"] /\ stopped' = TRUE
      /\ call' = [at |-> "join", op |-> "cleaned", s |-> s] /\ UNCHANGED <<anonymous, requests>>
  BY DEF Adapter!CloseGoesOn, Adapter!In
<1>3. responses[1] = r /\ 1 \in 1..Len(responses) /\ r \in Replies /\ responses' # responses
  BY <1>1, Takes
<1>4. responses' = <<>> /\ Over /\ held = {}
  <2>1. 1 = Len(responses) /\ Over /\ held = {}
    BY <1>1, <1>3 DEF AdInv, ReceiptInv, Receipts
  <2> QED BY <1>1, <2>1, Takes
<1>5. r = Adapter!Answer("close", s, "cleaned")
  <2>1. r.s \in Sessions /\ Plays(r.s) /\ Plays(s)
    BY <1>1, AnswerNames DEF Plays, Adapter!Known, Naming, Receipts
  <2>2. r.s = s
    BY <1>1, <2>1 DEF AdInv, OneInv
  <2> QED BY <1>3, <2>2 DEF Replies, Fits, Adapter!Answer, Adapter!UseOps, Adapter!Ops, Receipts
<1>6. ToldClean(s) /\ Done(s)
  <2>1. ToldClean(s)
    BY <1>3, <1>5 DEF ToldClean
  <2> QED BY <1>1, <2>1 DEF AdInv, DoneInv
<1>7. known' \in [Sessions -> {"no", "usable", "headed", "unusable"}] /\ Adapter!Known' = {}
  BY <1>1, <1>2 DEF AdapterTypes, Adapter!Known
<1>8. Speaks
  BY <1>2, <1>7 DEF Speaks, Asks, Hears, Adapter!Known
<1>9. CallInv' /\ OwnInv' /\ call' \in CallShapes /\ PaceInv'
  <2>1. CallInv' /\ OwnInv' /\ call' \in CallShapes
    BY <1>1, <1>2 DEF CallInv, OwnInv, CallShapes, Adapter!Idle, Waits
  <2> QED BY <1>2, <2>1, PaceNext
<1>10. LiveInv'
  <2> SUFFICES ASSUME ~anonymous PROVE LiveInv'
    BY <1>2 DEF LiveInv
  <2>1. \A t \in Sessions : ~(context'[t] = "live" \/ t \in held')
    BY <1>1, <1>4, <1>6 DEF AdInv, LiveInv, Done
  <2>2. ASSUME NEW t \in Sessions, Stranded(t)' PROVE FALSE
    <3>1. Stranded(t)
      BY <1>1, <1>2, <2>2 DEF Stranded, ToOpen, Asked, InWork
    <3> QED BY <1>1, <1>6, <3>1 DEF AdInv, LiveInv
  <2> QED BY <2>1, <2>2 DEF LiveInv
<1>11. call'.at = "join" /\ call'.s = s /\ stopped' \in BOOLEAN /\ anonymous' \in BOOLEAN
  BY <1>1, <1>2 DEF AdapterTypes
<1> QED BY <1>1, <1>2, <1>3, <1>4, <1>6, <1>7, <1>8, <1>9, <1>10, <1>11, CallerStep

\* A close that raises on an answer that is no receipt, and tells nobody to stop.
LEMMA CloseRaisesStep ==
  ASSUME AdInv, Waits("close"), responses # <<>>, responses' = Tail(responses),
         ~Adapter!IsError(Head(responses)), Head(responses).value \notin Receipts, Adapter!CloseRaises,
         UNCHANGED <<fresh, worker, held, context, cleaned, shut>>
  PROVE  AdInv'
<1>1. /\ AdapterTypes /\ ~shut /\ call.at = "wait" /\ call.at # "ready"
      /\ ~Waits("open") /\ Adapter!Known = {call.s} /\ call.s \in Sessions
  BY Waiting DEF Waits, AdInv, CallInv
<1>2. /\ known' = [known EXCEPT ![call.s] = "unusable"] /\ call' = Adapter!Idle
      /\ UNCHANGED <<stopped, anonymous, requests>>
  BY DEF Adapter!CloseRaises, Adapter!Returns
<1>3. /\ known' \in [Sessions -> {"no", "usable", "headed", "unusable"}]
      /\ \A t \in Sessions : known'[t] # "no" <=> known[t] # "no"
      /\ known'[call.s] = "unusable"
  BY <1>1, <1>2 DEF AdapterTypes, Adapter!Known
<1>4. Speaks /\ Adapter!Known' = Adapter!Known
  BY <1>2, <1>3 DEF Speaks, Asks, Hears, Plays, Adapter!Known
<1>5. CallInv' /\ OwnInv' /\ call' \in CallShapes
  BY <1>2 DEF CallInv, OwnInv, CallShapes, Adapter!Idle, Waits
<1>6. PaceInv'
  <2>1. ASSUME ~stopped PROVE SetInv'
    <3>1. Lag <= 2 /\ (Over => requests = <<>> /\ Receipted(2))
      BY <2>1 DEF AdInv, PaceInv, CloseInv, NextIsError
    <3>2. Len(responses) \in Nat \ {0} /\ Len(responses') = Len(responses) - 1
      BY <1>1, Takes
    <3>3. Lag' = Lag - 1 /\ Lag \in Nat
      BY <1>1, <1>2, <3>2, Sizes DEF Lag, InWork
    <3>4. ~Handy'
      BY <1>1, <1>3, <1>4 DEF Handy, Adapter!Known
    <3>5. ASSUME Over' PROVE requests' = <<>> /\ Receipted(1)'
      <4>1. requests = <<>> /\ Len(responses) = 2 /\ responses[2].value \in Receipts
        BY <3>1, <3>5 DEF Over, Receipted
      <4>2. responses' # <<>> /\ Len(responses') = 1
        BY <1>1, <3>2, <4>1, Takes
      <4>3. responses'[1] = responses[2]
        BY <1>1, <4>2, Takes
      <4> QED BY <1>2, <4>1, <4>2, <4>3 DEF Receipted
    <3> QED BY <3>1, <3>3, <3>4, <3>5 DEF SetInv
  <2>2. RestInv'
    BY <1>1, <1>4 DEF RestInv
  <2> QED BY <1>2, <2>1, <2>2, PaceNext DEF PaceInv
<1>7. LiveInv'
  BY <1>1, <1>2, <1>4, LiveKeeps
<1> QED BY <1>1, <1>2, <1>4, <1>5, <1>6, <1>7, Waiting, CallerStep DEF AdapterTypes, Adapter!Idle

LEMMA Poisoned ==
  ASSUME AdapterTypes, call.s \in Adapter!Known, call.s \in Sessions,
         known' = known \/ (\E v \in {"usable", "headed", "unusable"} : known' = [known EXCEPT ![call.s] = v])
  PROVE  /\ known' \in [Sessions -> {"no", "usable", "headed", "unusable"}]
         /\ \A t \in Sessions : known'[t] # "no" <=> known[t] # "no"
<1>1. known \in [Sessions -> {"no", "usable", "headed", "unusable"}] /\ known[call.s] # "no"
  BY DEF AdapterTypes, Adapter!Known
<1>2. CASE known' = known
  BY <1>1, <1>2
<1>3. ASSUME NEW v \in {"usable", "headed", "unusable"}, known' = [known EXCEPT ![call.s] = v]
      PROVE  /\ known' \in [Sessions -> {"no", "usable", "headed", "unusable"}]
             /\ \A t \in Sessions : known'[t] # "no" <=> known[t] # "no"
  <2>1. v # "no"
    BY <1>3
  <2>2. \A t \in Sessions : known'[t] = IF t = call.s THEN v ELSE known[t]
    BY <1>1, <1>3
  <2>3. known' \in [Sessions -> {"no", "usable", "headed", "unusable"}]
    BY <1>1, <1>3
  <2> QED BY <1>1, <2>1, <2>2, <2>3
<1> QED BY <1>2, <1>3

LEMMA ReceiveStep ==
  ASSUME AdInv, Adapter!Receive
  PROVE  AdInv'
<1> DEFINE r == Head(responses)
<1>1. /\ call.at = "wait" /\ responses # <<>> /\ responses' = Tail(responses)
      /\ UNCHANGED <<fresh, worker, held, context, cleaned, shut>>
  BY DEF Adapter!Receive, Adapter!Taken, Adapter!thread, Adapter!ghosts
<1>2. /\ AdapterTypes /\ call.op \in Adapter!Ops /\ call.s \in Sessions
      /\ Hears /\ responses' # responses /\ r \in Replies /\ r.value \in Adapter!Values
  BY <1>1, Waiting, Takes DEF Replies
<1>3. CASE call.op = "open"
  <2>1. IF Adapter!IsError(r) THEN Adapter!OpenFails ELSE Adapter!OpenReturns(r)
    BY <1>3 DEF Adapter!Receive, Adapter!UseOps
  <2>2. CASE Adapter!IsError(r)
    BY <1>1, <1>2, <2>1, <2>2, OpenFailsStep
  <2>3. CASE ~Adapter!IsError(r) /\ r.value \in Naming /\ Adapter!IsHandle(r)
    BY <1>1, <1>3, <2>1, <2>3, OpenedStep DEF Adapter!OpenReturns, Naming, Receipts,
       Adapter!IsHandle, Waits
  <2>4. CASE ~Adapter!IsError(r) /\ r.value \in Naming /\ ~Adapter!IsHandle(r)
    BY <1>1, <1>3, <2>1, <2>4, OpenMistakenStep DEF Adapter!OpenReturns, Naming, Receipts, Waits
  <2>5. CASE ~Adapter!IsError(r) /\ r.value \notin Naming
    <3>1. r.value \in {"ready", "done", "acted"}
      BY <1>2, <2>5 DEF Adapter!IsError, Naming, Receipts, Adapter!Values
    <3>2. Adapter!Returns /\ UNCHANGED <<known, requests, stopped, anonymous>>
      BY <2>1, <2>5, <3>1 DEF Adapter!OpenReturns
    <3> QED BY <1>1, <1>3, <3>1, <3>2, OpenMissedStep DEF Waits
  <2> QED BY <2>2, <2>3, <2>4, <2>5
<1>4. CASE call.op \in Adapter!UseOps
  <2>1. call.op # "open" /\ call.op # "close"
    BY <1>4 DEF Adapter!UseOps
  <2>2. IF Adapter!IsError(r) THEN Adapter!UseFails(r.value = "error") ELSE Adapter!UseReturns
    BY <1>4, <2>1 DEF Adapter!Receive
  <2>3. /\ Adapter!Returns /\ UNCHANGED <<stopped, anonymous, requests>>
        /\ known' = known
             \/ (\E v \in {"usable", "headed", "unusable"} : known' = [known EXCEPT ![call.s] = v])
    BY <2>2 DEF Adapter!UseFails, Adapter!UseReturns, Adapter!Poison
  <2>4. call.s \in Adapter!Known
    BY <1>1, <2>1 DEF AdInv, CallInv
  <2>5. /\ known' \in [Sessions -> {"no", "usable", "headed", "unusable"}]
        /\ \A t \in Sessions : known'[t] # "no" <=> known[t] # "no"
    BY <1>2, <2>3, <2>4, Poisoned
  <2> QED BY <1>1, <1>2, <1>4, <2>3, <2>5, UseEnds
<1>5. CASE call.op = "close"
  <2>1. IF Adapter!IsError(r) \/ r.value = "ready" THEN Adapter!CloseGoesOn("unknown")
        ELSE IF ~Adapter!HasOutcome(r) THEN Adapter!CloseRaises
        ELSE Adapter!CloseGoesOn(r.value)
    BY <1>5 DEF Adapter!Receive, Adapter!UseOps
  <2>2. CASE \E v \in {"unknown", "acted"} : Adapter!CloseGoesOn(v)
    BY <1>1, <1>2, <1>5, <2>2, CloseUnknownStep DEF Waits
  <2>3. CASE Adapter!CloseRaises /\ ~Adapter!IsError(r) /\ ~Adapter!HasOutcome(r)
    BY <1>1, <1>5, <2>3, CloseRaisesStep DEF Waits, Adapter!HasOutcome, Receipts
  <2>4. CASE Adapter!CloseGoesOn("cleaned") /\ r.value = "cleaned"
    BY <1>1, <1>5, <2>4, CloseCleanedStep DEF Waits
  <2> QED BY <2>1, <2>2, <2>3, <2>4 DEF Adapter!HasOutcome
<1> QED BY <1>2, <1>3, <1>4, <1>5 DEF Adapter!Ops

LEMMA TimeOutStep ==
  ASSUME AdInv, Adapter!TimeOut
  PROVE  AdInv'
<1>1. /\ call.at = "wait" /\ responses' = responses /\ Hears
      /\ UNCHANGED <<fresh, worker, held, context, cleaned, shut>>
  BY DEF Adapter!TimeOut, Adapter!thread, Adapter!ghosts, Hears
<1>2. AdapterTypes /\ call.op \in Adapter!Ops /\ call.s \in Sessions
  BY <1>1, Waiting
<1>3. CASE call.op = "open"
  BY <1>1, <1>3, OpenFailsStep DEF Adapter!TimeOut, Adapter!UseOps
<1>4. CASE call.op \in Adapter!UseOps
  <2>1. call.op # "open" /\ call.op # "close"
    BY <1>4 DEF Adapter!UseOps
  <2>2. Adapter!UseFails(TRUE)
    BY <1>4, <2>1 DEF Adapter!TimeOut
  <2>3. /\ Adapter!Returns /\ UNCHANGED <<stopped, anonymous, requests>>
        /\ known' = [known EXCEPT ![call.s] = "unusable"]
    BY <2>2 DEF Adapter!UseFails, Adapter!Poison
  <2>4. call.s \in Adapter!Known
    BY <1>1, <2>1 DEF AdInv, CallInv
  <2>5. /\ known' \in [Sessions -> {"no", "usable", "headed", "unusable"}]
        /\ \A t \in Sessions : known'[t] # "no" <=> known[t] # "no"
    BY <1>2, <2>3, <2>4, Poisoned
  <2>6. known'[call.s] = "unusable"
    BY <1>2, <2>3 DEF AdapterTypes
  <2> QED BY <1>1, <1>4, <2>3, <2>5, <2>6, UseEnds
<1>5. CASE call.op = "close"
  <2>1. Adapter!CloseGoesOn("unknown")
    BY <1>5 DEF Adapter!TimeOut, Adapter!UseOps
  <2> QED BY <1>1, <1>5, <2>1, CloseUnknownStep DEF Waits
<1> QED BY <1>2, <1>3, <1>4, <1>5 DEF Adapter!Ops

LEMMA JoinStep ==
  ASSUME AdInv, Adapter!Join
  PROVE  AdInv'
<1>1. /\ call.at = "join" /\ stopped /\ call' = Adapter!Idle /\ call.at # "ready" /\ ~Waits("open")
      /\ UNCHANGED <<fresh, known, anonymous, requests, responses, worker, held, context, shut>>
      /\ AdapterTypes /\ ~shut /\ Adapter!Known' = Adapter!Known
  BY DEF Adapter!Join, Adapter!Returns, Adapter!thread, AdInv, CallInv, ShutInv, Adapter!Idle,
     Waits, Adapter!Known
<1>2. CASE UNCHANGED <<stopped, cleaned>>
  <2>1. Speaks
    BY <1>1 DEF Speaks, Asks, Hears, AdapterTypes, Plays
  <2>2. CallInv' /\ OwnInv' /\ call' \in CallShapes
    BY <1>1 DEF CallInv, OwnInv, CallShapes, Adapter!Idle, Waits
  <2>3. PaceInv'
    BY <1>1, <1>2, PaceNext
  <2>4. LiveInv'
    BY <1>1, <2>1, LiveKeeps
  <2> QED BY <1>1, <1>2, <2>1, <2>2, <2>3, <2>4, CallerStep DEF AdapterTypes, Adapter!Idle
<1>3. CASE call.op = "cleaned" /\ worker.at = "gone"
           /\ stopped' = FALSE /\ cleaned' = cleaned \cup {call.s}
  <2>1. Adapter!Known = {} /\ responses = <<>> /\ Over /\ held = {} /\ call.s \in Sessions /\ Done(call.s)
    BY <1>3 DEF AdInv, DoneInv
  <2>2. /\ \A t : Asked(t)' = Asked(t)
        /\ \A t : ToOpen(t)' = ToOpen(t)
        /\ \A t : Named(t)' = Named(t)
        /\ \A t : Plays(t)' = Plays(t)
        /\ \A t : Done(t)' = Done(t)
        /\ \A t : ToldClean(t)' = ToldClean(t)
    BY <1>1 DEF Asked, ToOpen, Named, Plays, Done, ToldClean, InWork
  <2>3. AdapterTypes'
    BY <1>1, <1>3, <2>1 DEF AdapterTypes, CallShapes, Adapter!Idle
  <2>4. CallInv' /\ OwnInv'
    BY <1>1 DEF CallInv, OwnInv, Adapter!Idle, Waits
  <2>5. ThreadInv'
    BY <1>1, <1>3, <2>1 DEF ThreadInv, InWork
  <2>6. BornInv'
    BY <1>1, <2>2 DEF AdInv, BornInv, Unborn, Adapter!Known, InWork
  <2>7. OneInv'
    BY <2>2 DEF AdInv, OneInv
  <2>8. NewInv'
    BY <1>1, <1>3 DEF NewInv
  <2>9. ReceiptInv'
    BY <1>1, <2>1 DEF ReceiptInv
  <2>10. DoneInv'
    BY <1>1, <1>3, <2>1, <2>2 DEF AdInv, DoneInv, Adapter!Idle
  <2>11. PaceInv'
    <3>1. RestInv' /\ SetInv'
      BY <1>1, <1>3, <2>1 DEF RestInv, SetInv
    <3> QED BY <1>1, <3>1, PaceNext
  <2>12. LiveInv'
    BY <1>1, <2>2 DEF AdInv, LiveInv, Stranded, Waits, Adapter!Idle, InWork
  <2>13. ShutInv'
    BY <1>1 DEF ShutInv
  <2> QED BY <2>3, <2>4, <2>5, <2>6, <2>7, <2>8, <2>9, <2>10, <2>11, <2>12, <2>13 DEF AdInv
<1> QED BY <1>2, <1>3 DEF Adapter!Join, Adapter!Alive

\* A shutdown begins and ends: it returns without an error when nothing has failed,
\* so that what is known was misread, and nothing else can be alive.
LEMMA ShutdownStep ==
  ASSUME AdInv, ExitInv, Adapter!Shutdown \/ Adapter!ShutdownReturns
  PROVE  AdInv'
<1>1. UNCHANGED <<call, fresh, known, stopped, anonymous, requests, responses, worker, held,
                  context, cleaned, misread>> /\ shut' \in BOOLEAN
  BY DEF Adapter!Shutdown, Adapter!ShutdownReturns, Adapter!thread, Adapter!ghosts, AdInv,
     AdapterTypes
<1>2. ASSUME shut'
      PROVE  /\ ~closing'.on /\ call = Adapter!Idle /\ worker.at = "gone"
             /\ Adapter!Live \subseteq misread
  <2>1. /\ call = Adapter!Idle /\ closing.on /\ closing.todo = {} /\ ~closing.failed
        /\ worker.at = "gone" /\ ~closing'.on
    <3>1. Adapter!ShutdownReturns
      BY <1>2 DEF Adapter!Shutdown, Adapter!ghosts
    <3>2. closing'.on = FALSE /\ call = Adapter!Idle /\ closing.on /\ closing.todo = {}
      BY <3>1 DEF Adapter!ShutdownReturns, Adapter!Off
    <3>3. ~(closing.failed \/ Adapter!Alive)
      BY <1>2, <3>1 DEF Adapter!ShutdownReturns
    <3> QED BY <3>2, <3>3 DEF Adapter!Alive
  <2>2. ~anonymous /\ Adapter!Known \subseteq misread
    BY <2>1 DEF ExitInv, Adapter!Known
  <2>3. Adapter!Live \subseteq Adapter!Known
    BY <2>1, <2>2 DEF AdInv, AdapterTypes, LiveInv, Adapter!Live, Waits, Adapter!Idle
  <2> QED BY <2>1, <2>2, <2>3
<1>3. ShutInv'
  BY <1>1, <1>2 DEF ShutInv, Adapter!Live
<1>4. AdapterTypes' /\ CallInv' /\ ThreadInv'
  BY <1>1 DEF AdInv, AdapterTypes, CallInv, ThreadInv, InWork, Waits, Adapter!Known
<1>5. BornInv' /\ OneInv' /\ NewInv' /\ ReceiptInv'
  BY <1>1 DEF AdInv, BornInv, OneInv, NewInv, ReceiptInv, ToOpen, Unborn, Asked, InWork,
     Adapter!Known, Plays,
     Named, Over
<1>6. DoneInv' /\ OwnInv'
  BY <1>1 DEF AdInv, DoneInv, OwnInv, Done, ToldClean, ToOpen, Asked, InWork, Over,
     Adapter!Known, Own
<1>7. PaceInv'
  <2>1. PaceInv' = PaceInv
    BY <1>1 DEF PaceInv, RestInv, OpenInv, SetInv, StartInv, SecondInv, UseInv, CloseInv,
       Adapter!Known, Waits,
       Over, Lag, InWork, Handy, Receipted, Refused, FirstIsNot, NextIsError, Adapter!IsError
  <2> QED BY <2>1 DEF AdInv
<1>8. LiveInv'
  BY <1>1 DEF AdInv, LiveInv, Stranded, ToOpen, Asked, InWork, Waits, Adapter!Known, ToldClean
<1> QED BY <1>3, <1>4, <1>5, <1>6, <1>7, <1>8 DEF AdInv

-----------------------------------------------------------------------------
(* The steps of the worker                                                 *)

LEMMA ReadyStep ==
  ASSUME AdInv, Adapter!Ready
  PROVE  AdInv'
<1> DEFINE n == Len(responses)
<1>1. PICK v \in {"ready", "error"}, w \in {"loop", "gone"} :
        /\ worker.at = "starting" /\ (v = "ready" <=> w = "loop")
        /\ responses' = Append(responses, [op |-> "ready", s |-> NoOne, value |-> v])
        /\ worker' = [at |-> w, req |-> Adapter!NoRequest]
        /\ UNCHANGED <<call, fresh, known, stopped, anonymous, requests, held, context, cleaned, shut>>
  BY DEF Adapter!Ready, Adapter!Put, Adapter!At, Adapter!Answer, Adapter!adapter, Adapter!ghosts
<1> DEFINE r == [op |-> "ready", s |-> NoOne, value |-> v]
<1>2. r \in Replies
  BY <1>1 DEF Replies, Fits, Adapter!Values, Adapter!UseOps, Adapter!Ops, Receipts
<1>3. /\ responses' \in Seq(Replies) /\ responses' # <<>> /\ n \in Nat /\ Len(responses') = n + 1
      /\ responses'[n + 1] = r /\ \A i \in 1..n : responses'[i] = responses[i]
  <2>1. responses \in Seq(Replies) /\ responses' = Append(responses, r)
    BY <1>1 DEF AdInv, AdapterTypes
  <2> HIDE DEF r
  <2> QED BY <1>2, <2>1, OnAppend
<1> HIDE DEF n
<1>4. \A i \in 1..Len(responses') : i \in 1..n \/ i = n + 1
  BY <1>3
<1>5. ~InWork /\ ~InWork' /\ held = {} /\ ~Over /\ ~shut /\ Adapter!Known' = Adapter!Known
  BY <1>1 DEF InWork, Over, AdInv, ThreadInv, ShutInv, Adapter!Known
<1>6. \A i \in 1..Len(responses') : \/ i \in 1..n /\ responses'[i] = responses[i]
                                    \/ i = n + 1 /\ responses'[i] = r
  BY <1>3, <1>4
<1>7. \A i \in 1..n : i \in 1..Len(responses')
  BY <1>3
<1>8. /\ \A t : Asked(t)' = Asked(t)
      /\ \A t : ToOpen(t)' = ToOpen(t)
      /\ \A t : Done(t)' = Done(t)
  BY <1>1, <1>5 DEF Asked, ToOpen, Done
<1>9. \A t : Named(t)' => Named(t)
  BY <1>1, <1>6 DEF Named, Naming, Receipts, n
<1>10. \A t : Plays(t)' => Plays(t)
  BY <1>1, <1>9 DEF Plays
<1>11. \A t : ToldClean(t)' => ToldClean(t)
  BY <1>1, <1>6 DEF ToldClean, Adapter!Answer, n
<1>12. AdapterTypes'
  BY <1>1, <1>3 DEF AdInv, AdapterTypes, Adapter!NoRequest
<1>13. CallInv'
  BY <1>1, <1>5 DEF AdInv, CallInv, Waits
<1>14. ThreadInv'
  BY <1>1, <1>5 DEF ThreadInv
<1>15. BornInv'
  <2>1. ASSUME NEW t \in Sessions, Unborn(t) PROVE Unborn(t)'
    BY <1>1, <1>2, <1>5, <1>6, <2>1, BrowserAssumption DEF Unborn, n
  <2> QED BY <1>1, <1>5, <1>8, <2>1 DEF AdInv, BornInv
<1>16. OneInv'
  BY <1>10 DEF AdInv, OneInv
<1>17. NewInv'
  BY <1>1, <1>5, <1>10 DEF AdInv, NewInv
<1>18. ReceiptInv'
  <2> SUFFICES ASSUME NEW i \in 1..Len(responses'), responses'[i].value \in Receipts
               PROVE  i = 1 /\ call'.at = "ready"
    BY DEF ReceiptInv
  <2>1. i \in 1..Len(responses) /\ responses[i].value \in Receipts
    BY <1>1, <1>6 DEF Receipts, n
  <2> QED BY <1>1, <1>5, <2>1 DEF AdInv, ReceiptInv
<1>19. DoneInv'
  BY <1>1, <1>5, <1>8, <1>11 DEF AdInv, DoneInv
<1>20. OwnInv'
  BY <1>1, <1>5 DEF AdInv, OwnInv, Own
<1>21. PaceInv'
  <2> SUFFICES ASSUME ~stopped PROVE PaceInv'
    BY <1>1 DEF PaceInv
  <2>1. call.at = "ready" /\ OpenInv /\ StartInv
    BY <1>1 DEF AdInv, ThreadInv, PaceInv
  <2>2. OpenInv'
    <3> SUFFICES ASSUME Adapter!Known = {} PROVE OpenInv'
      BY <1>5 DEF OpenInv
    <3>1. responses = <<>>
      BY <1>1, <2>1 DEF OpenInv
    <3>2. n = 0 /\ responses'[1] = r /\ Len(responses') = 1
      BY <1>3, <3>1 DEF n
    <3>3. Head(responses') = r
      BY <1>3, <3>2, OnTail
    <3>4. \A i \in 1..Len(responses') : i = 1
      BY <3>2
    <3>5. \A i \in 1..Len(responses') : Adapter!IsError(responses'[i]) \/ (responses'[i].value = "ready" /\ call'.at = "ready" /\ i = 1)
      BY <1>1, <2>1, <3>2, <3>4 DEF Adapter!IsError
    <3>6. \A i \in 1..Len(requests') : Refused(requests[i])'
      BY <1>1, <1>5 DEF Refused
    <3> QED BY <1>1, <1>3, <1>5, <2>1, <3>3, <3>5, <3>6 DEF OpenInv
  <2>3. StartInv'
    <3> SUFFICES ASSUME Adapter!Known # {} PROVE StartInv'
      BY <1>5 DEF StartInv
    <3>1. requests = <<>> /\ responses # <<>> /\ Head(responses).value \in Receipts
      BY <2>1 DEF StartInv
    <3>2. Head(responses) = responses[1] /\ 1 \in 1..Len(responses)
      BY <3>1, OnTail DEF AdInv, AdapterTypes
    <3>3. Head(responses') = responses'[1]
      BY <1>3, OnTail
    <3> QED BY <1>1, <1>3, <3>1, <3>2, <3>3 DEF StartInv, n
  <2> QED BY <1>1, <2>1, <2>2, <2>3, PaceNext
<1>22. LiveInv'
  BY <1>1, <1>5, <1>8, <1>11 DEF AdInv, LiveInv, Stranded, Waits
<1>23. ShutInv'
  BY <1>1, <1>5 DEF ShutInv
<1> QED BY <1>12, <1>13, <1>14, <1>15, <1>16, <1>17, <1>18, <1>19, <1>20, <1>21, <1>22,
       <1>23 DEF AdInv

LEMMA TakeStep ==
  ASSUME AdInv, Adapter!Take
  PROVE  AdInv'
<1> DEFINE n == Len(requests)
           h == Head(requests)
           t == Tail(requests)
<1>1. /\ worker.at = "loop" /\ ~stopped /\ requests # <<>>
      /\ worker' = [at |-> "busy", req |-> h] /\ requests' = t
      /\ UNCHANGED <<call, fresh, known, stopped, anonymous, responses, held, context, cleaned, shut>>
  BY DEF Adapter!Take, Adapter!adapter, Adapter!ghosts
<1>2. /\ t \in Seq(Adapter!Requests) /\ n \in Nat \ {0} /\ Len(t) = n - 1
      /\ h = requests[1] /\ h \in Adapter!Requests /\ 1 \in 1..n
      /\ \A i \in 1..(n - 1) : i + 1 \in 1..n /\ t[i] = requests[i + 1]
  BY <1>1, OnTail DEF AdInv, AdapterTypes
<1> HIDE DEF t, h
<1>3. t = <<>> <=> n = 1
  BY <1>2, OnQueue
<1>4. /\ \A i \in 1..Len(t) : i \in Nat /\ i + 1 # 1 /\ i + 1 \in 1..n /\ t[i] = requests[i + 1]
      /\ \A i \in 1..n : i # 1 => i - 1 \in 1..Len(t) /\ requests[i] = t[i - 1]
  <2>1. \A i \in 1..Len(t) : i \in Nat /\ i + 1 # 1 /\ i + 1 \in 1..n /\ t[i] = requests[i + 1]
    BY <1>2
  <2>2. ASSUME NEW i \in 1..n, i # 1 PROVE i - 1 \in 1..Len(t) /\ requests[i] = t[i - 1]
    <3>1. i - 1 \in 1..(n - 1) /\ (i - 1) + 1 = i
      BY <1>2, <2>2
    <3> QED BY <1>2, <3>1
  <2> QED BY <2>1, <2>2
<1>5. ~InWork /\ InWork' /\ worker'.req = h /\ ~Over /\ ~Over' /\ ~shut /\ Adapter!Known' = Adapter!Known
  BY <1>1 DEF InWork, Over, AdInv, ShutInv, Adapter!Known
<1>6. ASSUME NEW q PROVE Asked(q) <=> (q = h \/ Asked(q)')
  <2>1. Asked(q) => q = h \/ Asked(q)'
    BY <1>1, <1>2, <1>4 DEF Asked, n
  <2>2. q = h => Asked(q)
    BY <1>2 DEF Asked, n
  <2>3. Asked(q)' => Asked(q)
    BY <1>1, <1>4 DEF Asked, n
  <2> QED BY <2>1, <2>2, <2>3
<1>7. /\ \A s : ToOpen(s)' <=> ToOpen(s)
      /\ \A s : Named(s)' = Named(s)
      /\ \A s : Plays(s)' = Plays(s)
      /\ \A s : ToldClean(s)' = ToldClean(s)
  <2>1. \A s : ToOpen(s)' <=> ToOpen(s)
    BY <1>5, <1>6 DEF ToOpen
  <2> QED BY <1>1, <2>1 DEF Named, Plays, ToldClean
<1>8. \A s : Done(s)' <=> Done(s)
  BY <1>1, <1>7 DEF Done
<1>9. AdapterTypes'
  BY <1>1, <1>2 DEF AdInv, AdapterTypes
<1>10. CallInv'
  BY <1>1, <1>5 DEF AdInv, CallInv, Waits
<1>11. ThreadInv'
  BY <1>1, <1>2 DEF ThreadInv
<1>12. BornInv'
  <2>1. ASSUME NEW s \in Sessions, Unborn(s) PROVE Unborn(s)'
    <3>1. \A i \in 1..Len(t) : t[i].s = s => t[i].op = "open"
      BY <1>4, <2>1 DEF Unborn, n
    <3>2. h.s = s => h.op = "open"
      BY <1>2, <2>1 DEF Unborn, n
    <3> QED BY <1>1, <1>5, <2>1, <3>1, <3>2 DEF Unborn
  <2>2. ASSUME NEW i \in 1..Len(t), NEW j \in 1..Len(t), t[i].op = "open", t[j] = t[i]
        PROVE  i = j
    <3>1. i + 1 = j + 1
      <4>1. /\ i + 1 \in 1..n /\ j + 1 \in 1..n
            /\ requests[i + 1].op = "open" /\ requests[j + 1] = requests[i + 1]
        BY <1>4, <2>2
      <4>2. \A k, m \in 1..n : requests[k].op = "open" /\ requests[m] = requests[k] => k = m
        BY DEF AdInv, BornInv, n
      <4> QED BY <4>1, <4>2
    <3>2. i \in Nat /\ j \in Nat
      BY <1>4
    <3> QED BY <3>1, <3>2
  <2>3. ASSUME h.op = "open", NEW j \in 1..Len(t), t[j] = h PROVE FALSE
    BY <1>2, <1>4, <2>3 DEF AdInv, BornInv, n
  <2>5. \A i, j \in 1..Len(requests') : requests'[i].op = "open" /\ requests'[j] = requests'[i] => i = j
    BY <1>1, <2>2
  <2>6. InWork' /\ worker'.req.op = "open" => ~Asked(worker.req)'
    BY <1>1, <1>5, <2>3 DEF Asked
  <2>7. /\ \A s \in Sessions : s \in fresh' \/ ToOpen(s)' => Unborn(s)'
        /\ \A s \in fresh' : ~ToOpen(s)'
    BY <1>1, <1>7, <2>1 DEF AdInv, BornInv
  <2> QED BY <2>5, <2>6, <2>7 DEF BornInv
<1>13. OneInv'
  BY <1>7 DEF AdInv, OneInv
<1>14. NewInv'
  BY <1>1, <1>7 DEF AdInv, NewInv
<1>15. ReceiptInv'
  BY <1>1, <1>5 DEF AdInv, ReceiptInv
<1>16. DoneInv'
  BY <1>1, <1>5, <1>7, <1>8 DEF AdInv, DoneInv
<1>17. OwnInv'
  <2> SUFFICES ASSUME call.at = "wait" PROVE OwnInv'
    BY <1>1 DEF OwnInv
  <2>1. requests[n] = Own
    BY <1>1 DEF AdInv, OwnInv, n
  <2>2. CASE t = <<>>
    <3>1. h = Own
      BY <1>2, <1>3, <2>1, <2>2
    <3> QED BY <1>1, <1>5, <2>2, <3>1 DEF OwnInv, Own
  <2>3. CASE t # <<>>
    <3>1. n # 1 /\ n \in 1..n
      BY <1>2, <1>3, <2>3
    <3>2. t[n - 1] = requests[n]
      BY <1>4, <3>1
    <3> QED BY <1>1, <1>2, <2>1, <2>3, <3>2 DEF OwnInv, Own
  <2> QED BY <2>2, <2>3
<1>18. Lag' = Lag
  <2> DEFINE k == Len(responses)
  <2>1. k \in Nat
    BY DEF AdInv, AdapterTypes
  <2>2. Lag = n + k + 0
    BY <1>5 DEF Lag
  <2>3. Lag' = (n - 1) + k + 1
    BY <1>1, <1>2, <1>5 DEF Lag
  <2> HIDE DEF n, k
  <2> QED BY <1>2, <2>1, <2>2, <2>3
<1>19. PaceInv'
  <2>1. /\ RestInv /\ OpenInv /\ SetInv /\ StartInv /\ SecondInv /\ UseInv /\ CloseInv
    BY <1>1 DEF AdInv, PaceInv
  <2>2. RestInv' /\ StartInv' /\ SetInv' /\ SecondInv' /\ UseInv'
    <3>1. RestInv' /\ StartInv'
      BY <1>1, <1>5, <2>1 DEF RestInv, StartInv
    <3>2. SetInv' /\ SecondInv' /\ UseInv'
      BY <1>1, <1>5, <1>18, <2>1 DEF SetInv, SecondInv, UseInv, Waits, Handy
    <3> QED BY <3>1, <3>2
  <2>3. OpenInv'
    <3> SUFFICES ASSUME call.at = "ready" \/ Waits("open"), Adapter!Known = {} PROVE OpenInv'
      BY <1>1, <1>5 DEF OpenInv, Waits
    <3>1. \A i \in 1..Len(requests') : Refused(requests'[i])
      BY <1>1, <1>4, <2>1 DEF OpenInv, n
    <3>2. Refused(h)
      BY <1>2, <2>1 DEF OpenInv, n
    <3>3. /\ \A i \in 1..Len(requests') : requests'[i].op = "open" \/ requests'[i].s \notin held'
          /\ h.op = "open" \/ h.s \notin held'
      BY <1>1, <3>1, <3>2 DEF Refused
    <3>4. call'.at = "wait" => Lag' = 1 \/ FirstIsNot(call.s)'
      <4>1. Waits("open") => Lag = 1 \/ FirstIsNot(call.s)
        BY <2>1 DEF OpenInv, Waits
      <4>2. FirstIsNot(call.s) => FirstIsNot(call.s)'
        BY <1>1, <1>5 DEF FirstIsNot, h
      <4>3. call'.at = "wait" => Waits("open")
        BY <1>1
      <4> QED BY <1>1, <1>18, <4>1, <4>2, <4>3
    <3>5. /\ \A i \in 1..Len(responses') :
               \/ Adapter!IsError(responses'[i])
               \/ responses'[i].value = "ready" /\ call'.at = "ready" /\ i = 1
               \/ /\ responses'[i].value = "handle" /\ held' = {responses'[i].s} /\ ~Over'
                  /\ \A j \in 1..Len(responses') : responses'[j].value = "handle" => j = i
          /\ call'.at = "ready" => responses' # <<>> /\ Head(responses').op = "ready"
      BY <1>1, <1>5, <2>1 DEF OpenInv
    <3>6. worker'.at # "starting" /\ InWork' /\ worker'.req = h
      BY <1>1, <1>5
    <3> QED BY <3>3, <3>4, <3>5, <3>6 DEF OpenInv, Refused
  <2>4. CloseInv'
    <3> SUFFICES ASSUME Waits("close") PROVE CloseInv'
      BY <1>1 DEF CloseInv, Waits
    <3>1. NextIsError => NextIsError'
      BY <1>1, <1>5 DEF NextIsError, Refused, h
    <3> QED BY <1>1, <1>5, <1>18, <2>1, <3>1 DEF CloseInv
  <2> QED BY <2>2, <2>3, <2>4 DEF PaceInv
<1>20. LiveInv'
  <2> SUFFICES ASSUME ~anonymous PROVE LiveInv'
    BY <1>1 DEF LiveInv
  <2>1. \A s \in Sessions : context'[s] = "live" \/ s \in held' =>
          s \in Adapter!Known' \/ (Waits("open")' /\ call'.s = s /\ Adapter!Known' = {})
    BY <1>1, <1>5 DEF AdInv, LiveInv, Waits
  <2>2. \A s : Stranded(s)' => Stranded(s)
    BY <1>1, <1>7 DEF Stranded, Waits
  <2>3. ASSUME NEW s \in Sessions, Stranded(s)'
        PROVE  Adapter!Known' # {} /\ \A r \in Sessions : ~ToldClean(r)'
    BY <1>5, <1>7, <2>2, <2>3 DEF AdInv, LiveInv
  <2>4. ASSUME NEW s \in Sessions, Stranded(s)', h.op = "close", h.s \in held PROVE FALSE
    <3>1. PICK j \in 1..n : requests[j] = [op |-> "open", s |-> s]
      BY <1>5, <2>2, <2>4 DEF Stranded, ToOpen, Asked, n
    <3>2. j < 1
      BY <1>2, <2>2, <2>4, <3>1 DEF AdInv, LiveInv, n
    <3> QED BY <1>2, <3>2
  <2>5. ASSUME NEW s \in Sessions, Stranded(s)', NEW i \in 1..Len(t),
               NEW j \in 1..Len(t), t[i].op = "close", t[i].s \in held,
               t[j] = [op |-> "open", s |-> s]
        PROVE  j < i
    <3>1. j + 1 < i + 1
      <4>1. /\ i + 1 \in 1..n /\ j + 1 \in 1..n /\ requests[i + 1].op = "close"
            /\ requests[i + 1].s \in held /\ requests[j + 1] = [op |-> "open", s |-> s]
        BY <1>4, <2>5
      <4>2. \A k, m \in 1..n : requests[k].op = "close" /\ requests[k].s \in held
                               /\ requests[m] = [op |-> "open", s |-> s] => m < k
        BY <2>2, <2>5 DEF AdInv, LiveInv, n
      <4> QED BY <4>1, <4>2
    <3>2. i \in Nat /\ j \in Nat
      BY <1>4
    <3> QED BY <3>1, <3>2
  <2> QED BY <1>1, <1>5, <2>1, <2>3, <2>4, <2>5 DEF LiveInv
<1>21. ShutInv'
  BY <1>1, <1>5 DEF ShutInv
<1> QED BY <1>9, <1>10, <1>11, <1>12, <1>13, <1>14, <1>15, <1>16, <1>17, <1>19, <1>20,
       <1>21 DEF AdInv

\* The loop lets the pages work, or is told to stop.
Loops == Adapter!Pump \/ Adapter!Pumped \/ Adapter!Stops

LEMMA Looping ==
  ASSUME Loops
  PROVE  /\ worker.at \in {"loop", "pumping"} /\ (worker'.at = "loop" => worker.at = "pumping")
         /\ (worker'.at = "pumping" => held # {}) /\ (worker'.at = "leaving" => stopped)
         /\ worker' \in [at : {"loop", "pumping", "leaving"}, req : {Adapter!NoRequest}]
         /\ UNCHANGED <<call, fresh, known, stopped, anonymous, closing, requests, responses,
                        held, context, cleaned, shut, misread, uses, closes>>
BY DEF Loops, Adapter!Pump, Adapter!Pumped, Adapter!Stops, Adapter!SeesStop, Adapter!At,
   Adapter!adapter, Adapter!ghosts

LEMMA LoopStep ==
  ASSUME AdInv, Loops
  PROVE  AdInv'
<1>1. /\ worker.at \in {"loop", "pumping"} /\ (worker'.at = "loop" => worker.at = "pumping")
      /\ (worker'.at = "pumping" => held # {}) /\ (worker'.at = "leaving" => stopped)
      /\ worker' \in [at : {"loop", "pumping", "leaving"}, req : {Adapter!NoRequest}]
      /\ UNCHANGED <<call, fresh, known, stopped, anonymous, closing, requests, responses,
                     held, context, cleaned, shut, misread, uses, closes>>
  BY Looping
<1>2. /\ ~InWork /\ ~InWork' /\ ~Over /\ ~shut /\ (Over' => stopped)
      /\ Adapter!Known' = Adapter!Known /\ worker'.at \in {"loop", "pumping", "leaving"}
  BY <1>1 DEF InWork, Over, AdInv, ShutInv, Adapter!Known
<1>3. /\ \A t : Asked(t)' = Asked(t)
      /\ \A t : ToOpen(t)' = ToOpen(t)
      /\ \A t : Named(t)' = Named(t)
      /\ \A t : Plays(t)' = Plays(t)
      /\ \A t : Done(t)' = Done(t)
      /\ \A t : ToldClean(t)' = ToldClean(t)
      /\ \A t : Stranded(t)' = Stranded(t)
  BY <1>1, <1>2 DEF Asked, ToOpen, Named, Plays, Done, ToldClean, Stranded, Waits
<1>4. AdapterTypes'
  BY <1>1 DEF AdInv, AdapterTypes
<1>5. CallInv' /\ ThreadInv'
  BY <1>1, <1>2 DEF AdInv, CallInv, ThreadInv, Waits
<1>6. BornInv' /\ OneInv'
  BY <1>1, <1>2, <1>3 DEF AdInv, BornInv, Unborn, OneInv
<1>7. NewInv'
  BY <1>1, <1>2 DEF AdInv, NewInv, ThreadInv
<1>8. ReceiptInv'
  BY <1>1, <1>2 DEF AdInv, ReceiptInv
<1>9. DoneInv'
  BY <1>1, <1>2, <1>3 DEF AdInv, DoneInv
<1>10. OwnInv'
  BY <1>1, <1>2 DEF AdInv, OwnInv, Own
<1>11. PaceInv'
  <2> SUFFICES ASSUME ~stopped PROVE PaceInv'
    BY <1>1 DEF PaceInv
  <2>1. /\ RestInv /\ OpenInv /\ SetInv /\ StartInv /\ SecondInv /\ UseInv /\ CloseInv
        /\ ~Over' /\ worker'.at \in {"loop", "pumping"}
    BY <1>1, <1>2 DEF AdInv, PaceInv
  <2>2. Lag' = Lag /\ Handy' = Handy
    BY <1>1, <1>2 DEF Lag, Handy
  <2>3. RestInv' /\ StartInv' /\ SetInv' /\ SecondInv' /\ UseInv'
    BY <1>1, <1>2, <2>1, <2>2 DEF RestInv, SetInv, StartInv, SecondInv, UseInv, Waits
  <2>4. OpenInv'
    BY <1>1, <1>2, <2>1, <2>2 DEF OpenInv, Waits, Refused, FirstIsNot
  <2>5. NextIsError => NextIsError'
    BY <1>1, <1>2, <2>1 DEF NextIsError, Refused, Adapter!IsError
  <2>6. CloseInv'
    BY <1>1, <1>2, <2>1, <2>2, <2>5 DEF CloseInv, Waits
  <2> QED BY <2>3, <2>4, <2>6 DEF PaceInv
<1>12. LiveInv'
  BY <1>1, <1>2, <1>3 DEF AdInv, LiveInv, Waits
<1>13. ShutInv'
  BY <1>1, <1>2 DEF ShutInv
<1> QED BY <1>4, <1>5, <1>6, <1>7, <1>8, <1>9, <1>10, <1>11, <1>12, <1>13 DEF AdInv

LEMMA LeaveStep ==
  ASSUME AdInv, Adapter!Leave
  PROVE  AdInv'
<1>1. /\ worker.at = "leaving"
      /\ worker' = [at |-> "gone", req |-> Adapter!NoRequest] /\ held' = {}
      /\ \A s \in Sessions : context'[s] = context[s] \/ (context[s] = "live" /\ context'[s] = "closed")
      /\ context' \in [Sessions -> {"none", "live", "closed"}]
      /\ UNCHANGED <<call, fresh, known, stopped, anonymous, requests, responses, cleaned, shut>>
  BY DEF Adapter!Leave, Adapter!At, Adapter!adapter, Adapter!ghosts, Adapter!Live, AdInv,
     AdapterTypes
<1>2. ~InWork /\ ~InWork' /\ Over' /\ ~shut /\ Adapter!Known' = Adapter!Known
  BY <1>1 DEF InWork, Over, AdInv, ShutInv, Adapter!Known
<1>3. ~stopped => held = {} /\ Over
  BY <1>1 DEF AdInv, ThreadInv, Over
<1>4. /\ \A t : Asked(t)' = Asked(t)
      /\ \A t : ToOpen(t)' = ToOpen(t)
      /\ \A t : Named(t)' = Named(t)
      /\ \A t : Plays(t)' => Plays(t)
      /\ \A t : ToldClean(t)' = ToldClean(t)
      /\ \A t : Stranded(t)' = Stranded(t)
      /\ \A t \in Sessions : Done(t) => Done(t)'
  <2>1. /\ \A t : Asked(t)' = Asked(t)
        /\ \A t : ToOpen(t)' = ToOpen(t)
        /\ \A t : Named(t)' = Named(t)
        /\ \A t : ToldClean(t)' = ToldClean(t)
    BY <1>1, <1>2 DEF Asked, ToOpen, Named, ToldClean
  <2> QED BY <1>1, <2>1 DEF Plays, Stranded, Waits, Done
<1>5. AdapterTypes'
  BY <1>1 DEF AdInv, AdapterTypes, Adapter!NoRequest
<1>6. CallInv' /\ ThreadInv'
  BY <1>1, <1>2 DEF AdInv, CallInv, ThreadInv, Waits
<1>7. BornInv'
  BY <1>1, <1>2, <1>4 DEF AdInv, BornInv, Unborn
<1>8. OneInv' /\ NewInv'
  BY <1>1, <1>4 DEF AdInv, OneInv, NewInv
<1>9. ReceiptInv'
  BY <1>1, <1>2 DEF AdInv, ReceiptInv
<1>10. DoneInv'
  BY <1>1, <1>2, <1>4 DEF AdInv, DoneInv
<1>11. OwnInv'
  BY <1>1, <1>2 DEF AdInv, OwnInv, Own
<1>12. PaceInv'
  <2> SUFFICES ASSUME ~stopped PROVE PaceInv'
    BY <1>1 DEF PaceInv
  <2>1. /\ worker.at = "leaving" /\ held' = held /\ Over
        /\ RestInv /\ OpenInv /\ SetInv /\ StartInv /\ SecondInv /\ UseInv /\ CloseInv
    BY <1>1, <1>3 DEF AdInv, PaceInv
  <2>2. Lag' = Lag
    BY <1>1, <1>2 DEF Lag
  <2>3. RestInv' /\ StartInv' /\ SetInv' /\ SecondInv' /\ UseInv'
    BY <1>1, <1>2, <2>1, <2>2 DEF RestInv, SetInv, StartInv, SecondInv, UseInv, Waits, Handy,
       Receipted
  <2>4. OpenInv'
    BY <1>1, <1>2, <2>1, <2>2 DEF OpenInv, Waits, Refused, FirstIsNot
  <2>5. CloseInv'
    BY <1>1, <1>2, <2>1, <2>2 DEF CloseInv, Waits, NextIsError, Receipted
  <2> QED BY <2>3, <2>4, <2>5 DEF PaceInv
<1>13. LiveInv'
  BY <1>1, <1>2, <1>4 DEF AdInv, LiveInv, Waits
<1>14. ShutInv'
  BY <1>1, <1>2 DEF ShutInv
<1> QED BY <1>5, <1>6, <1>7, <1>8, <1>9, <1>10, <1>11, <1>12, <1>13, <1>14 DEF AdInv

LEMMA InitAdInv ==
  ASSUME Adapter!Init
  PROVE  AdInv
<1>1. /\ call = Adapter!Idle /\ fresh = Sessions /\ known = [s \in Sessions |-> "no"] /\ stopped = FALSE
      /\ anonymous = FALSE /\ requests = <<>> /\ responses = <<>>
      /\ worker = [at |-> "gone", req |-> Adapter!NoRequest] /\ held = {}
      /\ context = [s \in Sessions |-> "none"] /\ cleaned = {} /\ shut = FALSE
  BY DEF Adapter!Init
<1>2. /\ Len(requests) = 0 /\ Len(responses) = 0 /\ ~InWork /\ Adapter!Known = {}
      /\ requests \in Seq(Adapter!Requests) /\ responses \in Seq(Replies)
  BY <1>1 DEF InWork, Adapter!Known
<1>3. AdapterTypes
  BY <1>1, <1>2 DEF AdapterTypes, CallShapes, Adapter!Idle, Adapter!NoRequest
<1>4. \A i \in 1..Len(requests) : FALSE
  BY <1>2
<1>5. \A i \in 1..Len(responses) : FALSE
  BY <1>2
<1>6. CallInv /\ ThreadInv /\ OwnInv /\ ShutInv /\ ReceiptInv /\ NewInv
  BY <1>1, <1>2, <1>5 DEF CallInv, ThreadInv, OwnInv, ShutInv, ReceiptInv, NewInv, Adapter!Idle,
     Waits
<1>7. (\A s : ~ToOpen(s)) /\ (\A s \in Sessions : ~Plays(s)) /\ \A s : ~ToldClean(s)
  BY <1>1, <1>2, <1>4, <1>5 DEF ToOpen, Asked, Plays, Named, ToldClean
<1>8. BornInv /\ OneInv
  BY <1>1, <1>2, <1>4, <1>5, <1>7 DEF BornInv, Unborn, OneInv
<1>9. DoneInv
  BY <1>1, <1>7 DEF DoneInv, Adapter!Idle
<1>10. PaceInv
  BY <1>1, <1>2, PaceOf DEF RestInv, SetInv
<1>11. LiveInv
  BY <1>1, <1>7 DEF LiveInv, Stranded
<1> QED BY <1>3, <1>6, <1>8, <1>9, <1>10, <1>11 DEF AdInv

\* What can come of the request the worker works on; v is the value of the answer.
DidOpen == /\ worker.req.op = "open" /\ held = {} /\ held' = {worker.req.s}
           /\ (worker'.at = "leaving" => stopped)
DidNotOpen(v) == /\ worker.req.op = "open" /\ v \in {"error", "refused"} /\ held' = held
                 /\ IF held = {} THEN worker'.at = "leaving" ELSE worker'.at = "loop" /\ context' = context
DidUse(v) == /\ worker.req.op \in Adapter!UseOps /\ v \notin Receipts /\ held' = held
             /\ (worker.req.s \notin held => v = "error" /\ context' = context)
             /\ (v = "view" => worker.req.s \in held)
             /\ (worker'.at = "leaving" => stopped)
DidClose(v) == /\ worker.req.op = "close" /\ worker.req.s \in held /\ held' = held \ {worker.req.s}
               /\ v \in Receipts /\ (v = "cleaned" => context'[worker.req.s] = "closed")
               /\ (held' = {} => worker'.at = "leaving")
DidNotClose(v) == /\ worker.req.op = "close" /\ worker.req.s \notin held /\ v = "error"
                  /\ held' = held /\ context' = context /\ worker'.at = "loop"
Does(v) ==
  /\ Fits(worker.req.op, v)
  /\ responses' = Append(responses, Adapter!Answer(worker.req.op, worker.req.s, v))
  /\ worker' \in [at : {"loop", "leaving"}, req : {Adapter!NoRequest}]
  /\ context' \in [Sessions -> {"none", "live", "closed"}]
  /\ \A t \in Sessions : t # worker.req.s => context'[t] = context[t]
  /\ \/ DidOpen /\ v = "handle"
     \/ DidNotOpen(v) \/ DidUse(v) \/ DidClose(v) \/ DidNotClose(v)

LEMMA DoDoes ==
  ASSUME AdInv, Adapter!Do
  PROVE  \E v \in Adapter!Values : Does(v)
<1> DEFINE q == worker.req
<1>1. /\ worker.at = "busy" /\ q \in Adapter!Requests /\ q.op \in Adapter!Ops /\ q.s \in Sessions
      /\ context \in [Sessions -> {"none", "live", "closed"}]
  BY DEF Adapter!Do, AdInv, ThreadInv, InWork, Adapter!Requests, AdapterTypes
<1>2. ASSUME NEW v \in Adapter!Values, Adapter!Answers(q.op, q.s, v)
      PROVE  /\ responses' = Append(responses, Adapter!Answer(q.op, q.s, v))
             /\ worker' \in [at : {"loop", "leaving"}, req : {Adapter!NoRequest}]
             /\ (worker'.at = "leaving" <=>
                   \/ stopped /\ v \notin {"error", "refused"}
                   \/ held' = {} /\ q.op = "open" /\ v \in {"error", "refused"}
                   \/ held' = {} /\ q.op = "close" /\ v \notin {"error", "refused"})
  <2> DEFINE leaves == \/ stopped /\ v \notin {"error", "refused"}
                       \/ held' = {} /\ q.op = "open" /\ v \in {"error", "refused"}
                       \/ held' = {} /\ q.op = "close" /\ v \notin {"error", "refused"}
  <2>1. responses' = Append(responses, Adapter!Answer(q.op, q.s, v))
    BY <1>2 DEF Adapter!Answers, Adapter!Put
  <2>2. worker' = [at |-> IF leaves THEN "leaving" ELSE "loop", req |-> Adapter!NoRequest]
    BY <1>2 DEF Adapter!Answers, Adapter!At
  <2> HIDE DEF leaves
  <2>3. worker' \in [at : {"loop", "leaving"}, req : {Adapter!NoRequest}] /\ (worker'.at = "leaving" <=> leaves)
    BY <2>2
  <2> QED BY <2>1, <2>3 DEF leaves
<1>3. CASE q.op = "open"
  <2>1. Adapter!DoOpen(q.s)
    BY <1>3 DEF Adapter!Do
  <2>2. CASE Adapter!Free /\ held' = held \cup {q.s} /\ context' = [context EXCEPT ![q.s] = "live"]
             /\ Adapter!Answers("open", q.s, "handle")
    <3>1. "handle" \in Adapter!Values /\ Fits(q.op, "handle")
      BY <1>3 DEF Adapter!Values, Fits
    <3>2. DidOpen
      BY <1>2, <1>3, <2>2, <3>1 DEF DidOpen, Adapter!Free
    <3>3. context' \in [Sessions -> {"none", "live", "closed"}]
          /\ \A t \in Sessions : t # q.s => context'[t] = context[t]
      BY <1>1, <2>2
    <3> QED BY <1>2, <1>3, <2>2, <3>1, <3>2, <3>3 DEF Does
  <2>3. CASE /\ UNCHANGED held
             /\ IF Adapter!Free THEN \E c \in {"none", "live", "closed"} : context' = [context EXCEPT ![q.s] = c]
                ELSE UNCHANGED context
             /\ \E v \in {"error", "refused"} : Adapter!Answers("open", q.s, v)
    <3> PICK v \in {"error", "refused"} : Adapter!Answers("open", q.s, v)
      BY <2>3
    <3>1. v \in Adapter!Values /\ Fits(q.op, v)
      BY <1>3 DEF Adapter!Values, Fits
    <3>2. worker' \in [at : {"loop", "leaving"}, req : {Adapter!NoRequest}] /\ (worker'.at = "leaving" <=> held = {})
      BY <1>2, <1>3, <2>3, <3>1
    <3>3. DidNotOpen(v)
      BY <1>3, <2>3, <3>2 DEF DidNotOpen, Adapter!Free
    <3>4. context' \in [Sessions -> {"none", "live", "closed"}]
          /\ \A t \in Sessions : t # q.s => context'[t] = context[t]
      BY <1>1, <2>3
    <3> QED BY <1>2, <1>3, <2>3, <3>1, <3>3, <3>4 DEF Does
  <2> QED BY <2>1, <2>2, <2>3 DEF Adapter!DoOpen
<1>4. ASSUME q.op \in Adapter!UseOps, held' = held, context' \in [Sessions -> {"none", "live", "closed"}],
             \A t \in Sessions : t # q.s => context'[t] = context[t],
             NEW v \in Adapter!Values, Adapter!Answers(q.op, q.s, v), Fits(q.op, v),
             q.s \notin held => v = "error" /\ context' = context
      PROVE  Does(v)
  <2>1. v \notin Receipts /\ q.op # "open" /\ q.op # "close"
    BY <1>4 DEF Fits, Adapter!UseOps, Receipts
  <2>2. /\ worker' \in [at : {"loop", "leaving"}, req : {Adapter!NoRequest}]
        /\ (worker'.at = "leaving" => stopped)
        /\ responses' = Append(responses, Adapter!Answer(q.op, q.s, v))
    BY <1>2, <1>4, <2>1
  <2>3. DidUse(v)
    BY <1>4, <2>1, <2>2 DEF DidUse
  <2> QED BY <1>4, <2>2, <2>3 DEF Does
<1>5. CASE q.op \in {"observe", "execute"}
  <2>1. Adapter!DoUse(q.op, q.s) /\ q.op \in Adapter!UseOps
    BY <1>5 DEF Adapter!Do, Adapter!UseOps
  <2>2. PICK v \in Adapter!Values :
          Adapter!Answers(q.op, q.s, v) /\ Fits(q.op, v) /\ (q.s \notin held => v = "error")
    BY <1>5, <2>1 DEF Adapter!DoUse, Adapter!Values, Fits
  <2>3. held' = held /\ context' = context
    BY <2>1 DEF Adapter!DoUse
  <2> QED BY <1>1, <1>4, <2>1, <2>2, <2>3
<1>6. CASE q.op = "takeover"
  <2>1. Adapter!DoTakeover(q.s) /\ q.op \in Adapter!UseOps
    BY <1>6 DEF Adapter!Do, Adapter!UseOps
  <2>2. PICK v \in {"done", "refused", "error"} :
          /\ Adapter!Answers(q.op, q.s, v)
          /\ (q.s \notin held => v = "error" /\ context' = context)
          /\ (q.s \in held => \E c \in {"none", "closed", "live"} : context' = [context EXCEPT ![q.s] = c])
    BY <1>1, <1>6, <2>1 DEF Adapter!DoTakeover
  <2>3. held' = held
    BY <2>1 DEF Adapter!DoTakeover
  <2>4. v \in Adapter!Values /\ Fits(q.op, v)
    BY <1>6, <2>2 DEF Adapter!Values, Fits
  <2>5. context' \in [Sessions -> {"none", "live", "closed"}]
        /\ \A t \in Sessions : t # q.s => context'[t] = context[t]
    BY <1>1, <2>2
  <2> QED BY <1>4, <2>1, <2>2, <2>3, <2>4, <2>5
<1>7. CASE q.op = "close"
  <2>1. Adapter!DoClose(q.s)
    BY <1>7 DEF Adapter!Do
  <2>2. CASE q.s \in held
    <3>1. held' = held \ {q.s}
      BY <2>1, <2>2 DEF Adapter!DoClose
    <3>2. PICK v \in Receipts :
            /\ Adapter!Answers(q.op, q.s, v)
            /\ \/ v = "cleaned" /\ context' = [context EXCEPT ![q.s] = "closed"]
               \/ v = "unknown" /\ \E c \in {context[q.s], "closed"} : context' = [context EXCEPT ![q.s] = c]
      BY <1>7, <2>1, <2>2 DEF Adapter!DoClose, Adapter!CloseOutcome, Receipts
    <3>3. v \in Adapter!Values /\ Fits(q.op, v) /\ v \notin {"error", "refused"}
      BY <1>7, <3>2 DEF Adapter!Values, Fits, Receipts
    <3>4. /\ context' \in [Sessions -> {"none", "live", "closed"}]
          /\ \A t \in Sessions : t # q.s => context'[t] = context[t]
          /\ (v = "cleaned" => context'[q.s] = "closed")
      BY <1>1, <3>2
    <3>5. /\ worker' \in [at : {"loop", "leaving"}, req : {Adapter!NoRequest}]
          /\ (held' = {} => worker'.at = "leaving")
          /\ responses' = Append(responses, Adapter!Answer(q.op, q.s, v))
      BY <1>2, <1>7, <3>2, <3>3
    <3>6. DidClose(v)
      BY <1>7, <2>2, <3>1, <3>2, <3>4, <3>5 DEF DidClose
    <3> QED BY <3>3, <3>4, <3>5, <3>6 DEF Does
  <2>3. CASE q.s \notin held
    <3>1. held' = held /\ context' = context /\ Adapter!Answers(q.op, q.s, "error")
      BY <1>7, <2>1, <2>3 DEF Adapter!DoClose
    <3>2. "error" \in Adapter!Values /\ Fits(q.op, "error")
      BY <1>7 DEF Adapter!Values, Fits
    <3>3. /\ worker' \in [at : {"loop", "leaving"}, req : {Adapter!NoRequest}] /\ worker'.at # "leaving"
          /\ responses' = Append(responses, Adapter!Answer(q.op, q.s, "error"))
      BY <1>2, <1>7, <3>1, <3>2
    <3>4. DidNotClose("error")
      BY <1>7, <2>3, <3>1, <3>3 DEF DidNotClose
    <3> QED BY <1>1, <3>1, <3>2, <3>3, <3>4 DEF Does
  <2> QED BY <2>2, <2>3
<1> QED BY <1>1, <1>3, <1>5, <1>6, <1>7 DEF Adapter!Ops, Adapter!UseOps

\* What holds of every answer the worker gives.
Stays == UNCHANGED <<call, fresh, known, stopped, anonymous, requests, cleaned, shut, misread>>

LEMMA DoFacts ==
  ASSUME AdInv, Adapter!Do
  PROVE  /\ Stays /\ InWork /\ ~InWork' /\ ~Over /\ ~shut /\ Adapter!Known' = Adapter!Known
         /\ worker.req \in Adapter!Requests /\ worker.req.s \in Sessions
         /\ \A t : Asked(t)' = Asked(t)
         /\ \A t \in Sessions : ToOpen(t)' => ToOpen(t) /\ t # worker.req.s
         /\ \A t \in Sessions : ToOpen(t) => ToOpen(t)' \/ (t = worker.req.s /\ worker.req.op = "open")
         /\ \A t \in fresh : t # worker.req.s
         /\ (held = {} => \A t \in Sessions : ~Plays(t))
         /\ (Handy' = Handy)
<1> DEFINE q == worker.req
<1>1. /\ Stays /\ InWork /\ worker'.at \in {"loop", "leaving"}
  BY DoDoes DEF Adapter!Do, Stays, Adapter!adapter, Adapter!ghosts, InWork, Does
<1>2. ~InWork' /\ ~Over /\ ~shut /\ Adapter!Known' = Adapter!Known /\ Handy' = Handy
  BY <1>1 DEF InWork, Over, AdInv, ShutInv, Adapter!Known, Stays, Handy
<1>3. q \in Adapter!Requests /\ q.s \in Sessions /\ q.op \in Adapter!Ops /\ q = [op |-> q.op, s |-> q.s]
  BY <1>1 DEF AdInv, ThreadInv, Adapter!Requests
<1>4. \A t : Asked(t)' = Asked(t)
  BY <1>1 DEF Asked, Stays
<1>5. q.op = "open" => ToOpen(q.s) /\ ~Asked([op |-> "open", s |-> q.s])
  BY <1>1, <1>3 DEF ToOpen, AdInv, BornInv
<1>6. \A t \in Sessions : t \in fresh \/ ToOpen(t) => Unborn(t)
  BY DEF AdInv, BornInv
<1>7. \A t \in Sessions : ToOpen(t)' => Asked([op |-> "open", s |-> t])
  BY <1>2, <1>4 DEF ToOpen
<1>8. ASSUME NEW t \in Sessions, Asked([op |-> "open", s |-> t])
      PROVE  ToOpen(t) /\ t # q.s
  <2>1. ToOpen(t)
    BY <1>8 DEF ToOpen
  <2>2. Unborn(t)
    BY <1>6, <2>1
  <2> QED BY <1>1, <1>5, <1>8, <2>1, <2>2 DEF Unborn
<1>9. ASSUME NEW t \in Sessions, ToOpen(t)
      PROVE  ToOpen(t)' \/ (t = q.s /\ q.op = "open")
  BY <1>3, <1>4, <1>9 DEF ToOpen
<1>10. ASSUME NEW t \in fresh PROVE t # q.s
  BY <1>1, <1>3, FreshNowhere DEF AdInv
<1>11. held = {} => \A t \in Sessions : ~Plays(t)
  BY <1>1 DEF AdInv, NewInv, InWork
<1> QED BY <1>1, <1>2, <1>3, <1>4, <1>7, <1>8, <1>9, <1>10, <1>11

\* The queue of answers after one.
LEMMA DoQueue ==
  ASSUME AdInv, Adapter!Do, NEW v \in Adapter!Values, Does(v)
  PROVE  /\ responses' \in Seq(Replies) /\ responses' # <<>> /\ Len(responses) \in Nat
         /\ Len(responses') = Len(responses) + 1
         /\ responses'[Len(responses) + 1] = Adapter!Answer(worker.req.op, worker.req.s, v)
         /\ \A i \in 1..Len(responses) : i \in 1..Len(responses') /\ responses'[i] = responses[i]
         /\ \A i \in 1..Len(responses') :
              \/ i \in 1..Len(responses) /\ responses'[i] = responses[i]
              \/ i = Len(responses) + 1 /\ responses'[i] = Adapter!Answer(worker.req.op, worker.req.s, v)
         /\ (responses # <<>> => Head(responses') = Head(responses) /\ Head(responses) = responses[1])
         /\ (responses = <<>> => Head(responses') = Adapter!Answer(worker.req.op, worker.req.s, v))
         /\ (responses = <<>> <=> Len(responses) = 0)
         /\ Lag' = Lag
<1> DEFINE n == Len(responses)
           r == Adapter!Answer(worker.req.op, worker.req.s, v)
<1>1. responses \in Seq(Replies) /\ n \in Nat /\ (responses = <<>> <=> n = 0)
  BY OnQueue DEF AdInv, AdapterTypes
<1>2. r \in Replies
  <2>1. /\ Fits(worker.req.op, v) /\ worker.req.op \in Adapter!Ops \cup {"ready"}
        /\ worker.req.s \in Sessions \cup {NoOne} /\ worker.req.s # NoOne /\ worker.req.op # "ready"
    BY DoFacts, BrowserAssumption DEF Does, Adapter!Requests, Adapter!Ops, Adapter!UseOps
  <2>2. \A op, s : op \in Adapter!Ops \cup {"ready"} /\ s \in Sessions \cup {NoOne} /\ Fits(op, v)
                    /\ s # NoOne /\ op # "ready" => Adapter!Answer(op, s, v) \in Replies
    BY DEF Adapter!Answer, Replies
  <2> QED BY <2>1, <2>2
<1>3. responses' = Append(responses, r)
  BY DEF Does
<1>4. /\ responses' \in Seq(Replies) /\ responses' # <<>> /\ Len(responses') = n + 1
      /\ responses'[n + 1] = r /\ \A i \in 1..n : responses'[i] = responses[i]
  BY <1>1, <1>2, <1>3, OnAppend
<1> HIDE DEF n, r
<1>5. \A i \in 1..Len(responses') : i \in 1..n \/ i = n + 1
  BY <1>1, <1>4
<1>6. \A i \in 1..n : i \in 1..Len(responses')
  BY <1>1, <1>4
<1>7. Head(responses') = responses'[1]
  BY <1>4, OnTail
<1>8. responses # <<>> => Head(responses) = responses[1] /\ 1 \in 1..n
  BY <1>1, OnTail DEF n
<1>9. n = 0 => responses'[1] = r
  BY <1>4
<1>10. Lag' = Lag
  <2> DEFINE m == Len(requests)
  <2>1. m \in Nat
    BY DEF AdInv, AdapterTypes
  <2>2. Lag = m + n + 1
    BY DoFacts DEF Lag, n
  <2>3. Lag' = m + (n + 1) + 0
    BY <1>4, DoFacts DEF Lag, Stays
  <2> HIDE DEF m
  <2> QED BY <1>1, <2>1, <2>2, <2>3
<1> QED BY <1>1, <1>4, <1>5, <1>6, <1>7, <1>8, <1>9, <1>10 DEF n, r

\* A thread that was not told to stop ends only after a close, or after an open
\* that failed with nothing in play.
LEMMA DoEnds ==
  ASSUME AdInv, Adapter!Do, NEW v \in Adapter!Values, Does(v), ~stopped, Over'
  PROVE  \/ worker.req.op = "close" /\ v \in Receipts /\ worker.req.s \in held
         \/ worker.req.op = "open" /\ Adapter!Known = {} /\ v \in {"error", "refused"}
<1>1. worker'.at = "leaving"
  BY DEF Over, Does
<1>2. DidNotOpen(v) \/ DidClose(v)
  BY <1>1 DEF Does, DidOpen, DidUse, DidNotClose
<1>3. DidNotOpen(v) => held = {}
  BY <1>1 DEF DidNotOpen
<1> QED BY <1>2, <1>3, DoFacts DEF DidNotOpen, DidClose, Plays, Adapter!Known

\* Nothing comes into play but by an open that went well, and then it is alone.
LEMMA DoPlays ==
  ASSUME AdInv, Adapter!Do, NEW v \in Adapter!Values, Does(v), NEW t \in Sessions, Plays(t)'
  PROVE  Plays(t) \/ (DidOpen /\ t = worker.req.s)
<1>1. CASE known'[t] # "no"
  BY <1>1, DoFacts DEF Stays, Plays
<1>2. CASE t \in held'
  BY <1>2 DEF Does, DidOpen, DidNotOpen, DidUse, DidClose, DidNotClose, Plays
<1>3. CASE Named(t)'
  <2>1. PICK i \in 1..Len(responses') : responses'[i].s = t /\ responses'[i].value \in Naming
    BY <1>3 DEF Named
  <2>2. CASE i \in 1..Len(responses) /\ responses'[i] = responses[i]
    BY <2>1, <2>2 DEF Plays, Named
  <2>3. CASE responses'[i] = Adapter!Answer(worker.req.op, worker.req.s, v)
    <3>1. t = worker.req.s /\ v \in Naming
      BY <2>1, <2>3 DEF Adapter!Answer
    <3>2. DidOpen \/ worker.req.s \in held
      BY <3>1 DEF Does, DidNotOpen, DidUse, DidClose, DidNotClose, Naming, Fits, Adapter!UseOps,
         Receipts
    <3> QED BY <3>1, <3>2 DEF Plays
  <2> QED BY <2>2, <2>3, DoQueue
<1> QED BY <1>1, <1>2, <1>3 DEF Plays

LEMMA DoLive ==
  ASSUME AdInv, Adapter!Do, NEW v \in Adapter!Values, Does(v)
  PROVE  LiveInv'
<1> SUFFICES ASSUME ~anonymous PROVE LiveInv'
  BY DoFacts DEF LiveInv, Stays
<1> DEFINE q == worker.req
<1>1. /\ UNCHANGED <<call, fresh, requests>> /\ Adapter!Known' = Adapter!Known /\ InWork /\ ~InWork'
      /\ q.s \in Sessions
  BY DoFacts DEF Stays
<1>2. ASSUME NEW t \in Sessions, Stranded(t)'
      PROVE  Stranded(t) /\ Adapter!Known # {}
  <2>1. ToOpen(t)
    BY <1>2, DoFacts DEF Stranded
  <2>2. Stranded(t)
    BY <1>1, <1>2, <2>1 DEF Stranded, Waits
  <2> QED BY <2>2 DEF AdInv, LiveInv
<1>3. held = {} => Adapter!Known = {} /\ \A t \in Sessions : ~Plays(t)
  BY DoFacts DEF Plays, Adapter!Known
<1>4. ASSUME NEW t \in Sessions, context'[t] = "live" \/ t \in held'
      PROVE  t \in Adapter!Known' \/ (Waits("open")' /\ call'.s = t /\ Adapter!Known' = {})
  <2>1. CASE context[t] = "live" \/ t \in held
    BY <1>1, <2>1 DEF AdInv, LiveInv, Waits
  <2>2. CASE context[t] # "live" /\ t \notin held
    <3>1. t = q.s
      BY <1>4, <2>2 DEF Does, DidOpen, DidNotOpen, DidUse, DidClose, DidNotClose
    <3>2. q.op = "open" /\ held = {}
      BY <1>4, <2>2, <3>1 DEF Does, DidOpen, DidNotOpen, DidUse, DidClose, DidNotClose
    <3>3. ToOpen(t)
      BY <1>1, <3>1, <3>2, DoFacts DEF ToOpen, Adapter!Requests
    <3>4. ~Stranded(t)
      BY <1>3, <3>2 DEF AdInv, LiveInv
    <3> QED BY <1>1, <1>3, <3>2, <3>3, <3>4 DEF Stranded, Waits
  <2> QED BY <2>1, <2>2
<1>5. ASSUME NEW t \in Sessions, Stranded(t)'
      PROVE  Adapter!Known' # {} /\ \A r \in Sessions : ~ToldClean(r)'
  <2>1. Adapter!Known # {} /\ \A r \in Sessions : ~ToldClean(r)
    BY <1>2, <1>5 DEF AdInv, LiveInv
  <2>2. q.op = "close" => q.s \notin held
    BY <1>1, <1>2, <1>5 DEF AdInv, LiveInv
  <2>3. v # "cleaned"
    BY <2>2 DEF Does, DidOpen, DidNotOpen, DidUse, DidClose, DidNotClose, Receipts
  <2>4. ASSUME NEW r \in Sessions, ToldClean(r)' PROVE FALSE
    <3>1. PICK i \in 1..Len(responses') : responses'[i] = Adapter!Answer("close", r, "cleaned")
      BY <2>4 DEF ToldClean, Adapter!Answer
    <3>2. responses'[i] # Adapter!Answer(q.op, q.s, v)
      BY <2>3, <3>1 DEF Adapter!Answer
    <3>3. i \in 1..Len(responses) /\ responses'[i] = responses[i]
      BY <3>2, DoQueue
    <3> QED BY <2>1, <3>1, <3>3 DEF ToldClean
  <2> QED BY <1>1, <2>1, <2>4
<1>6. ASSUME NEW t \in Sessions, Stranded(t)' PROVE held' \subseteq held
  <2>1. held # {}
    BY <1>2, <1>3, <1>6
  <2> QED BY <2>1 DEF Does, DidOpen, DidNotOpen, DidUse, DidClose, DidNotClose
<1> QED BY <1>1, <1>2, <1>4, <1>5, <1>6 DEF AdInv, LiveInv

LEMMA DoPace ==
  ASSUME AdInv, Adapter!Do, NEW v \in Adapter!Values, Does(v)
  PROVE  PaceInv'
<1> SUFFICES ASSUME ~stopped PROVE PaceInv'
  BY DoFacts DEF PaceInv, Stays
<1> DEFINE q == worker.req
           n == Len(responses)
           r == Adapter!Answer(q.op, q.s, v)
<1>1. /\ UNCHANGED <<call, fresh, known, requests>> /\ Adapter!Known' = Adapter!Known /\ InWork /\ ~InWork' /\ ~Over
      /\ Handy' = Handy /\ Lag' = Lag /\ q.s \in Sessions /\ AdapterTypes
      /\ (held = {} => Adapter!Known = {} /\ \A t \in Sessions : ~Plays(t))
  BY DoFacts, DoQueue DEF Stays, Plays, Adapter!Known, AdInv
<1>2. /\ RestInv /\ OpenInv /\ SetInv /\ StartInv /\ SecondInv /\ UseInv /\ CloseInv
  BY DEF AdInv, PaceInv
<1>3. /\ responses' # <<>> /\ n \in Nat /\ Len(responses') = n + 1 /\ responses'[n + 1] = r
      /\ \A i \in 1..n : i \in 1..Len(responses') /\ responses'[i] = responses[i]
      /\ \A i \in 1..Len(responses') : \/ i \in 1..n /\ responses'[i] = responses[i]
                                       \/ i = n + 1 /\ responses'[i] = r
      /\ (responses # <<>> => Head(responses') = Head(responses))
      /\ (responses = <<>> => Head(responses') = r)
      /\ (responses = <<>> <=> n = 0)
  BY DoQueue
<1>4. n + 1 \notin 1..n
  BY <1>3
<1>5. Lag = Len(requests) + n + 1 /\ Len(requests) \in Nat /\ (requests = <<>> <=> Len(requests) = 0)
  BY <1>1, Sizes DEF Lag
<1>6. Adapter!Known # {} /\ Over' => q.op = "close" /\ v \in Receipts
  BY DoEnds
<1>7. r.op = q.op /\ r.s = q.s /\ r.value = v
  BY DEF Adapter!Answer
<1> HIDE DEF n, r
<1>8. RestInv'
  BY <1>1, <1>2 DEF RestInv, InWork
<1>9. SetInv'
  <2> SUFFICES ASSUME call = Adapter!Idle, Adapter!Known # {} PROVE SetInv'
    BY <1>1 DEF SetInv
  <2>1. Lag <= 1 /\ (Handy => Lag = 0)
    BY <1>2 DEF SetInv
  <2>2. requests = <<>> /\ n = 0
    BY <1>3, <1>5, <2>1
  <2>3. Over' => Receipted(1)'
    BY <1>3, <1>6, <1>7, <2>2 DEF Receipted
  <2> QED BY <1>1, <2>1, <2>2, <2>3 DEF SetInv
<1>10. StartInv'
  BY <1>1, <1>2, <1>3 DEF StartInv
<1>11. SecondInv'
  <2> SUFFICES ASSUME Waits("open"), Adapter!Known # {} PROVE SecondInv'
    BY <1>1 DEF SecondInv, Waits
  <2>1. Lag <= 2 /\ (Handy => Lag = 1)
    BY <1>2 DEF SecondInv
  <2>2. ASSUME Over' PROVE Len(requests') = 1 /\ Receipted(1)'
    <3>1. q.op = "close" /\ v \in Receipts
      BY <1>6, <2>2
    <3>2. requests # <<>>
      BY <1>1, <3>1 DEF AdInv, OwnInv, Own, Waits
    <3>3. Len(requests) = 1 /\ n = 0
      <4> DEFINE m == Len(requests)
      <4>1. m \in Nat /\ m # 0 /\ m + n + 1 <= 2
        BY <1>5, <2>1, <3>2
      <4> HIDE DEF m
      <4>2. m = 1 /\ n = 0
        BY <1>3, <4>1
      <4> QED BY <4>2 DEF m
    <3> QED BY <1>1, <1>3, <1>7, <3>1, <3>3 DEF Receipted
  <2> QED BY <1>1, <2>1, <2>2 DEF SecondInv
<1>12. UseInv'
  <2> SUFFICES ASSUME call.at = "wait", call.op \in Adapter!UseOps PROVE UseInv'
    BY <1>1 DEF UseInv
  <2>1. Lag = 1
    BY <1>2 DEF UseInv
  <2>2. requests = <<>>
    BY <1>3, <1>5, <2>1
  <2>3. q.op \in Adapter!UseOps
    BY <1>1, <2>2 DEF AdInv, OwnInv, Own
  <2>4. Adapter!Known # {}
    BY DEF AdInv, CallInv, Adapter!UseOps
  <2>5. ~Over'
    BY <1>6, <2>3, <2>4 DEF Adapter!UseOps
  <2> QED BY <1>1, <2>1, <2>5 DEF UseInv
<1>13. CloseInv'
  <2> SUFFICES ASSUME Waits("close") PROVE CloseInv'
    BY <1>1 DEF CloseInv, Waits
  <2>1. CASE responses # <<>> /\ Adapter!IsError(Head(responses))
    BY <1>3, <2>1 DEF CloseInv, NextIsError, Adapter!IsError
  <2>2. CASE responses = <<>> /\ held # {} /\ Refused(q)
    <3>1. v \in {"error", "refused"}
      BY <2>2 DEF Refused, Does, DidOpen, DidNotOpen, DidUse, DidClose, DidNotClose,
         Adapter!UseOps
    <3> QED BY <1>3, <1>7, <2>2, <3>1 DEF CloseInv, NextIsError, Adapter!IsError
  <2>3. CASE Lag <= 2
    <3>1. Adapter!Known # {}
      BY DEF AdInv, CallInv, Waits
    <3>2. ASSUME Over', Head(responses').value \notin Receipts
          PROVE  requests' = <<>> /\ Receipted(2)'
      <4>1. q.op = "close" /\ v \in Receipts
        BY <1>6, <3>1, <3>2
      <4>2. n # 0
        BY <1>3, <1>7, <3>2, <4>1
      <4>3. Len(requests) = 0 /\ n = 1
        BY <1>3, <1>5, <2>3, <4>2
      <4> QED BY <1>1, <1>3, <1>5, <1>7, <4>1, <4>3 DEF Receipted
    <3> QED BY <1>1, <2>3, <3>2 DEF CloseInv
  <2> QED BY <1>1, <1>2, <2>1, <2>2, <2>3 DEF CloseInv, NextIsError, InWork
<1>14. OpenInv'
  <2> SUFFICES ASSUME call.at = "ready" \/ Waits("open"), Adapter!Known = {} PROVE OpenInv'
    BY <1>1 DEF OpenInv, Waits
  <2>1. /\ Refused(q) /\ \A i \in 1..Len(requests) : Refused(requests[i])
        /\ \A i \in 1..n :
             \/ Adapter!IsError(responses[i])
             \/ responses[i].value = "ready" /\ call.at = "ready" /\ i = 1
             \/ /\ responses[i].value = "handle" /\ held = {responses[i].s}
                /\ \A j \in 1..n : responses[j].value = "handle" => j = i
        /\ (call.at = "ready" => responses # <<>> /\ Head(responses).op = "ready")
        /\ (call.at = "wait" => Lag = 1 \/ FirstIsNot(call.s))
    BY <1>1, <1>2 DEF OpenInv, InWork, n
  <2>2. worker'.at # "starting"
    BY DEF Does
  <2>3. call'.at = "wait" => Lag' = 1 \/ FirstIsNot(call.s)'
    <3>1. FirstIsNot(call.s) => FirstIsNot(call.s)'
      BY <1>1, <1>3, <1>7 DEF FirstIsNot
    <3> QED BY <1>1, <2>1, <3>1
  <2>4. CASE DidOpen /\ v = "handle"
    <3>1. held = {} /\ held' = {q.s} /\ q.op = "open" /\ ~Over'
      BY <2>4, DoEnds DEF DidOpen, Receipts
    <3>2. \A i \in 1..n : responses[i].value # "handle"
      BY <2>1, <3>1 DEF Adapter!IsError
    <3>3. \A j \in 1..Len(responses') : responses'[j].value = "handle" => j = n + 1
      BY <1>3, <3>2
    <3>4. \A i \in 1..Len(responses') :
             \/ Adapter!IsError(responses'[i])
             \/ responses'[i].value = "ready" /\ call'.at = "ready" /\ i = 1
             \/ /\ responses'[i].value = "handle" /\ held' = {responses'[i].s} /\ ~Over'
                /\ \A j \in 1..Len(responses') : responses'[j].value = "handle" => j = i
      BY <1>1, <1>3, <1>7, <2>1, <2>4, <3>1, <3>2, <3>3
    <3>5. \A i \in 1..Len(requests') : requests'[i].op = "open" \/ requests'[i].s \notin held'
      <4>1. Unborn(q.s)
        <5>1. ToOpen(q.s)
          BY <1>1, <3>1, DoFacts DEF ToOpen, Adapter!Requests
        <5> QED BY <1>1, <5>1 DEF AdInv, BornInv
      <4> QED BY <1>1, <3>1, <4>1 DEF Unborn
    <3> QED BY <1>1, <1>3, <2>1, <2>2, <2>3, <3>4, <3>5 DEF OpenInv, Refused
  <2>5. CASE ~DidOpen
    <3>1. v \in {"error", "refused"} /\ held' = held
      BY <2>1, <2>5 DEF Refused, Does, DidNotOpen, DidUse, DidClose, DidNotClose, Adapter!UseOps
    <3>2. Over' => held = {}
      BY <2>1, <3>1 DEF Over, Does, DidOpen, DidNotOpen, DidUse, DidClose, DidNotClose, Receipts
    <3>3. Adapter!IsError(r)
      BY <1>7, <3>1 DEF Adapter!IsError
    <3>4. \A j \in 1..Len(responses') : responses'[j].value = "handle" => j \in 1..n /\ responses[j].value = "handle"
      BY <1>3, <1>7, <3>1
    <3>5. \A i \in 1..Len(responses') :
             \/ Adapter!IsError(responses'[i])
             \/ responses'[i].value = "ready" /\ call'.at = "ready" /\ i = 1
             \/ /\ responses'[i].value = "handle" /\ held' = {responses'[i].s} /\ ~Over'
                /\ \A j \in 1..Len(responses') : responses'[j].value = "handle" => j = i
      <4> SUFFICES ASSUME NEW i \in 1..Len(responses')
                   PROVE  \/ Adapter!IsError(responses'[i])
                          \/ responses'[i].value = "ready" /\ call'.at = "ready" /\ i = 1
                          \/ /\ responses'[i].value = "handle" /\ held' = {responses'[i].s} /\ ~Over'
                             /\ \A j \in 1..Len(responses') : responses'[j].value = "handle" => j = i
        OBVIOUS
      <4>1. CASE i = n + 1 /\ responses'[i] = r
        BY <3>3, <4>1
      <4>2. CASE i \in 1..n /\ responses'[i] = responses[i]
        BY <1>1, <2>1, <3>1, <3>2, <3>4, <4>2
      <4> QED BY <1>3, <4>1, <4>2
    <3>6. \A i \in 1..Len(requests') : requests'[i].op = "open" \/ requests'[i].s \notin held'
      BY <1>1, <2>1, <3>1 DEF Refused
    <3> QED BY <1>1, <1>3, <2>1, <2>2, <2>3, <3>5, <3>6 DEF OpenInv, Refused
  <2>6. DidOpen => v = "handle"
    BY DEF Does, DidOpen, DidNotOpen, DidUse, DidClose, DidNotClose, Adapter!UseOps
  <2> QED BY <2>4, <2>5, <2>6
<1> QED BY <1>8, <1>9, <1>10, <1>11, <1>12, <1>13, <1>14 DEF PaceInv

LEMMA DoStep ==
  ASSUME AdInv, Adapter!Do
  PROVE  AdInv'
<1> DEFINE q == worker.req
<1>1. PICK v \in Adapter!Values : Does(v)
  BY DoDoes
<1>2. /\ UNCHANGED <<call, fresh, known, stopped, anonymous, requests, cleaned, shut>>
      /\ Adapter!Known' = Adapter!Known /\ InWork /\ ~InWork' /\ ~Over /\ ~shut /\ q.s \in Sessions
  BY DoFacts DEF Stays
<1>3. AdapterTypes'
  <2>1. held' \subseteq Sessions
    BY <1>1, <1>2 DEF Does, DidOpen, DidNotOpen, DidUse, DidClose, DidNotClose, AdInv,
       AdapterTypes
  <2>2. responses' \in Seq(Replies)
    BY <1>1, DoQueue
  <2>3. worker' \in [at : {"gone", "starting", "loop", "pumping", "busy", "leaving"},
                     req : Adapter!Requests \cup {Adapter!NoRequest}]
    BY <1>1 DEF Does
  <2> QED BY <1>1, <1>2, <2>1, <2>2, <2>3 DEF AdInv, AdapterTypes, Does
<1>4. CallInv'
  BY <1>2 DEF AdInv, CallInv, Waits
<1>5. DidClose(v) => held' = {}
  <2>1. DidClose(v) => \A t \in held : t = q.s
    BY <1>2 DEF DidClose, AdInv, AdapterTypes, OneInv, Plays
  <2> QED BY <2>1 DEF DidClose
<1>6. ThreadInv'
  <2>1. worker'.at = "leaving" /\ ~stopped => held' = {}
    BY <1>1, <1>5 DEF Does, DidOpen, DidNotOpen, DidUse, DidNotClose
  <2> QED BY <1>1, <1>2, <2>1 DEF ThreadInv, Does
<1>7. \A t \in Sessions : t \in fresh \/ ToOpen(t)' => Unborn(t) /\ t # q.s
  BY DoFacts DEF AdInv, BornInv
<1>8. BornInv'
  <2>1. ASSUME NEW t \in Sessions, t \in fresh' \/ ToOpen(t)' PROVE Unborn(t)'
    <3>1. Unborn(t) /\ t # q.s
      BY <1>2, <1>7, <2>1
    <3>2. t \notin held'
      BY <1>1, <3>1 DEF Unborn, Does, DidOpen, DidNotOpen, DidUse, DidClose, DidNotClose
    <3>3. ASSUME NEW i \in 1..Len(responses') PROVE responses'[i].s # t
      <4>1. CASE i \in 1..Len(responses) /\ responses'[i] = responses[i]
        BY <3>1, <4>1 DEF Unborn
      <4>2. CASE responses'[i] = Adapter!Answer(q.op, q.s, v)
        BY <3>1, <4>2 DEF Adapter!Answer
      <4> QED BY <1>1, <4>1, <4>2, DoQueue
    <3>4. context'[t] = "none"
      BY <1>1, <3>1 DEF Does, Unborn
    <3> QED BY <1>2, <3>1, <3>2, <3>3, <3>4 DEF Unborn
  <2>2. \A t \in fresh' : ~ToOpen(t)'
    BY <1>2, DoFacts DEF AdInv, BornInv, AdapterTypes
  <2> QED BY <1>2, <2>1, <2>2 DEF AdInv, BornInv
<1>9. OneInv'
  <2>1. DidOpen => \A t \in Sessions : ~Plays(t)
    BY DoFacts DEF DidOpen
  <2> QED BY <1>1, <2>1, DoPlays DEF AdInv, OneInv
<1>10. NewInv'
  <2> SUFFICES ASSUME worker'.at = "loop", held' = {}, NEW t \in Sessions, Plays(t)' PROVE FALSE
    BY <1>1 DEF NewInv, Does
  <2>1. ~DidOpen /\ held = {}
    BY <1>1 DEF Does, DidOpen, DidNotOpen, DidUse, DidClose, DidNotClose
  <2> QED BY <1>1, <2>1, DoPlays, DoFacts
<1>11. ReceiptInv'
  <2> SUFFICES ASSUME NEW i \in 1..Len(responses'), responses'[i].value \in Receipts
               PROVE  \/ i = Len(responses') /\ Over' /\ held' = {}
                      \/ i = 1 /\ call'.at = "ready"
    BY DEF ReceiptInv
  <2>1. CASE i \in 1..Len(responses) /\ responses'[i] = responses[i]
    BY <1>2, <2>1 DEF AdInv, ReceiptInv
  <2>2. CASE i = Len(responses) + 1 /\ responses'[i] = Adapter!Answer(q.op, q.s, v)
    <3>1. v \in Receipts
      BY <2>2 DEF Adapter!Answer
    <3>2. DidClose(v)
      BY <1>1, <3>1 DEF Does, DidNotOpen, DidUse, DidNotClose, Receipts
    <3>3. Over' /\ held' = {}
      BY <1>5, <3>2 DEF DidClose, Over
    <3> QED BY <1>1, <2>2, <3>3, DoQueue
  <2> QED BY <1>1, <2>1, <2>2, DoQueue
<1>12. DoneInv'
  <2>1. ASSUME NEW t \in Sessions, Done(t) PROVE Done(t)'
    <3>1. t # q.s \/ (context' = context /\ held' = held)
      <4>1. t \notin held /\ ~ToOpen(t)
        BY <2>1 DEF Done
      <4>2. q.op = "open" => t # q.s
        BY <1>2, <4>1, DoFacts DEF ToOpen, Adapter!Requests
      <4> QED BY <1>1, <4>1, <4>2 DEF Does, DidOpen, DidNotOpen, DidUse, DidClose, DidNotClose
    <3>2. context'[t] = context[t] /\ t \notin held'
      BY <1>1, <2>1, <3>1 DEF Done, Does, DidOpen, DidNotOpen, DidUse, DidClose, DidNotClose
    <3> QED BY <1>2, <2>1, <3>2, DoFacts DEF Done
  <2>2. ASSUME NEW t \in Sessions, ToldClean(t)' PROVE Done(t)'
    <3>1. PICK i \in 1..Len(responses') : responses'[i] = Adapter!Answer("close", t, "cleaned")
      BY <2>2 DEF ToldClean, Adapter!Answer
    <3>2. CASE i \in 1..Len(responses) /\ responses'[i] = responses[i]
      BY <2>1, <3>1, <3>2 DEF ToldClean, AdInv, DoneInv
    <3>3. CASE responses'[i] = Adapter!Answer(q.op, q.s, v)
      <4>1. t = q.s /\ v = "cleaned"
        BY <3>1, <3>3 DEF Adapter!Answer
      <4>2. DidClose(v)
        BY <1>1, <4>1 DEF Does, DidNotOpen, DidUse, DidNotClose, Receipts
      <4>3. context'[t] = "closed" /\ t \notin held' /\ t \in held
        BY <4>1, <4>2 DEF DidClose
      <4>4. t \notin fresh /\ ~ToOpen(t)'
        BY <4>1, DoFacts
      <4> QED BY <1>2, <4>3, <4>4 DEF Done
    <3> QED BY <1>1, <3>2, <3>3, DoQueue
  <2>3. call'.op # "cleaned"
    BY <1>2 DEF AdInv, DoneInv
  <2> QED BY <1>2, <2>1, <2>2, <2>3 DEF AdInv, DoneInv
<1>13. OwnInv'
  <2> SUFFICES ASSUME call.at = "wait" PROVE OwnInv'
    BY <1>2 DEF OwnInv
  <2>1. CASE requests # <<>>
    BY <1>2, <2>1 DEF AdInv, OwnInv, Own
  <2>2. CASE requests = <<>>
    <3>1. q = Own
      BY <1>2, <2>2 DEF AdInv, OwnInv
    <3>2. responses' # <<>> /\ responses'[Len(responses')] = Adapter!Answer(q.op, q.s, v)
      BY <1>1, DoQueue
    <3>3. worker'.at # "starting"
      BY <1>1 DEF Does
    <3> QED BY <1>2, <2>2, <3>1, <3>2, <3>3 DEF OwnInv, Own, Adapter!Answer
  <2> QED BY <2>1, <2>2
<1>14. PaceInv' /\ LiveInv'
  BY <1>1, DoPace, DoLive
<1>15. ShutInv'
  BY <1>2 DEF ShutInv
<1> QED BY <1>3, <1>4, <1>6, <1>8, <1>9, <1>10, <1>11, <1>12, <1>13, <1>14, <1>15 DEF AdInv

-----------------------------------------------------------------------------

LEMMA AdStays ==
  ASSUME AdInv, UNCHANGED Adapter!vars
  PROVE  AdInv'
<1>1. UNCHANGED <<call, fresh, known, stopped, anonymous, closing, requests, responses, worker, held,
                  context, cleaned, shut, misread>>
  BY DEF Adapter!vars, Adapter!adapter, Adapter!thread, Adapter!ghosts
<1>2. AdapterTypes' /\ CallInv' /\ ThreadInv' /\ ShutInv'
  BY <1>1 DEF AdInv, AdapterTypes, CallInv, ThreadInv, ShutInv, InWork, Waits, Adapter!Known,
     Adapter!Live
<1>3. BornInv' /\ OneInv' /\ NewInv' /\ ReceiptInv'
  BY <1>1 DEF AdInv, BornInv, OneInv, NewInv, ReceiptInv, ToOpen, Unborn, Asked, InWork,
     Adapter!Known, Plays,
     Named, Over
<1>4. DoneInv' /\ OwnInv'
  BY <1>1 DEF AdInv, DoneInv, OwnInv, Done, ToldClean, ToOpen, Asked, InWork, Over,
     Adapter!Known, Own
<1>5. PaceInv'
  <2>1. PaceInv' = PaceInv
    BY <1>1 DEF PaceInv, RestInv, OpenInv, SetInv, StartInv, SecondInv, UseInv, CloseInv,
       Adapter!Known, Waits,
       Over, Lag, InWork, Handy, Receipted, Refused, FirstIsNot, NextIsError, Adapter!IsError
  <2> QED BY <2>1 DEF AdInv
<1>6. LiveInv'
  BY <1>1 DEF AdInv, LiveInv, Stranded, ToOpen, Asked, InWork, Waits, Adapter!Known, ToldClean
<1> QED BY <1>2, <1>3, <1>4, <1>5, <1>6 DEF AdInv

LEMMA AdStep ==
  ASSUME AdInv, ExitInv, [Adapter!Next]_(Adapter!vars)
  PROVE  AdInv'
<1>1. ASSUME NEW s \in Sessions, Adapter!StartWorker(s) PROVE AdInv'
  BY <1>1, StartWorkerStep
<1>2. ASSUME NEW s \in Sessions, Adapter!Open(s) PROVE AdInv'
  BY <1>2, OpenStep
<1>3. ASSUME NEW s \in Sessions, Adapter!Close(s) PROVE AdInv'
  BY <1>3, CloseStep
<1>4. ASSUME NEW s \in Sessions, NEW op \in Adapter!UseOps, Adapter!Use(op, s) PROVE AdInv'
  BY <1>4, UseStep
<1>5. CASE Adapter!Caller
  BY <1>5, WaitReadyStep, ReceiveStep, TimeOutStep, JoinStep DEF Adapter!Caller
<1>6. CASE Adapter!Worker
  BY <1>6, ReadyStep, TakeStep, DoStep, LoopStep, LeaveStep DEF Adapter!Worker, Loops
<1>7. CASE Adapter!Shutdown \/ Adapter!ShutdownReturns
  BY <1>7, ShutdownStep
<1>8. CASE UNCHANGED Adapter!vars
  BY <1>8, AdStays
<1> QED BY <1>1, <1>2, <1>3, <1>4, <1>5, <1>6, <1>7, <1>8 DEF Adapter!Next

-----------------------------------------------------------------------------
(* What a shutdown has done so far                                         *)

\* What a shutdown looks at.
LEMMA ExitKeeps ==
  ASSUME ExitInv, UNCHANGED <<call, known, anonymous, closing, misread>>
  PROVE  ExitInv'
BY DEF ExitInv, Waits, Adapter!Known

\* The calls of the caller, of a shutdown or not.
LEMMA ExitCalls ==
  ASSUME AdInv, ExitInv, Adapter!Caller
  PROVE  ExitInv'
<1>1. /\ closing \in [on : BOOLEAN, todo : SUBSET Sessions, failed : BOOLEAN]
      /\ misread \subseteq Sessions /\ AdapterTypes
  BY DEF ExitInv, AdInv
<1>2. CASE Adapter!WaitReady
  <2>1. ~closing.on
    BY <1>2 DEF Adapter!WaitReady, ExitInv, Waits, Adapter!Idle
  <2> QED BY <1>1, <1>2, <2>1 DEF Adapter!WaitReady, Adapter!ghosts, ExitInv
<1>3. ASSUME Adapter!Counts(TRUE), UNCHANGED misread, call' = Adapter!Idle PROVE ExitInv'
  <2>1. closing' = [closing EXCEPT !.failed = closing.on]
    BY <1>1, <1>3 DEF Adapter!Counts
  <2> QED BY <1>1, <1>3, <2>1 DEF ExitInv
<1>4. ASSUME Waits("close"), NEW v \in {"cleaned", "unknown", "acted"}, Adapter!CloseGoesOn(v),
             UNCHANGED misread
      PROVE  ExitInv'
  <2>1. /\ call' = [at |-> "join", op |-> v, s |-> call.s] /\ UNCHANGED <<anonymous, closing>>
        /\ call.s \in Adapter!Known
    BY <1>4 DEF Adapter!CloseGoesOn, Adapter!In, AdInv, CallInv, Waits
  <2>2. Adapter!Known' \subseteq Adapter!Known
    BY <1>1, <1>4, <2>1 DEF Adapter!CloseGoesOn, Adapter!Known, AdapterTypes
  <2>3. call' # Adapter!Idle /\ call'.at = "join" /\ call'.op # "start" /\ call'.s = call.s
    BY <2>1 DEF Adapter!Idle
  <2> QED BY <1>1, <1>4, <2>1, <2>2, <2>3 DEF ExitInv
<1>5. CASE Adapter!Receive \/ Adapter!TimeOut
  <2>1. UNCHANGED misread /\ call.at = "wait" /\ call # Adapter!Idle
    <3>1. Adapter!Receive => UNCHANGED misread /\ call.at = "wait"
      BY DEF Adapter!Receive, Adapter!ghosts
    <3>2. Adapter!TimeOut => UNCHANGED misread /\ call.at = "wait"
      BY DEF Adapter!TimeOut, Adapter!ghosts
    <3> QED BY <1>5, <3>1, <3>2 DEF Adapter!Idle
  <2>2. CASE call.op = "close"
    <3>1. Waits("close")
      BY <2>1, <2>2 DEF Waits
    <3>2. \/ Adapter!CloseRaises \/ Adapter!CloseGoesOn("unknown")
          \/ /\ Head(responses).value \in {"cleaned", "unknown", "acted"}
             /\ Adapter!CloseGoesOn(Head(responses).value)
      BY <1>5, <2>2 DEF Adapter!Receive, Adapter!TimeOut, Adapter!UseOps, Adapter!HasOutcome
    <3>3. CASE Adapter!CloseRaises
      BY <1>3, <2>1, <3>3 DEF Adapter!CloseRaises, Adapter!Returns
    <3> QED BY <1>4, <2>1, <3>1, <3>2, <3>3
  <2>3. CASE call.op # "close"
    <3>1. ~closing.on
      BY <2>1, <2>3 DEF ExitInv, Waits
    <3>2. closing' = closing
      BY <1>5, <2>3, Waiting DEF Adapter!Receive, Adapter!TimeOut, Adapter!OpenFails,
         Adapter!OpenReturns, Adapter!UseFails, Adapter!UseReturns, Adapter!UseOps, Adapter!Ops
    <3> QED BY <1>1, <2>1, <3>1, <3>2 DEF ExitInv
  <2> QED BY <2>2, <2>3
<1>6. CASE Adapter!Join
  <2>1. /\ call' = Adapter!Idle /\ UNCHANGED <<known, anonymous>> /\ call.at = "join"
        /\ Adapter!Counts(call.op = "unknown" \/ Adapter!Alive)
        /\ misread' = IF call.op = "acted" /\ ~Adapter!Alive THEN misread \cup {call.s} ELSE misread
    BY <1>6 DEF Adapter!Join, Adapter!Returns
  <2>2. Adapter!Known' = Adapter!Known /\ misread \subseteq misread' /\ misread' \subseteq Sessions
        /\ call # Adapter!Idle /\ ~Waits("close")
    BY <1>1, <2>1 DEF Adapter!Known, AdInv, CallInv, Adapter!Idle, Waits
  <2>3. /\ closing' \in [on : BOOLEAN, todo : SUBSET Sessions, failed : BOOLEAN]
        /\ closing'.on = closing.on /\ closing'.todo = closing.todo
        /\ (closing.on => (closing'.failed <=> closing.failed \/ call.op = "unknown" \/ Adapter!Alive))
    BY <1>1, <2>1 DEF Adapter!Counts
  <2>4. CASE closing.on /\ call.op = "acted" /\ ~Adapter!Alive
    BY <2>1, <2>2, <2>3, <2>4 DEF ExitInv
  <2>5. CASE closing.on /\ call.op = "cleaned"
    <3>1. Adapter!Known = {}
      BY <2>5 DEF AdInv, DoneInv
    <3> QED BY <2>1, <2>2, <2>3, <2>5, <3>1 DEF ExitInv
  <2>6. CASE closing.on /\ (call.op = "unknown" \/ Adapter!Alive)
    BY <2>1, <2>2, <2>3, <2>6 DEF ExitInv
  <2>7. closing.on => call.op \in {"cleaned", "unknown", "acted"}
    BY <2>1, <2>2 DEF ExitInv, AdInv, CallInv
  <2>8. CASE ~closing.on
    BY <2>2, <2>3, <2>8 DEF ExitInv
  <2> QED BY <2>4, <2>5, <2>6, <2>7, <2>8
<1> QED BY <1>2, <1>5, <1>6 DEF Adapter!Caller

LEMMA ExitStep ==
  ASSUME AdInv, ExitInv, [Adapter!Next]_(Adapter!vars)
  PROVE  ExitInv'
<1>1. /\ closing \in [on : BOOLEAN, todo : SUBSET Sessions, failed : BOOLEAN]
      /\ misread \subseteq Sessions
  BY DEF ExitInv
<1>2. ASSUME NEW s \in Sessions, NEW op \in Adapter!UseOps,
             Adapter!StartWorker(s) \/ Adapter!Open(s) \/ Adapter!Use(op, s)
      PROVE  ExitInv'
  <2>1. ~closing.on /\ UNCHANGED <<closing, misread>>
    BY <1>2 DEF Adapter!StartWorker, Adapter!Open, Adapter!Use, Adapter!adapter, Adapter!ghosts
  <2> QED BY <1>1, <2>1 DEF ExitInv
<1>3. ASSUME NEW s \in Sessions, Adapter!Close(s) PROVE ExitInv'
  <2>1. /\ call = Adapter!Idle /\ UNCHANGED <<known, anonymous, misread>>
        /\ call' = [at |-> "wait", op |-> "close", s |-> s]
        /\ closing' = [closing EXCEPT !.todo = @ \ {s}]
    BY <1>3 DEF Adapter!Close, Adapter!Send, Adapter!In, Adapter!ghosts
  <2>2. call' # Adapter!Idle /\ Waits("close")' /\ call'.s = s /\ Adapter!Known' = Adapter!Known
    BY <2>1 DEF Adapter!Idle, Waits, Adapter!Known
  <2>3. /\ closing' \in [on : BOOLEAN, todo : SUBSET Sessions, failed : BOOLEAN]
        /\ closing'.on = closing.on /\ closing'.failed = closing.failed
        /\ closing'.todo = closing.todo \ {s}
    BY <1>1, <2>1
  <2> QED BY <1>1, <2>1, <2>2, <2>3 DEF ExitInv
<1>4. CASE Adapter!Shutdown
  <2>1. /\ call = Adapter!Idle /\ UNCHANGED <<call, known, anonymous, misread>>
        /\ closing' = [on |-> TRUE, todo |-> Adapter!Known \ Adapter!Lost,
                       failed |-> ~Adapter!NothingUnknown \/ Adapter!Lost # {}]
    BY <1>4 DEF Adapter!Shutdown, Adapter!ghosts
  <2>2. Adapter!Known' = Adapter!Known /\ Adapter!Known \subseteq Sessions
    BY <2>1 DEF Adapter!Known
  <2>3. closing' \in [on : BOOLEAN, todo : SUBSET Sessions, failed : BOOLEAN]
    BY <2>1, <2>2
  <2>4. ~closing'.failed => ~anonymous /\ closing'.todo = Adapter!Known
    BY <2>1 DEF Adapter!NothingUnknown
  <2> QED BY <1>1, <2>1, <2>2, <2>3, <2>4 DEF ExitInv
<1>5. CASE Adapter!ShutdownReturns
  BY <1>1, <1>5 DEF Adapter!ShutdownReturns, Adapter!Off, ExitInv
<1>6. CASE Adapter!Worker \/ UNCHANGED Adapter!vars
  <2>1. CASE Loops
    BY <2>1, Looping, ExitKeeps
  <2>2. CASE Adapter!Ready \/ Adapter!Take \/ Adapter!Do \/ Adapter!Leave
    BY <2>2, ExitKeeps DEF Adapter!Ready, Adapter!Take, Adapter!Do, Adapter!Leave,
       Adapter!adapter, Adapter!ghosts
  <2>3. CASE UNCHANGED Adapter!vars
    BY <2>3, ExitKeeps DEF Adapter!vars, Adapter!adapter, Adapter!ghosts
  <2> QED BY <1>6, <2>1, <2>2, <2>3 DEF Adapter!Worker, Loops
<1>7. ASSUME NEW s \in Sessions, Adapter!StartWorker(s) \/ Adapter!Open(s) PROVE ExitInv'
  BY <1>2, <1>7 DEF Adapter!UseOps
<1> QED BY <1>2, <1>3, <1>4, <1>5, <1>6, <1>7, ExitCalls DEF Adapter!Next

LEMMA AdInvariant == Adapter!Spec => [](AdInv /\ ExitInv)
<1>1. ASSUME Adapter!Init PROVE AdInv /\ ExitInv
  <2>1. closing = [on |-> FALSE, todo |-> {}, failed |-> FALSE] /\ misread = {}
    BY <1>1 DEF Adapter!Init, Adapter!Off
  <2>2. closing \in [on : BOOLEAN, todo : SUBSET Sessions, failed : BOOLEAN] /\ ~closing.on
    BY <2>1
  <2>3. ExitInv
    BY <2>1, <2>2 DEF ExitInv
  <2> QED BY <1>1, <2>3, InitAdInv
<1>2. AdInv /\ ExitInv /\ [Adapter!Next]_(Adapter!vars) => (AdInv /\ ExitInv)'
  BY AdStep, ExitStep
<1> QED BY <1>1, <1>2, PTL DEF Adapter!Spec

\* close reports CLEANED only of a session whose context is closed and stays so,
\* however late the answers came.
THEOREM CleanedStaysClosed == Adapter!Spec => []CleanedIsClosed
<1>1. AdInv => CleanedIsClosed
  BY DEF AdInv, AdapterTypes, DoneInv, Done, CleanedIsClosed
<1> QED BY <1>1, AdInvariant, PTL

\* When shutdown returns without an error no thread is there, and a context that is
\* live is one whose close returned the receipt of an action.
THEOREM ShutdownIsHonest == Adapter!Spec => []ShutdownHonest
<1>1. AdInv => ShutdownHonest
  BY DEF AdInv, ShutInv, Adapter!Live, Live, Alive, ShutdownHonest
<1> QED BY <1>1, AdInvariant, PTL

-----------------------------------------------------------------------------
(* One context                                                             *)

\* A context that no session in play accounts for is what a failed open or a dying
\* worker left behind.  Then nothing is in play, no worker is at work, and none
\* will be: the worker is told to stop, or the open under way is to fail.
Failing == /\ ~stopped /\ Adapter!Known = {} /\ (call.at = "ready" \/ Waits("open"))
           /\ \E i \in 1..Len(responses) : Adapter!IsError(responses[i])
Lost == /\ Over /\ \A t \in Sessions : ~Plays(t)
        /\ (stopped /\ call.op # "cleaned") \/ Failing
LeakInv == /\ \A s \in Adapter!Live : Plays(s) \/ Lost
           /\ \A s, t \in Adapter!Live : s = t

LEMMA LiveOnes ==
  ASSUME AdInv
  PROVE  DOMAIN context = Sessions /\ Adapter!Live \subseteq Sessions
BY DEF AdInv, AdapterTypes, Adapter!Live

LEMMA Alike ==
  ASSUME LeakInv, context' = context, \A s \in Adapter!Live : Plays(s) => Plays(s)', Lost => Lost'
  PROVE  LeakInv'
BY DEF LeakInv, Adapter!Live

\* Where the caller is when a context is lost.
LEMMA LostCall ==
  ASSUME AdInv, Lost
  PROVE  /\ Adapter!Known = {}
         /\ \/ stopped /\ call.op # "cleaned" /\ call.at \in {"idle", "join"}
            \/ Failing
<1>1. Adapter!Known = {}
  BY DEF Lost, Plays, Adapter!Known
<1>2. call.at \in {"idle", "ready", "wait", "join"}
  BY DEF AdInv, AdapterTypes, CallShapes
<1>3. stopped => call.at \in {"idle", "join"}
  BY <1>1, <1>2 DEF AdInv, CallInv, Waits
<1> QED BY <1>1, <1>3 DEF Lost

\* What was named stays named, but for the answer that is taken.
LEMMA PlaysOn ==
  ASSUME AdapterTypes, NEW s \in Sessions, Plays(s), Hears, held' = held,
         known[s] # "no" => known'[s] # "no",
         responses' # responses /\ Head(responses).s = s /\ Head(responses).value \in Naming
           => Plays(s)'
  PROVE  Plays(s)'
<1>1. CASE known[s] # "no" \/ s \in held
  BY <1>1 DEF Plays
<1>2. CASE Named(s) /\ responses' = responses
  BY <1>2 DEF Plays, Named
<1>3. CASE Named(s) /\ responses # <<>> /\ responses' = Tail(responses)
  <2> DEFINE n == Len(responses)
  <2>1. PICK i \in 1..n : responses[i].s = s /\ responses[i].value \in Naming
    BY <1>3 DEF Named
  <2>2. CASE i = 1
    BY <1>3, <2>1, <2>2, Takes
  <2>3. CASE i # 1
    <3>1. n \in Nat \ {0} /\ Len(responses') = n - 1
          /\ \A j \in 1..Len(responses') : responses'[j] = responses[j + 1]
      BY <1>3, Takes
    <3> HIDE DEF n
    <3>2. i - 1 \in 1..Len(responses') /\ (i - 1) + 1 = i
      BY <2>1, <2>3, <3>1
    <3>3. responses'[i - 1] = responses[i]
      BY <3>1, <3>2
    <3> QED BY <2>1, <3>2, <3>3 DEF Plays, Named
  <2> QED BY <2>2, <2>3
<1> QED BY <1>1, <1>2, <1>3 DEF Plays, Hears

\* The calls that only ask.
LEMMA AskLeak ==
  ASSUME AdInv, LeakInv, call = Adapter!Idle, ~stopped \/ Adapter!Known # {},
         UNCHANGED <<known, responses, held, context>>
  PROVE  LeakInv'
<1>1. ~Lost
  BY LostCall DEF Failing, Waits, Adapter!Idle
<1>2. \A s \in Sessions : Plays(s)' = Plays(s)
  BY DEF Plays, Named
<1> QED BY <1>1, <1>2, Alike, LiveOnes DEF Adapter!Live

LEMMA WaitReadyLeak ==
  ASSUME AdInv, LeakInv, Adapter!WaitReady
  PROVE  LeakInv'
<1>1. /\ call.at = "ready" /\ ~stopped /\ AdapterTypes /\ Adapter!Known' = Adapter!Known
      /\ UNCHANGED <<known, worker, held, context>> /\ Hears
  BY DEF Adapter!WaitReady, Adapter!thread, AdInv, CallInv, Adapter!Known, Hears, Adapter!Taken
<1>2. OpenInv /\ StartInv
  BY <1>1 DEF AdInv, PaceInv
<1>3. ASSUME NEW s \in Sessions, Plays(s) PROVE Plays(s)'
  <2>1. CASE Adapter!Known # {}
    BY <1>1, <1>3, <2>1 DEF AdInv, OneInv, Plays, Adapter!Known
  <2>2. CASE Adapter!Known = {}
    <3>1. ASSUME responses' # responses, Head(responses).s = s, Head(responses).value \in Naming
          PROVE  s \in held
      <4>1. responses # <<>>
        BY <3>1, <1>1 DEF Hears
      <4>2. Head(responses) = responses[1] /\ 1 \in 1..Len(responses)
        BY <1>1, <4>1, OnTail DEF AdapterTypes
      <4> QED BY <1>1, <1>2, <2>2, <3>1, <4>2 DEF OpenInv, Naming, Receipts, Adapter!IsError
    <3> QED BY <1>1, <1>3, <3>1, PlaysOn DEF Plays
  <2> QED BY <2>1, <2>2
<1>4. ASSUME Lost PROVE Lost'
  <2>1. Failing /\ Adapter!Known = {}
    BY <1>1, <1>4, LostCall
  <2>2. PICK i \in 1..Len(responses) : Adapter!IsError(responses[i])
    BY <2>1 DEF Failing
  <2>3. responses # <<>> /\ responses' = Tail(responses)
    <3>1. responses # <<>>
      BY <1>1, <2>2, Sizes
    <3> QED BY <3>1 DEF Adapter!WaitReady, Adapter!Taken
  <2>4. \A t \in Sessions : ~Plays(t)'
    <3>1. ASSUME NEW t \in Sessions, Plays(t)' PROVE Plays(t)
      BY <1>1, <3>1, Heard DEF Plays, Named
    <3> QED BY <1>4, <3>1 DEF Lost
  <2>5. Over'
    BY <1>1, <1>4 DEF Lost, Over
  <2>6. CASE stopped' = TRUE /\ call' = Adapter!In("join", "start", NoOne)
    BY <2>4, <2>5, <2>6 DEF Lost, Adapter!In
  <2>7. CASE Head(responses).value = "ready" /\ Adapter!Send("open", call.s) /\ UNCHANGED stopped
    <3>1. Len(responses) \in Nat \ {0} /\ Len(responses') = Len(responses) - 1
          /\ responses[1] = Head(responses)
          /\ \A j \in 1..Len(responses') : responses'[j] = responses[j + 1]
      BY <1>1, <2>3, Takes
    <3>2. i # 1
      BY <2>2, <2>7, <3>1 DEF Adapter!IsError
    <3>3. i - 1 \in 1..Len(responses') /\ (i - 1) + 1 = i
      BY <3>1, <3>2
    <3>4. Adapter!IsError(responses[(i - 1) + 1]) /\ responses'[i - 1] = responses[(i - 1) + 1]
      BY <2>2, <3>1, <3>3
    <3>5. \E j \in 1..Len(responses') : Adapter!IsError(responses'[j])
      BY <3>3, <3>4
    <3>6. Failing'
      BY <1>1, <2>1, <2>7, <3>5 DEF Failing, Adapter!IsError, Adapter!Send, Adapter!In, Waits
    <3> QED BY <2>4, <2>5, <3>6 DEF Lost
  <2> QED BY <1>1, <2>3, <2>6, <2>7 DEF Adapter!WaitReady
<1> QED BY <1>1, <1>3, <1>4, Alike, LiveOnes DEF Adapter!Live

LEMMA ReceiveLeak ==
  ASSUME AdInv, LeakInv, Adapter!Receive, AdInv'
  PROVE  LeakInv'
<1> DEFINE r == Head(responses)
<1>1. /\ call.at = "wait" /\ responses # <<>> /\ responses' = Tail(responses) /\ Hears
      /\ UNCHANGED <<worker, held, context>> /\ AdapterTypes /\ call.op \in Adapter!Ops
      /\ call.s \in Sessions
  BY Waiting DEF Adapter!Receive, Adapter!Taken, Adapter!thread, Hears
<1>2. r = responses[1] /\ 1 \in 1..Len(responses)
  BY <1>1, Takes
<1>3. CASE call.op = "open"
  <2>1. IF Adapter!IsError(r) THEN Adapter!OpenFails ELSE Adapter!OpenReturns(r)
    BY <1>3 DEF Adapter!Receive, Adapter!UseOps
  <2>2. r.value \in Naming => r.s \in Sessions
    BY <1>1, AnswerNames
  <2>3. \A s \in Sessions : known[s] # "no" => known'[s] # "no"
    BY <1>1, <2>1, <2>2 DEF Adapter!OpenFails, Adapter!OpenReturns, Naming, Receipts, AdapterTypes
  <2>4. ASSUME NEW s \in Sessions, r.s = s, r.value \in Naming PROVE Plays(s)'
    <3>1. ~Adapter!IsError(r)
      BY <2>4 DEF Adapter!IsError, Naming, Receipts
    <3>2. known'[s] = "usable"
      BY <1>1, <2>1, <2>4, <3>1 DEF Adapter!OpenReturns, Naming, Receipts, AdapterTypes
    <3> QED BY <3>2 DEF Plays
  <2>5. \A s \in Sessions : Plays(s) => Plays(s)'
    BY <1>1, <2>3, <2>4, PlaysOn
  <2>6. ASSUME Lost PROVE Lost'
    <3>1. Failing /\ Adapter!Known = {}
      BY <1>1, <2>6, LostCall
    <3>2. OpenInv
      BY <3>1 DEF Failing, AdInv, PaceInv
    <3>3. Adapter!IsError(r)
      BY <1>1, <1>2, <1>3, <2>6, <3>1, <3>2 DEF OpenInv, Waits, Lost
    <3>4. stopped' /\ call'.op # "cleaned" /\ known' = known
      BY <2>1, <3>3 DEF Adapter!OpenFails, Adapter!In
    <3>5. ASSUME NEW t \in Sessions, Plays(t)' PROVE Plays(t)
      BY <1>1, <3>4, <3>5, Heard DEF Plays, Named
    <3> QED BY <1>1, <2>6, <3>4, <3>5 DEF Lost, Over
  <2> QED BY <1>1, <2>5, <2>6, Alike, LiveOnes DEF Adapter!Live
<1>4. CASE call.op # "open"
  <2>1. Adapter!Known = {call.s}
    BY <1>1, <1>4 DEF AdInv, CallInv
  <2>2. ~Lost
    BY <2>1, LostCall
  <2>3. \A s \in Sessions : Plays(s) => s = call.s
    BY <1>1, <2>1 DEF AdInv, OneInv, Plays, Adapter!Known
  <2>4. CASE known'[call.s] # "no"
    <3>1. \A s \in Adapter!Live : Plays(s) => Plays(s)'
      BY <2>3, <2>4, LiveOnes DEF Plays, Adapter!Live
    <3> QED BY <1>1, <2>2, <3>1, Alike
  <2>5. CASE Adapter!CloseGoesOn("cleaned")
    <3>1. call'.op = "cleaned" /\ call'.s = call.s
      BY <2>5 DEF Adapter!CloseGoesOn, Adapter!In
    <3>2. context'[call.s] = "closed"
      BY <3>1 DEF AdInv, DoneInv, Done
    <3>3. call.s \notin Adapter!Live
      BY <1>1, <3>2 DEF Adapter!Live
    <3>4. \A s \in Adapter!Live : Plays(s) => Plays(s)'
      BY <2>3, <3>3, LiveOnes DEF Adapter!Live
    <3> QED BY <1>1, <2>2, <3>4, Alike
  <2>6. known[call.s] # "no" /\ known \in [Sessions -> {"no", "usable", "headed", "unusable"}]
    BY <1>1, <2>1 DEF Adapter!Known, AdapterTypes
  <2>7. CASE call.op \in Adapter!UseOps
    <3>1. Adapter!UseFails(r.value = "error") \/ Adapter!UseReturns
      BY <1>4, <2>7 DEF Adapter!Receive, Adapter!UseOps
    <3> QED BY <2>4, <2>6, <3>1 DEF Adapter!UseFails, Adapter!UseReturns, Adapter!Poison
  <2>8. CASE call.op = "close"
    <3>1. \/ Adapter!CloseGoesOn("unknown") \/ Adapter!CloseGoesOn("acted")
          \/ Adapter!CloseRaises \/ Adapter!CloseGoesOn("cleaned")
      BY <2>8 DEF Adapter!Receive, Adapter!UseOps, Adapter!HasOutcome
    <3>2. ~Adapter!CloseGoesOn("cleaned") => known'[call.s] # "no"
      BY <1>1, <2>6, <3>1 DEF Adapter!CloseGoesOn, Adapter!CloseRaises
    <3> QED BY <2>4, <2>5, <3>1, <3>2
  <2> QED BY <1>1, <1>4, <2>7, <2>8 DEF Adapter!Ops
<1> QED BY <1>3, <1>4

LEMMA TimeOutLeak ==
  ASSUME AdInv, LeakInv, Adapter!TimeOut
  PROVE  LeakInv'
<1>1. /\ call.at = "wait" /\ responses' = responses /\ UNCHANGED <<held, context>>
      /\ AdapterTypes /\ call.op \in Adapter!Ops /\ responses = <<>> /\ call.s \in Sessions
  BY Waiting DEF Adapter!TimeOut, Adapter!thread
<1>2. ~Lost
  <2>1. ~Failing
    BY <1>1, Sizes DEF Failing
  <2> QED BY <1>1, <2>1, LostCall
<1>3. Adapter!OpenFails \/ Adapter!UseFails(TRUE) \/ Adapter!CloseGoesOn("unknown")
  BY <1>1 DEF Adapter!TimeOut, Adapter!UseOps, Adapter!Ops
<1>4. \A s \in Sessions : known[s] # "no" => known'[s] # "no"
  BY <1>1, <1>3 DEF Adapter!OpenFails, Adapter!UseFails, Adapter!Poison, Adapter!CloseGoesOn,
     AdapterTypes
<1>5. \A s \in Adapter!Live : Plays(s) => Plays(s)'
  BY <1>1, <1>4, LiveOnes DEF Plays, Named, Adapter!Live
<1> QED BY <1>1, <1>2, <1>5, Alike

LEMMA JoinLeak ==
  ASSUME AdInv, LeakInv, Adapter!Join
  PROVE  LeakInv'
<1>1. /\ call.at = "join" /\ stopped /\ call' = Adapter!Idle
      /\ UNCHANGED <<known, responses, worker, held, context>>
      /\ (call.op # "cleaned" => stopped' = stopped)
  BY DEF Adapter!Join, Adapter!Returns, Adapter!thread, AdInv, CallInv
<1>2. \A s \in Sessions : Plays(s)' = Plays(s)
  BY <1>1 DEF Plays, Named
<1>3. Lost => Lost'
  BY <1>1, <1>2 DEF Lost, Failing, Over, Adapter!Idle
<1> QED BY <1>1, <1>2, <1>3, Alike, LiveOnes DEF Adapter!Live

LEMMA ReadyLeak ==
  ASSUME AdInv, LeakInv, Adapter!Ready
  PROVE  LeakInv'
<1>1. PICK v \in {"ready", "error"} :
        /\ worker.at = "starting"
        /\ responses' = Append(responses, [op |-> "ready", s |-> NoOne, value |-> v])
        /\ UNCHANGED <<known, held, context>>
  BY DEF Adapter!Ready, Adapter!Put, Adapter!Answer, Adapter!adapter
<1> DEFINE r == [op |-> "ready", s |-> NoOne, value |-> v]
<1>2. r \in Replies
  BY <1>1 DEF Replies, Fits, Adapter!Values, Adapter!UseOps, Adapter!Ops, Receipts
<1>3. /\ Len(responses') = Len(responses) + 1 /\ Len(responses) \in Nat
      /\ \A i \in 1..Len(responses) : responses'[i] = responses[i]
  BY <1>1, <1>2, OnAppend DEF AdInv, AdapterTypes
<1>4. \A i \in 1..Len(responses) : i \in 1..Len(responses')
  BY <1>3
<1>5. \A s \in Adapter!Live : Plays(s) => Plays(s)'
  BY <1>1, <1>3, <1>4 DEF Plays, Named
<1>6. ~Lost
  BY <1>1 DEF Lost, Over
<1> QED BY <1>1, <1>5, <1>6, Alike

LEMMA TakeLeak ==
  ASSUME AdInv, LeakInv, Adapter!Take
  PROVE  LeakInv'
<1>1. worker.at = "loop" /\ UNCHANGED <<known, responses, held, context>>
  BY DEF Adapter!Take, Adapter!adapter
<1>2. \A s \in Adapter!Live : Plays(s) => Plays(s)'
  BY <1>1 DEF Plays, Named
<1>3. ~Lost
  BY <1>1 DEF Lost, Over
<1> QED BY <1>1, <1>2, <1>3, Alike

LEMMA DoLeak ==
  ASSUME AdInv, LeakInv, Adapter!Do
  PROVE  LeakInv'
<1> DEFINE q == worker.req
<1>1. PICK v \in Adapter!Values : Does(v)
  BY DoDoes
<1>2. /\ UNCHANGED <<call, known, stopped>> /\ Adapter!Known' = Adapter!Known /\ InWork /\ ~Over /\ q.s \in Sessions
      /\ (held = {} => \A t \in Sessions : ~Plays(t))
  BY DoFacts DEF Stays
<1>3. \A s \in Adapter!Live : Plays(s)
  BY <1>2 DEF LeakInv, Lost
<1>4. \A t \in Sessions : t # q.s => context'[t] = context[t]
  BY <1>1 DEF Does
<1>5. DOMAIN context' = Sessions /\ DOMAIN context = Sessions
  BY <1>1, LiveOnes DEF Does
<1>6. held = {} => \A s \in Adapter!Live' : s = q.s
  BY <1>2, <1>3, <1>4, <1>5 DEF Adapter!Live
<1>7. CASE DidOpen
  BY <1>2, <1>6, <1>7 DEF DidOpen, LeakInv, Plays
<1>8. CASE DidNotOpen(v) /\ held = {}
  <2>1. Over' /\ ~DidOpen /\ v \in {"error", "refused"}
    BY <1>8 DEF DidNotOpen, DidOpen, Over
  <2>2. \A t \in Sessions : ~Plays(t)'
    BY <1>1, <1>2, <1>8, <2>1, DoPlays
  <2>3. call'.op # "cleaned"
    BY <1>2 DEF AdInv, DoneInv
  <2>4. ASSUME ~stopped PROVE Failing'
    <3>1. Adapter!Known = {}
      BY <1>2, <1>8 DEF Plays, Adapter!Known
    <3>2. call.at # "idle"
      BY <1>2, <2>4, <3>1 DEF AdInv, PaceInv, RestInv, CallInv, Over
    <3>3. call.at = "ready" \/ Waits("open")
      BY <2>4, <3>1, <3>2 DEF AdInv, CallInv, AdapterTypes, CallShapes, Waits
    <3>4. Len(responses) + 1 \in 1..Len(responses') /\ Adapter!IsError(responses'[Len(responses) + 1])
      <4>1. /\ Len(responses') = Len(responses) + 1 /\ Len(responses) \in Nat
            /\ responses'[Len(responses) + 1] = Adapter!Answer(q.op, q.s, v)
        BY <1>1, DoQueue
      <4> QED BY <2>1, <4>1 DEF Adapter!IsError, Adapter!Answer
    <3> QED BY <1>2, <2>4, <3>1, <3>3, <3>4 DEF Failing, Waits
  <2>5. Lost'
    BY <1>2, <2>1, <2>2, <2>3, <2>4 DEF Lost
  <2> QED BY <1>6, <1>8, <2>5 DEF LeakInv
<1>9. CASE (DidNotOpen(v) /\ held # {}) \/ DidUse(v) \/ DidClose(v) \/ DidNotClose(v)
  <2>1. ASSUME NEW s \in Adapter!Live' PROVE Plays(s)
    <3>1. s \in Sessions /\ context'[s] = "live"
      BY <1>5, <2>1 DEF Adapter!Live
    <3>2. CASE context'[s] = context[s]
      BY <1>3, <1>5, <3>1, <3>2 DEF Adapter!Live
    <3>3. CASE s = q.s /\ q.s \in held
      BY <3>3 DEF Plays
    <3> QED BY <1>4, <1>9, <3>1, <3>2, <3>3 DEF DidNotOpen, DidUse, DidClose, DidNotClose
  <2>2. ASSUME NEW s \in Sessions, Plays(s) PROVE Plays(s)'
    <3>1. CASE known[s] # "no"
      BY <1>2, <3>1 DEF Plays
    <3>2. CASE s \in held /\ ~(DidClose(v) /\ s = q.s)
      BY <1>9, <3>2 DEF DidNotOpen, DidUse, DidClose, DidNotClose, Plays
    <3>3. CASE DidClose(v) /\ s = q.s
      <4>1. /\ Len(responses') = Len(responses) + 1 /\ Len(responses) \in Nat
            /\ responses'[Len(responses) + 1] = Adapter!Answer(q.op, q.s, v)
        BY <1>1, DoQueue
      <4>2. Len(responses) + 1 \in 1..Len(responses')
        BY <4>1
      <4> QED BY <3>3, <4>1, <4>2 DEF DidClose, Adapter!Answer, Naming, Plays, Named
    <3>4. CASE Named(s)
      BY <1>1, <3>4, DoQueue DEF Plays, Named
    <3> QED BY <2>2, <3>1, <3>2, <3>3, <3>4 DEF Plays
  <2>3. \A s \in Adapter!Live' : s \in Sessions
    BY <1>5 DEF Adapter!Live
  <2> QED BY <2>1, <2>2, <2>3 DEF LeakInv, AdInv, OneInv
<1> QED BY <1>1, <1>7, <1>8, <1>9 DEF Does

LEMMA LeaveLeak ==
  ASSUME AdInv, LeakInv, Adapter!Leave
  PROVE  LeakInv'
<1>1. /\ worker.at = "leaving"
      /\ worker' = [at |-> "gone", req |-> Adapter!NoRequest] /\ held' = {}
      /\ \A s \in Sessions : context'[s] = context[s] \/ context'[s] = "closed"
      /\ UNCHANGED <<call, known, stopped, responses>>
      /\ DOMAIN context' = Sessions /\ DOMAIN context = Sessions
  BY LiveOnes DEF Adapter!Leave, Adapter!At, Adapter!adapter, Adapter!Live
<1>2. \A s \in Adapter!Live' : s \in Adapter!Live /\ s \in Sessions
  BY <1>1 DEF Adapter!Live
<1>3. \A t : Plays(t)' => Plays(t)
  BY <1>1 DEF Plays, Named
<1>4. Over' /\ (Failing => Failing')
  BY <1>1 DEF Over, Failing, Adapter!Known, Waits
<1>5. CASE Lost
  BY <1>1, <1>2, <1>3, <1>4, <1>5 DEF LeakInv, Lost
<1>6. CASE ~Lost
  <2>1. ASSUME NEW s \in Adapter!Live', ~Plays(s)' PROVE Lost'
    <3>1. Plays(s) /\ s \in Sessions
      BY <1>2, <1>6, <2>1 DEF LeakInv
    <3>2. s \in held
      BY <1>1, <2>1, <3>1 DEF Plays, Named
    <3>3. stopped
      BY <1>1, <3>2 DEF AdInv, ThreadInv
    <3>4. call.op # "cleaned"
      BY <3>2 DEF AdInv, DoneInv
    <3>5. \A t \in Sessions : ~Plays(t)'
      BY <1>3, <2>1, <3>1 DEF AdInv, OneInv
    <3> QED BY <1>1, <1>4, <3>3, <3>4, <3>5 DEF Lost
  <2> QED BY <1>2, <2>1 DEF LeakInv
<1> QED BY <1>5, <1>6

LEMMA LoopLeak ==
  ASSUME AdInv, LeakInv, Loops
  PROVE  LeakInv'
<1>1. worker.at \in {"loop", "pumping"} /\ UNCHANGED <<known, responses, held, context>>
  BY Looping
<1>2. \A s \in Adapter!Live : Plays(s) => Plays(s)'
  BY <1>1 DEF Plays, Named
<1>3. ~Lost
  BY <1>1 DEF Lost, Over
<1> QED BY <1>1, <1>2, <1>3, Alike

LEMMA LeakStep ==
  ASSUME AdInv, ExitInv, LeakInv, [Adapter!Next]_(Adapter!vars)
  PROVE  LeakInv'
<1>1. CASE \E s \in Sessions :
             Adapter!StartWorker(s) \/ Adapter!Open(s) \/ Adapter!Close(s) \/ \E op \in Adapter!UseOps : Adapter!Use(op, s)
  <2>1. call = Adapter!Idle /\ UNCHANGED <<known, responses, held, context>> /\ (~stopped \/ Adapter!Known # {})
    BY <1>1 DEF Adapter!StartWorker, Adapter!Open, Adapter!Close, Adapter!Use, Adapter!Send,
       Adapter!adapter, Adapter!thread, Adapter!Known
  <2> QED BY <2>1, AskLeak
<1>2. CASE Adapter!Caller
  BY <1>2, AdStep, WaitReadyLeak, ReceiveLeak, TimeOutLeak, JoinLeak DEF Adapter!Caller
<1>3. CASE Adapter!Worker
  BY <1>3, ReadyLeak, TakeLeak, DoLeak, LoopLeak, LeaveLeak DEF Adapter!Worker, Loops
<1>4. CASE Adapter!Shutdown \/ Adapter!ShutdownReturns \/ UNCHANGED Adapter!vars
  <2>1. UNCHANGED <<call, known, stopped, responses, worker, held, context>>
    BY <1>4 DEF Adapter!Shutdown, Adapter!ShutdownReturns, Adapter!vars, Adapter!adapter, Adapter!thread
  <2>2. \A s \in Sessions : Plays(s)' = Plays(s)
    BY <2>1 DEF Plays, Named
  <2>3. Lost => Lost'
    BY <2>1, <2>2 DEF Lost, Failing, Over, Adapter!Known, Waits
  <2> QED BY <2>1, <2>2, <2>3, Alike, LiveOnes DEF Adapter!Live
<1> QED BY <1>1, <1>2, <1>3, <1>4 DEF Adapter!Next

\* Never two contexts at once: not when an open timed out, a takeover failed or a
\* worker was left behind.
THEOREM NeverTwoContexts == Adapter!Spec => []OneContext
<1>1. Adapter!Init => LeakInv
  BY DEF Adapter!Init, LeakInv, Adapter!Live
<1>2. AdInv /\ ExitInv /\ LeakInv /\ [Adapter!Next]_(Adapter!vars) => LeakInv'
  BY LeakStep
<1>3. LeakInv => OneContext
  BY DEF LeakInv, Adapter!Live, Live, OneContext
<1> QED BY <1>1, <1>2, <1>3, AdInvariant, PTL DEF Adapter!Spec

\* The shape of every variable, and the bounds.
THEOREM AdapterTyped ==
  ASSUME MaxUses \in Nat, MaxCloses \in Nat
  PROVE  Adapter!Spec => []Adapter!TypeOK
<1> DEFINE Bounded == uses \in 0..MaxUses /\ closes \in 0..MaxCloses
<1>1. Adapter!Init => Bounded
  BY DEF Adapter!Init
<1>2. ASSUME Bounded, [Adapter!Next]_(Adapter!vars) PROVE Bounded'
  <2>1. CASE \E s \in Sessions :
               Adapter!StartWorker(s) \/ Adapter!Open(s) \/ Adapter!Close(s) \/ \E op \in Adapter!UseOps : Adapter!Use(op, s)
    BY <1>2, <2>1 DEF Adapter!StartWorker, Adapter!Open, Adapter!Close, Adapter!Use
  <2>2. CASE Adapter!Caller
    BY <1>2, <2>2 DEF Adapter!Caller, Adapter!WaitReady, Adapter!Receive, Adapter!TimeOut,
       Adapter!Join
  <2>3. CASE Adapter!Worker
    BY <1>2, <2>3 DEF Adapter!Worker, Adapter!Ready, Adapter!Take, Adapter!Pump,
       Adapter!Pumped, Adapter!Do, Adapter!Stops, Adapter!Leave
  <2>4. CASE Adapter!Shutdown \/ Adapter!ShutdownReturns \/ UNCHANGED Adapter!vars
    BY <1>2, <2>4 DEF Adapter!Shutdown, Adapter!ShutdownReturns, Adapter!vars
  <2> QED BY <1>2, <2>1, <2>2, <2>3, <2>4 DEF Adapter!Next
<1> DEFINE Shapes == [op : Adapter!Ops \cup {"ready"}, s : Sessions \cup {NoOne}, value : Adapter!Values]
<1>3. \A q \in Seq(Replies) : q \in Seq(Shapes)
  <2>1. Replies \subseteq Shapes
    BY DEF Replies
  <2> HIDE DEF Shapes
  <2> QED BY <2>1
<1>4. AdInv /\ ExitInv /\ Bounded => Adapter!TypeOK
  BY <1>3 DEF AdInv, AdapterTypes, ExitInv, CallShapes, Adapter!TypeOK
<1> HIDE DEF Bounded
<1> QED BY <1>1, <1>2, <1>4, AdInvariant, PTL DEF Adapter!Spec

-----------------------------------------------------------------------------
(* The adapter keeps the promise of the port                               *)

\* What a request can do to a context: make it live, close it, or neither.
LEMMA DoContext ==
  ASSUME AdInv, Adapter!Do
  PROVE  LET s == worker.req.s IN
           \/ context' = context
           \/ context' = [context EXCEPT ![s] = "closed"]
           \/ /\ context' = [context EXCEPT ![s] = "live"]
              /\ s \in held \/ (held = {} /\ worker.req.op = "open")
<1> DEFINE q == worker.req
<1>1. q \in Adapter!Requests /\ q.s \in Sessions /\ InWork /\ context \in [Sessions -> {"none", "live", "closed"}]
  BY DoFacts DEF AdInv, AdapterTypes
<1>2. q.op \in {"open", "observe", "execute", "takeover", "close"}
  BY <1>1 DEF Adapter!Requests, Adapter!Ops, Adapter!UseOps
<1>3. \A c : c = context[q.s] => [context EXCEPT ![q.s] = c] = context
  BY <1>1
<1>4. CASE q.op = "open"
  <2>1. ToOpen(q.s)
    BY <1>1, <1>4 DEF ToOpen, Adapter!Requests
  <2>2. context[q.s] = "none"
    BY <1>1, <2>1 DEF AdInv, BornInv, Unborn
  <2>3. Adapter!DoOpen(q.s)
    BY <1>4 DEF Adapter!Do
  <2> QED BY <1>3, <1>4, <2>2, <2>3 DEF Adapter!DoOpen, Adapter!Free
<1>5. CASE q.op \in {"observe", "execute"}
  BY <1>5 DEF Adapter!Do, Adapter!DoUse
<1>6. CASE q.op = "takeover"
  <2>1. Adapter!DoTakeover(q.s)
    BY <1>6 DEF Adapter!Do
  <2> QED BY <1>3, <2>1 DEF Adapter!DoTakeover
<1>7. CASE q.op = "close"
  <2>1. Adapter!DoClose(q.s)
    BY <1>7 DEF Adapter!Do
  <2> QED BY <1>3, <2>1 DEF Adapter!DoClose
<1> QED BY <1>2, <1>4, <1>5, <1>6, <1>7

\* While the worker works on a request, the only context there can be is the one
\* the request is about, if that is held or if nothing is.
LEMMA DoAlone ==
  ASSUME AdInv, LeakInv, Adapter!Do, worker.req.s \in held \/ held = {}
  PROVE  Adapter!Live \subseteq {worker.req.s}
<1>1. ~Lost /\ worker.req.s \in Sessions /\ (held = {} => \A t \in Sessions : ~Plays(t))
  BY DoFacts DEF Lost
<1>2. \A t \in Adapter!Live : t \in Sessions /\ Plays(t)
  BY <1>1, LiveOnes DEF LeakInv
<1> QED BY <1>1, <1>2 DEF AdInv, OneInv, Plays

LEMMA DoIsEnv ==
  ASSUME AdInv, LeakInv, Adapter!Do
  PROVE  Adapter!EnvNext
<1> DEFINE q == worker.req
<1>1. Adapter!Alive /\ ~shut /\ UNCHANGED <<cleaned, shut, misread>> /\ q.s \in Sessions
  BY DoFacts DEF Adapter!Alive, Over, Stays
<1>2. DOMAIN context = Sessions /\ context \in [Sessions -> {"none", "live", "closed"}]
  BY LiveOnes DEF AdInv, AdapterTypes
<1>3. CASE context' = context
  BY <1>1, <1>3 DEF Adapter!EnvNext
<1>4. CASE context' = [context EXCEPT ![q.s] = "closed"]
  <2>1. Adapter!Closes({q.s})
    BY <1>2, <1>4 DEF Adapter!Closes
  <2> QED BY <1>1, <1>2, <2>1 DEF Adapter!EnvNext
<1>5. CASE /\ context' = [context EXCEPT ![q.s] = "live"]
           /\ q.s \in held \/ (held = {} /\ q.op = "open")
  <2>1. q.op = "open" => ToOpen(q.s)
    BY <1>1, DoFacts DEF ToOpen, Adapter!Requests
  <2>2. q.s \notin cleaned
    BY <1>1, <1>5, <2>1 DEF AdInv, DoneInv, Done
  <2>3. Adapter!Launches(q.s)
    BY <1>5, <2>2, DoAlone DEF Adapter!Launches
  <2> QED BY <1>1, <1>2, <2>3 DEF Adapter!EnvNext
<1> QED BY <1>3, <1>4, <1>5, DoContext

LEMMA LeaveIsEnv ==
  ASSUME AdInv, Adapter!Leave
  PROVE  Adapter!EnvNext
<1>1. Adapter!Alive /\ ~shut /\ UNCHANGED <<cleaned, shut, misread>>
  BY DEF Adapter!Leave, AdInv, ShutInv, Adapter!Alive, Adapter!ghosts
<1>2. PICK S \in SUBSET Adapter!Live : context' = [s \in Sessions |-> IF s \in S THEN "closed" ELSE context[s]]
  BY DEF Adapter!Leave
<1>3. S \in SUBSET DOMAIN context /\ Adapter!Closes(S)
  BY <1>2, LiveOnes DEF Adapter!Closes
<1> QED BY <1>1, <1>3 DEF Adapter!EnvNext

\* A close reports CLEANED, or returns what is no receipt of its own, at the end,
\* when the worker has been joined.
LEMMA JoinIsEnv ==
  ASSUME AdInv, Adapter!Join
  PROVE  Adapter!EnvNext
<1>1. ~shut /\ UNCHANGED <<context, shut, worker>> /\ call.at = "join"
  BY DEF Adapter!Join, AdInv, ShutInv, Adapter!thread, Adapter!Idle
<1>2. CASE call.op = "cleaned" /\ ~Adapter!Alive
  <2>1. call.s \in Sessions /\ context[call.s] = "closed"
    BY <1>2 DEF AdInv, DoneInv, Done
  <2>2. Adapter!ReportsCleaned(call.s)
    BY <1>1, <1>2, <2>1 DEF Adapter!Join, Adapter!ReportsCleaned
  <2> QED BY <1>1, <2>1, <2>2, LiveOnes DEF Adapter!EnvNext
<1>3. CASE call.op = "acted" /\ ~Adapter!Alive
  <2>1. call.s \in Sessions
    BY <1>1, <1>3 DEF AdInv, CallInv
  <2>2. Adapter!Misreports(call.s)
    BY <1>1, <1>3 DEF Adapter!Join, Adapter!Misreports, Adapter!Alive
  <2> QED BY <1>1, <2>1, <2>2, LiveOnes DEF Adapter!EnvNext
<1>4. CASE ~(call.op \in {"cleaned", "acted"} /\ ~Adapter!Alive)
  BY <1>1, <1>4 DEF Adapter!Join, Adapter!EnvNext
<1> QED BY <1>2, <1>3, <1>4

\* A shutdown that raises is no step of the port.
LEMMA ShutdownIsEnv ==
  ASSUME AdInv, ExitInv, AdInv', Adapter!ShutdownReturns
  PROVE  Adapter!EnvNext
<1>1. /\ ~shut /\ UNCHANGED <<context, cleaned, misread, worker>>
      /\ (shut' => shut' = TRUE) /\ (~shut' => shut' = shut)
  BY DEF Adapter!ShutdownReturns, AdInv, AdapterTypes, ShutInv, Adapter!thread
<1>2. ASSUME shut' PROVE Adapter!ShutsDown
  <2>1. Adapter!Live' \subseteq misread' /\ worker'.at = "gone"
    BY <1>2 DEF AdInv, ShutInv
  <2> QED BY <1>1, <1>2, <2>1 DEF Adapter!ShutsDown, Adapter!Live, Adapter!Alive
<1> QED BY <1>1, <1>2 DEF Adapter!EnvNext

\* Every step of the caller and of the worker is a step of the port, or none.
LEMMA StepIsEnv ==
  ASSUME AdInv, ExitInv, LeakInv, [Adapter!Next]_(Adapter!vars)
  PROVE  [Adapter!EnvNext]_<<context, cleaned, shut, misread, Adapter!Alive>>
<1>1. CASE \E s \in Sessions :
             Adapter!StartWorker(s) \/ Adapter!Open(s) \/ Adapter!Close(s) \/ \E op \in Adapter!UseOps : Adapter!Use(op, s)
  <2>1. ~shut /\ UNCHANGED <<context, cleaned, shut, misread>>
    BY <1>1 DEF Adapter!StartWorker, Adapter!Open, Adapter!Close, Adapter!Use, Adapter!thread,
       Adapter!ghosts
  <2> QED BY <2>1 DEF Adapter!EnvNext
<1>2. CASE Adapter!WaitReady \/ Adapter!Receive \/ Adapter!TimeOut \/ Adapter!Shutdown
  <2>1. UNCHANGED <<context, cleaned, shut, misread, worker>>
    BY <1>2 DEF Adapter!WaitReady, Adapter!Receive, Adapter!TimeOut, Adapter!Shutdown,
       Adapter!thread, Adapter!ghosts
  <2> QED BY <2>1 DEF Adapter!Alive
<1>3. CASE Adapter!Ready \/ Adapter!Take
  <2>1. worker.at # "gone" /\ UNCHANGED <<context, cleaned, shut, misread>>
    BY <1>3 DEF Adapter!Ready, Adapter!Take, Adapter!ghosts
  <2> QED BY <2>1 DEF Adapter!EnvNext, AdInv, ShutInv
<1>4. CASE Loops
  <2>1. worker.at # "gone" /\ UNCHANGED <<context, cleaned, shut, misread>>
    BY <1>4, Looping
  <2> QED BY <2>1 DEF Adapter!EnvNext, AdInv, ShutInv
<1>5. CASE UNCHANGED Adapter!vars
  BY <1>5 DEF Adapter!vars, Adapter!thread, Adapter!ghosts, Adapter!Alive
<1>6. AdInv'
  BY AdStep
<1> QED BY <1>1, <1>2, <1>3, <1>4, <1>5, <1>6, DoIsEnv, LeaveIsEnv, JoinIsEnv,
       ShutdownIsEnv DEF Adapter!Next, Adapter!Caller, Adapter!Worker, Loops

\* The adapter, with its queues, late answers and workers left behind, does what the
\* port promises and nothing else.
THEOREM PromiseKept == Adapter!Spec => EnvSpec
<1>1. Live = Adapter!Live /\ Alive = Adapter!Alive /\ (EnvNext <=> Adapter!EnvNext)
      /\ (EnvInit <=> Adapter!EnvInit)
  BY DEF Live, Adapter!Live, Alive, Adapter!Alive, EnvNext, Adapter!EnvNext, EnvInit,
     Adapter!EnvInit,
     Launches, Adapter!Launches, Closes, Adapter!Closes, ReportsCleaned, Adapter!ReportsCleaned,
     Misreports, Adapter!Misreports, ShutsDown, Adapter!ShutsDown
<1>2. ASSUME Adapter!Init PROVE LeakInv /\ EnvInit
  <2>1. /\ context = [s \in Sessions |-> "none"] /\ worker.at = "gone"
        /\ cleaned = {} /\ ~shut /\ misread = {}
    BY <1>2 DEF Adapter!Init
  <2>2. Adapter!Live = {}
    BY <2>1 DEF Adapter!Live
  <2> QED BY <1>1, <1>2, <2>1, <2>2, InitAdInv DEF LeakInv, Adapter!EnvInit, Adapter!Alive
<1>3. AdInv /\ ExitInv /\ LeakInv /\ [Adapter!Next]_(Adapter!vars) =>
        LeakInv' /\ [EnvNext]_<<context, cleaned, shut, misread, Alive>>
  <2>1. Alive' = Adapter!Alive'
    BY DEF Alive, Adapter!Alive
  <2> QED BY <1>1, <2>1, LeakStep, StepIsEnv
<1> QED BY <1>2, <1>3, AdInvariant, PTL DEF Adapter!Spec, EnvSpec

\* The promise of the port is enough for the tools that rely on it, whatever
\* implements it: the writer lock is released only after a close that says CLEANED.
THEOREM PromiseIsEnough ==
  EnvSpec => [](CleanedIsClosed /\ OneContext /\ ShutdownHonest)
<1> DEFINE Safe == /\ cleaned \subseteq DOMAIN context
                   /\ CleanedIsClosed /\ OneContext /\ ShutdownHonest
<1>1. EnvInit => Safe
  BY DEF EnvInit, CleanedIsClosed, OneContext, ShutdownHonest, Live
<1>2. ASSUME Safe, EnvNext PROVE Safe'
  <2>1. CASE UNCHANGED <<context, cleaned, shut, misread>>
    BY <1>2, <2>1 DEF EnvNext, CleanedIsClosed, OneContext, ShutdownHonest,
       Live, Alive, ReportsCleaned, Misreports, ShutsDown
  <2>2. ASSUME NEW s \in DOMAIN context, Launches(s), UNCHANGED <<cleaned, shut, misread>> PROVE Safe'
    <3>1. DOMAIN context' = DOMAIN context
          /\ \A t \in DOMAIN context : context'[t] = IF t = s THEN "live" ELSE context[t]
      BY <2>2 DEF Launches
    <3>2. \A t \in Live' : t = s
      BY <2>2, <3>1 DEF Launches, Live
    <3>3. CleanedIsClosed'
      BY <1>2, <2>2, <3>1 DEF Launches, CleanedIsClosed
    <3> QED BY <1>2, <2>2, <3>1, <3>2, <3>3 DEF EnvNext, OneContext, ShutdownHonest
  <2>3. ASSUME NEW S \in SUBSET DOMAIN context, Closes(S), UNCHANGED <<cleaned, shut, misread>> PROVE Safe'
    <3>1. DOMAIN context' = DOMAIN context
          /\ \A t \in DOMAIN context : context'[t] = IF t \in S THEN "closed" ELSE context[t]
      BY <2>3 DEF Closes
    <3>2. Live' \subseteq Live
      BY <3>1 DEF Live
    <3>3. CleanedIsClosed' /\ OneContext'
      BY <1>2, <2>3, <3>1, <3>2 DEF CleanedIsClosed, OneContext
    <3> QED BY <1>2, <2>3, <3>1, <3>3 DEF EnvNext, ShutdownHonest
  <2>4. ASSUME NEW s \in DOMAIN context, ReportsCleaned(s) PROVE Safe'
    <3>1. Live' = Live /\ ~shut'
      BY <1>2, <2>4 DEF EnvNext, ReportsCleaned, Live
    <3> QED BY <1>2, <2>4, <3>1 DEF ReportsCleaned, CleanedIsClosed, OneContext,
               ShutdownHonest
  <2>5. CASE ShutsDown
    <3>1. Live' = Live
      BY <2>5 DEF ShutsDown, Live
    <3> QED BY <1>2, <2>5, <3>1 DEF ShutsDown, CleanedIsClosed, OneContext,
               ShutdownHonest
  <2>6. ASSUME NEW s \in DOMAIN context, Misreports(s) PROVE Safe'
    <3>1. Live' = Live /\ ~shut'
      BY <1>2, <2>6 DEF EnvNext, Misreports, Live
    <3> QED BY <1>2, <2>6, <3>1 DEF Misreports, CleanedIsClosed, OneContext, ShutdownHonest
  <2> QED BY <1>2, <2>1, <2>2, <2>3, <2>4, <2>5, <2>6 DEF EnvNext
<1>3. ASSUME Safe, UNCHANGED <<context, cleaned, shut, misread, Alive>> PROVE Safe'
  BY <1>3 DEF CleanedIsClosed, OneContext, ShutdownHonest, Live
<1> HIDE DEF Safe
<1>4. Safe => CleanedIsClosed /\ OneContext /\ ShutdownHonest
  BY DEF Safe
<1> QED BY <1>1, <1>2, <1>3, <1>4, PTL DEF EnvSpec
=============================================================================
