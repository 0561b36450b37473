------------------------ MODULE OwnedObjectsProofs ------------------------
(***************************************************************************)
(* Proofs about OwnedObjects, for any number of processes, occurrences,    *)
(* diffs and checkpoints, of writes that fail and of deaths: what was      *)
(* reported as deleted is gone, a workspace is captured before it goes,    *)
(* and what is not listed was cut short.                                   *)
(*                                                                         *)
(* The proof rests on the flock.  Who holds it knows what became of the    *)
(* object it works on, because every change of a payload or of a metadata  *)
(* file is made under it; what was read before it is not relied on.        *)
(***************************************************************************)
EXTENDS OwnedObjects, TLAPS

-----------------------------------------------------------------------------
(* The inductive invariant                                                 *)

\* The steps under the flock, and those of a capture.
Holding == {"copy", "placed", "admit", "diff", "diffplaced", "mark", "undo", "undone", "removed"}
Capturing == {"read", "scanned", "diff", "diffplaced", "mark", "undo", "undone", "captured"}

\* The object an operation is about, at each of its steps.
About(x) ==
  /\ x.step \in {"copy", "placed"} => x.id \in {Source} \cup Workspaces
  /\ x.step = "admit" => x.id \in Points
  /\ x.step \in Capturing => x.id \in Workspaces
  /\ x.step \in {"delete", "removed"} => x.id \in Objects

\* What a process knows of the payload (pl) and the metadata (mt) it works on.
Knows(x, pl, mt) ==
  /\ x.step \in {"copy", "placed"} => mt[x.id] = "none"
  /\ x.step = "placed" => x.id \in pl
  /\ x.step = "diffplaced" =>
       diffOf[x.id] # None /\ diffOf[x.id] \in pl /\ mt[diffOf[x.id]] = "none"
  /\ x.step \in {"read", "scanned", "diff"} => ~x.made
  /\ (x.step = "mark" /\ x.made) \/ x.step = "undo" =>
       diffOf[x.id] # None /\ mt[diffOf[x.id]] = "there"
  /\ x.step = "undone" => diffOf[x.id] # None /\ diffOf[x.id] \notin pl
  /\ x.step = "removed" => x.id \notin pl

\* An installation that is under way: the object is there and its metadata not yet.
Installs(x, id) ==
  \/ x.step = "placed" /\ x.id = id
  \/ x.step = "diffplaced" /\ diffOf[x.id] = id

LockInv == \A p \in Procs : at[p].step \in Holding => flock = p
WorkInv == \A p \in Procs : About(at[p]) /\ Knows(at[p], payload, meta)

\* Only a diff ever loses its metadata.
ListInv ==
  /\ \A id \in (manifest \cup told) \ Diffs : meta[id] # "none"
  /\ CleanedIsGone /\ CaptureFirst

CutInv ==
  \A id \in payload : meta[id] = "none" => id \in cut \/ \E p \in Procs : Installs(at[p], id)

Inv == TypeOK /\ LockInv /\ WorkInv /\ ListInv /\ CutInv

-----------------------------------------------------------------------------
(* What a step keeps                                                       *)

Operations == [step : Steps, id : Objects \cup {None}, made : BOOLEAN]
Moved(p) == \A q \in Procs : q # p => at'[q] = at[q]

\* What holds of a process.
LEMMA Facts ==
  ASSUME Inv, NEW p \in Procs
  PROVE  /\ at \in [Procs -> Operations] /\ at[p] \in Operations
         /\ About(at[p]) /\ Knows(at[p], payload, meta)
         /\ at[p].step \in Holding => flock = p
         /\ payload \subseteq Stored /\ meta \in [Objects -> {"none", "there", "captured", "cleaned"}]
         /\ cut \subseteq Stored /\ diffOf \in [Workspaces -> Diffs \cup {None}]
         /\ Stored \subseteq Objects /\ NoProc \notin Procs /\ faults \in Nat
  BY OwnedAssumption DEF Inv, TypeOK, WorkInv, LockInv, Operations, Objects

LEMMA GoesShape ==
  ASSUME Inv, NEW p \in Procs, NEW step \in Steps, Goes(p, step)
  PROVE  /\ at' \in [Procs -> Operations] /\ Moved(p)
         /\ at'[p].step = step /\ at'[p].id = at[p].id /\ at'[p].made = at[p].made
<1>1. at \in [Procs -> Operations] /\ at' = [at EXCEPT ![p].step = step]
  BY Facts DEF Goes
<1> QED BY <1>1 DEF Moved, Operations

LEMMA EndsShape ==
  ASSUME Inv, NEW p \in Procs, Ends(p)
  PROVE  /\ at' \in [Procs -> Operations] /\ Moved(p) /\ at'[p] = Idle /\ Idle.step = "idle"
         /\ About(Idle) /\ \A pl, mt : Knows(Idle, pl, mt)
         /\ \A id : ~Installs(Idle, id)
<1>1. at \in [Procs -> Operations] /\ at' = [at EXCEPT ![p] = Idle]
  BY Facts DEF Ends
<1>2. Idle \in Operations /\ Idle.step = "idle"
  BY DEF Idle, Operations, Steps
<1>3. About(Idle) /\ (\A pl, mt : Knows(Idle, pl, mt)) /\ \A id : ~Installs(Idle, id)
  BY <1>2 DEF About, Capturing, Knows, Installs
<1>4. at' \in [Procs -> Operations] /\ Moved(p) /\ at'[p] = Idle
  BY <1>1, <1>2 DEF Moved
<1> QED BY <1>2, <1>3, <1>4

LEMMA StartsShape ==
  ASSUME Inv, NEW p \in Procs, NEW step \in Steps, NEW id \in Objects, Starts(p, step, id)
  PROVE  /\ at' \in [Procs -> Operations] /\ Moved(p) /\ at[p].step = "idle"
         /\ at'[p].step = step /\ at'[p].id = id /\ at'[p].made = FALSE
<1> DEFINE x == [step |-> step, id |-> id, made |-> FALSE]
<1>1. at \in [Procs -> Operations] /\ at' = [at EXCEPT ![p] = x] /\ at[p] = Idle
  BY Facts DEF Starts
<1>2. x \in Operations /\ x.step = step /\ x.id = id /\ x.made = FALSE
  BY DEF Operations
<1> HIDE DEF x
<1> QED BY <1>1, <1>2 DEF Moved, Idle

\* A step of one process: what the others know is of what only the holder of the flock
\* changes.
LEMMA StepKeeps ==
  ASSUME Inv, NEW p \in Procs, TypeOK', Moved(p), diffOf' = diffOf,
         \A q \in Procs : q # p /\ flock = q => flock' = q,
         at'[p].step \in Holding => flock' = p,
         \/ UNCHANGED <<payload, meta>>
         \/ at[p].step \in Holding
         \/ flock = NoProc,
         About(at'[p]), Knows(at'[p], payload', meta'), ListInv', cut \subseteq cut',
         \A id \in payload' : meta'[id] = "none" =>
           \/ id \in cut' \/ Installs(at'[p], id)
           \/ id \in payload /\ meta[id] = "none" /\ ~Installs(at[p], id)
  PROVE  Inv'
<1>1. LockInv'
  <2> SUFFICES ASSUME NEW q \in Procs, at'[q].step \in Holding PROVE flock' = q
    BY DEF LockInv
  <2>1. CASE q = p
    BY <2>1
  <2>2. CASE q # p
    BY <2>2, Facts DEF Moved
  <2> QED BY <2>1, <2>2
<1>2. WorkInv'
  <2>1. \A q \in Procs : About(at'[q]) /\ Knows(at'[q], payload', meta')
    <3> SUFFICES ASSUME NEW q \in Procs PROVE About(at'[q]) /\ Knows(at'[q], payload', meta')
      OBVIOUS
    <3>1. CASE q = p
      BY <3>1
    <3>2. CASE q # p
      <4>1. at'[q] = at[q] /\ About(at[q]) /\ Knows(at[q], payload, meta)
        BY <3>2, Facts DEF Moved
      <4>2. CASE UNCHANGED <<payload, meta>>
        BY <4>1, <4>2
      <4>3. CASE at[p].step \in Holding \/ flock = NoProc
        <5>1. at[q].step \notin Holding
          BY <3>2, <4>3, Facts
        <5>2. Knows(at[q], payload', meta')
          BY <4>1, <5>1 DEF Knows, Holding
        <5> QED BY <4>1, <5>2
      <4> QED BY <4>2, <4>3
    <3> QED BY <3>1, <3>2
  <2>2. WorkInv' <=> \A q \in Procs : About(at'[q]) /\ Knows(at'[q], payload', meta')
    BY DEF WorkInv, About, Knows
  <2> QED BY <2>1, <2>2
<1>3. CutInv'
  <2> SUFFICES ASSUME NEW id \in payload', meta'[id] = "none", id \notin cut'
               PROVE  \E q \in Procs : Installs(at'[q], id)
    BY DEF CutInv, Installs
  <2>1. CASE Installs(at'[p], id)
    BY <2>1
  <2>2. CASE ~Installs(at'[p], id)
    <3>1. id \in payload /\ meta[id] = "none" /\ ~Installs(at[p], id) /\ id \notin cut
      BY <2>2
    <3>2. PICK q \in Procs : Installs(at[q], id)
      BY <3>1 DEF Inv, CutInv
    <3>3. q # p /\ at'[q] = at[q]
      BY <3>1, <3>2 DEF Moved
    <3> QED BY <3>2, <3>3
  <2> QED BY <2>1, <2>2
<1> QED BY <1>1, <1>2, <1>3 DEF Inv

\* A step that touches no file.
LEMMA QuietKeeps ==
  ASSUME Inv, NEW p \in Procs, TypeOK', Moved(p), UNCHANGED <<diffOf, payload, meta>>,
         \A q \in Procs : q # p /\ flock = q => flock' = q,
         at'[p].step \in Holding => flock' = p,
         About(at'[p]), Knows(at'[p], payload, meta), ListInv', cut \subseteq cut',
         \A id : Installs(at[p], id) => id \in cut'
  PROVE  Inv'
<1>1. \A id \in payload' : meta'[id] = "none" =>
        \/ id \in cut' \/ Installs(at'[p], id)
        \/ id \in payload /\ meta[id] = "none" /\ ~Installs(at[p], id)
  OBVIOUS
<1>2. Knows(at'[p], payload', meta')
  OBVIOUS
<1> QED BY <1>1, <1>2, StepKeeps

\* What is listed and what was told, when files come and go.
LEMMA ListKeeps ==
  ASSUME Inv, UNCHANGED <<manifest, told>>,
         \A id \in Objects \ Diffs : meta[id] # "none" => meta'[id] # "none",
         \A id \in payload' \ payload : meta[id] = "none" /\ id \in Objects,
         \A id \in Stored : meta'[id] = "cleaned" => id \notin payload',
         \A w \in Workspaces : meta'[w] = "there" => w \in payload'
  PROVE  ListInv'
<1>1. manifest \subseteq Objects /\ told \subseteq Objects
  BY DEF Inv, TypeOK
<1>2. /\ \A id \in (manifest \cup told) \ Diffs : meta[id] # "none"
      /\ told \cap payload \subseteq Diffs
  BY DEF Inv, ListInv, CleanedIsGone
<1>3. \A id \in (manifest' \cup told') \ Diffs : meta'[id] # "none"
  BY <1>1, <1>2
<1>4. told' \cap payload' \subseteq Diffs
  <2> SUFFICES ASSUME NEW id \in told, id \in payload', id \notin Diffs PROVE FALSE
    OBVIOUS
  <2>1. id \notin payload
    BY <1>2
  <2> QED BY <2>1, <1>2
<1> QED BY <1>3, <1>4 DEF ListInv, CleanedIsGone, CaptureFirst

LEMMA ListSame ==
  ASSUME Inv, UNCHANGED <<manifest, told, payload, meta>>
  PROVE  ListInv'
  BY DEF Inv, ListInv, CleanedIsGone, CaptureFirst

LEMMA FaultCount ==
  ASSUME Inv, NEW n \in Nat, Faults(n)
  PROVE  faults' \in 0..MaxFaults /\ faults' = faults + n
  BY OwnedAssumption DEF Inv, TypeOK, Faults

-----------------------------------------------------------------------------
(* Directories                                                             *)

LEMMA StartKeeps ==
  ASSUME Inv, NEW p \in Procs, UNCHANGED diffOf,
         \/ \E id \in {Source} \cup Workspaces : StartDirectory(p, id)
         \/ \E id \in Points : StartPoint(p, id)
  PROVE  Inv'
<1>1. PICK step \in {"copy", "admit"}, id \in {Source} \cup Workspaces \cup Points :
        /\ Starts(p, step, id) /\ meta[id] = "none"
        /\ step = "copy" => id \in {Source} \cup Workspaces
        /\ step = "admit" => id \in Points
  BY DEF StartDirectory, StartPoint
<1>2. /\ flock = NoProc /\ flock' = p
      /\ UNCHANGED <<payload, meta, residue, cut, manifest, told, unknown, faults, crashes>>
  BY DEF StartDirectory, StartPoint, Locks
<1>3. id \in Objects /\ step \in Steps
  BY DEF Objects, Stored, Steps
<1>4. /\ at' \in [Procs -> Operations] /\ Moved(p) /\ at[p].step = "idle"
      /\ at'[p].step = step /\ at'[p].id = id
  BY <1>1, <1>3, StartsShape
<1>5. TypeOK'
  BY <1>2, <1>4 DEF Inv, TypeOK, Operations
<1>6. About(at'[p]) /\ Knows(at'[p], payload, meta)
  BY <1>1, <1>4 DEF About, Capturing, Knows
<1>7. \A q \in Procs : q # p /\ flock = q => flock' = q
  BY <1>2, Facts
<1>8. \A i : ~Installs(at[p], i)
  BY <1>4 DEF Installs
<1>9. ListInv'
  BY <1>2, ListSame
<1> QED BY <1>2, <1>4, <1>5, <1>6, <1>7, <1>8, <1>9, QuietKeeps

LEMMA PlaceKeeps ==
  ASSUME Inv, NEW p \in Procs, PlaceDirectory(p), UNCHANGED diffOf
  PROVE  Inv'
<1> DEFINE id == at[p].id
<1>1. /\ at[p].step = "copy" /\ UNCHANGED <<meta, residue, manifest, told, unknown, crashes>>
      /\ at[p].step \in Holding
  BY DEF PlaceDirectory, In, Holding
<1>2. /\ id \in {Source} \cup Workspaces /\ meta[id] = "none" /\ flock = p
      /\ id \in Stored /\ id \in Objects
  BY <1>1, Facts DEF About, Knows, Stored, Objects
<1>3. \A i : ~Installs(at[p], i)
  BY <1>1 DEF Installs
<1>4. \A i \in Objects : meta'[i] = meta[i]
  BY <1>1
<1>5. ListInv /\ CutInv /\ TypeOK
  BY DEF Inv
<1>6. CASE /\ id \in payload /\ Ends(p) /\ Unlocks(p) /\ UNCHANGED <<payload, cut, faults>>
  <2>1. TypeOK'
    BY <1>1, <1>5, <1>6, EndsShape DEF TypeOK, Unlocks, Operations
  <2>2. ListInv' /\ \A q \in Procs : q # p /\ flock = q => flock' = q
    BY <1>1, <1>6, ListSame DEF Unlocks
  <2> QED BY <1>1, <1>3, <1>6, <2>1, <2>2, EndsShape, QuietKeeps DEF Holding
<1>7. CASE /\ id \notin payload /\ payload' = payload \cup {id}
           /\ \/ Goes(p, "placed") /\ UNCHANGED <<flock, cut, faults>>
              \/ Fault /\ cut' = cut \cup {id} /\ Ends(p) /\ Unlocks(p)
  <2>1. payload' \subseteq Stored /\ cut' \subseteq Stored /\ cut \subseteq cut'
    BY <1>2, <1>5, <1>7 DEF TypeOK
  <2>2. ListInv'
    BY <1>1, <1>2, <1>4, <1>5, <1>7, ListKeeps DEF ListInv, CleanedIsGone, CaptureFirst, Stored
  <2>3. CASE Goes(p, "placed") /\ UNCHANGED <<flock, cut, faults>>
    <3>1. /\ at' \in [Procs -> Operations] /\ Moved(p)
          /\ at'[p].step = "placed" /\ at'[p].id = id
      BY <2>3, GoesShape DEF Steps
    <3>2. TypeOK'
      BY <1>1, <1>5, <2>1, <2>3, <3>1 DEF TypeOK, Operations
    <3>3. About(at'[p]) /\ Knows(at'[p], payload', meta') /\ Installs(at'[p], id)
      BY <1>1, <1>2, <1>7, <3>1 DEF About, Capturing, Knows, Installs
    <3>4. \A i \in payload' : meta'[i] = "none" =>
            i \in cut' \/ Installs(at'[p], i) \/ (i \in payload /\ meta[i] = "none" /\ ~Installs(at[p], i))
      BY <1>1, <1>3, <1>7, <3>3
    <3> QED BY <1>1, <1>2, <2>1, <2>2, <2>3, <3>1, <3>2, <3>3, <3>4, StepKeeps
  <2>4. CASE Fault /\ cut' = cut \cup {id} /\ Ends(p) /\ Unlocks(p)
    <3>1. faults' \in 0..MaxFaults
      BY <2>4, FaultCount DEF Fault
    <3>2. TypeOK'
      BY <1>1, <1>5, <2>1, <2>4, <3>1, EndsShape DEF TypeOK, Unlocks, Operations
    <3>3. \A i \in payload' : meta'[i] = "none" =>
            i \in cut' \/ Installs(at'[p], i) \/ (i \in payload /\ meta[i] = "none" /\ ~Installs(at[p], i))
      BY <1>1, <1>3, <1>7, <2>4
    <3>4. \A q \in Procs : q # p /\ flock = q => flock' = q
      BY <2>4 DEF Unlocks
    <3>5. /\ Moved(p) /\ at'[p].step \notin Holding /\ About(at'[p])
          /\ Knows(at'[p], payload', meta')
      BY <2>4, EndsShape DEF Holding
    <3> QED BY <1>1, <2>1, <2>2, <3>2, <3>3, <3>4, <3>5, StepKeeps
  <2> QED BY <1>7, <2>3, <2>4
<1> QED BY <1>6, <1>7 DEF PlaceDirectory, CutShort

\* What is left when _write_meta fails: all, nothing, or an object cut short.
LEMMA AdmitDirectoryKeeps ==
  ASSUME Inv, NEW p \in Procs, AdmitDirectory(p), UNCHANGED diffOf
  PROVE  Inv'
<1> DEFINE id == at[p].id
<1>1. /\ at[p].step = "placed" /\ Ends(p) /\ Unlocks(p) /\ at[p].step \in Holding
      /\ UNCHANGED <<residue, manifest, told, unknown, crashes>>
      /\ cut' = IF faults' = faults + 2 THEN cut \cup {id} ELSE cut
  BY DEF AdmitDirectory, In, Holding
<1>2. /\ id \in {Source} \cup Workspaces /\ meta[id] = "none" /\ id \in payload
      /\ id \in Stored /\ id \in Objects /\ id \notin Diffs
  BY <1>1, Facts, OwnedAssumption DEF About, Knows, Stored, Objects
<1>3. \A i : Installs(at[p], i) => i = id
  BY <1>1 DEF Installs
<1>4. ListInv /\ CutInv /\ TypeOK
  BY DEF Inv
<1>5. /\ Moved(p) /\ at'[p].step \notin Holding /\ About(at'[p])
      /\ Knows(at'[p], payload', meta') /\ at' \in [Procs -> Operations]
  BY <1>1, EndsShape DEF Holding
<1>6. /\ cut \subseteq cut' /\ cut' \subseteq Stored
      /\ \A q \in Procs : q # p /\ flock = q => flock' = q
      /\ flock' \in Procs \cup {NoProc}
  BY <1>1, <1>2, <1>4 DEF Unlocks, TypeOK
<1>7. faults' \in 0..MaxFaults
  BY <1>4, FaultCount DEF AdmitDirectory, Fault, TypeOK
<1>8. CASE Meta(id, "there") /\ UNCHANGED payload
  <2>1. meta' = [meta EXCEPT ![id] = "there"]
    BY <1>8 DEF Meta
  <2>2. /\ meta' \in [Objects -> {"none", "there", "captured", "cleaned"}]
        /\ meta'[id] = "there" /\ \A i \in Objects : i # id => meta'[i] = meta[i]
    BY <1>2, <1>4, <2>1 DEF TypeOK
  <2>3. TypeOK'
    BY <1>1, <1>4, <1>5, <1>6, <1>7, <1>8, <2>2 DEF TypeOK, Operations
  <2>4. ListInv'
    <3>1. \A i \in Stored : meta'[i] = "cleaned" => i \notin payload'
      BY <1>4, <1>8, <2>2 DEF ListInv, CleanedIsGone, Objects
    <3>2. \A w \in Workspaces : meta'[w] = "there" => w \in payload'
      BY <1>2, <1>4, <1>8, <2>2 DEF ListInv, CaptureFirst, Objects, Stored
    <3>3. \A i \in Objects \ Diffs : meta[i] # "none" => meta'[i] # "none"
      BY <2>2
    <3> QED BY <1>1, <1>8, <3>1, <3>2, <3>3, ListKeeps
  <2>5. \A i \in payload' : meta'[i] = "none" => i \in payload /\ meta[i] = "none" /\ ~Installs(at[p], i)
    BY <1>3, <1>4, <1>8, <2>2 DEF TypeOK, Objects
  <2> QED BY <1>1, <1>5, <1>6, <2>3, <2>4, <2>5, StepKeeps
<1>9. CASE payload' = Undone(id) /\ UNCHANGED meta
  <2>1. payload' = payload \ {id}
    BY <1>9 DEF Undone
  <2>2. TypeOK'
    BY <1>1, <1>4, <1>5, <1>6, <1>7, <1>9, <2>1 DEF TypeOK, Operations
  <2>3. ListInv'
    <3>1. \A i \in Stored : meta'[i] = "cleaned" => i \notin payload'
      BY <1>4, <1>9, <2>1 DEF ListInv, CleanedIsGone
    <3>2. \A w \in Workspaces : meta'[w] = "there" => w \in payload'
      BY <1>2, <1>4, <1>9, <2>1 DEF ListInv, CaptureFirst
    <3> QED BY <1>1, <1>9, <2>1, <3>1, <3>2, ListKeeps
  <2>4. \A i \in payload' : meta'[i] = "none" => i \in payload /\ meta[i] = "none" /\ ~Installs(at[p], i)
    BY <1>3, <1>9, <2>1
  <2> QED BY <1>1, <1>5, <1>6, <2>2, <2>3, <2>4, StepKeeps
<1>10. CASE Faults(2) /\ UNCHANGED <<payload, meta>>
  <2>1. faults' = faults + 2 /\ id \in cut'
    BY <1>1, <1>10 DEF Faults
  <2>2. TypeOK'
    BY <1>1, <1>4, <1>5, <1>6, <1>7, <1>10 DEF TypeOK, Operations
  <2>3. ListInv'
    BY <1>1, <1>10, ListSame
  <2>4. \A i : Installs(at[p], i) => i \in cut'
    BY <1>3, <2>1
  <2>5. Knows(at'[p], payload, meta)
    BY <1>5, <1>10
  <2> QED BY <1>5, <1>6, <1>10, <2>2, <2>3, <2>4, <2>5, QuietKeeps
<1> QED BY <1>8, <1>9, <1>10 DEF AdmitDirectory

LEMMA AdmitPointKeeps ==
  ASSUME Inv, NEW p \in Procs, AdmitPoint(p), UNCHANGED diffOf
  PROVE  Inv'
<1> DEFINE id == at[p].id
<1>1. /\ at[p].step = "admit" /\ Ends(p) /\ Unlocks(p) /\ at[p].step \in Holding
      /\ UNCHANGED <<payload, residue, cut, manifest, told, unknown, crashes>>
      /\ meta' = meta \/ meta' = [meta EXCEPT ![id] = "there"]
  BY DEF AdmitPoint, In, Holding, Meta
<1>2. id \in Points /\ id \in Objects /\ id \notin Stored
  BY <1>1, Facts, OwnedAssumption DEF About, Objects
<1>3. \A i : ~Installs(at[p], i)
  BY <1>1 DEF Installs
<1>4. ListInv /\ CutInv /\ TypeOK
  BY DEF Inv
<1>5. /\ Moved(p) /\ at'[p].step \notin Holding /\ About(at'[p])
      /\ Knows(at'[p], payload', meta') /\ at' \in [Procs -> Operations]
  BY <1>1, EndsShape DEF Holding
<1>6. /\ \A q \in Procs : q # p /\ flock = q => flock' = q
      /\ flock' \in Procs \cup {NoProc}
  BY <1>1, <1>4 DEF Unlocks, TypeOK
<1>7. faults' \in 0..MaxFaults
  BY <1>4, FaultCount DEF AdmitPoint, Fault, TypeOK
<1>8. /\ meta' \in [Objects -> {"none", "there", "captured", "cleaned"}]
      /\ \A i \in Objects : meta'[i] = meta[i] \/ (i = id /\ meta'[i] = "there")
  BY <1>1, <1>2, <1>4 DEF TypeOK
<1>9. TypeOK'
  BY <1>1, <1>4, <1>5, <1>6, <1>7, <1>8 DEF TypeOK, Operations
<1>10. \A i \in Stored : meta'[i] = meta[i]
  BY <1>2, <1>8 DEF Objects
<1>11. ListInv'
  <2>1. \A i \in Stored : meta'[i] = "cleaned" => i \notin payload'
    BY <1>1, <1>4, <1>10 DEF ListInv, CleanedIsGone
  <2>2. \A w \in Workspaces : meta'[w] = "there" => w \in payload'
    BY <1>1, <1>4, <1>10 DEF ListInv, CaptureFirst, Stored
  <2>3. \A i \in Objects \ Diffs : meta[i] # "none" => meta'[i] # "none"
    BY <1>8
  <2> QED BY <1>1, <2>1, <2>2, <2>3, ListKeeps
<1>12. \A i \in payload' : meta'[i] = "none" => i \in payload /\ meta[i] = "none" /\ ~Installs(at[p], i)
  BY <1>1, <1>3, <1>4, <1>10 DEF TypeOK
<1> QED BY <1>1, <1>5, <1>6, <1>9, <1>11, <1>12, StepKeeps

-----------------------------------------------------------------------------
(* Captures                                                                *)

LEMMA ReadKeeps ==
  ASSUME Inv, NEW p \in Procs, UNCHANGED diffOf,
         \/ \E w \in Workspaces : ReadCapture(p, w)
         \/ Scan(p) \/ LeaseCapture(p)
  PROVE  Inv'
<1>1. /\ UNCHANGED <<payload, meta, residue, cut, manifest, told, unknown, faults, crashes>>
      /\ ListInv' /\ TypeOK
  BY ListSame DEF ReadCapture, Scan, LeaseCapture, Inv
<1>2. CASE \E w \in Workspaces : ReadCapture(p, w)
  <2>1. PICK w \in Workspaces, step \in {"read", "captured"} : Starts(p, step, w) /\ flock' = flock
    BY <1>2 DEF ReadCapture
  <2>2. w \in Objects /\ step \in Steps
    BY DEF Objects, Stored, Steps
  <2>3. /\ at' \in [Procs -> Operations] /\ Moved(p) /\ at[p].step = "idle"
        /\ at'[p].step = step /\ at'[p].id = w /\ ~at'[p].made
    BY <2>1, <2>2, StartsShape
  <2>4. TypeOK'
    BY <1>1, <2>1, <2>3 DEF TypeOK, Operations
  <2>5. /\ About(at'[p]) /\ Knows(at'[p], payload, meta) /\ at'[p].step \notin Holding
        /\ \A i : ~Installs(at[p], i)
    BY <2>3 DEF About, Capturing, Knows, Holding, Installs
  <2> QED BY <1>1, <2>1, <2>3, <2>4, <2>5, QuietKeeps
<1>3. CASE Scan(p) \/ LeaseCapture(p)
  <2>1. at[p].step \in {"read", "scanned"} /\ at[p].id \in Workspaces
    BY <1>3, Facts DEF Scan, LeaseCapture, In, About, Capturing
  <2>2. ~at[p].made /\ \A i : ~Installs(at[p], i)
    BY <2>1, Facts DEF Installs, Knows
  <2>3. CASE Ends(p) /\ UNCHANGED flock
    <3>1. /\ at' \in [Procs -> Operations] /\ Moved(p) /\ About(at'[p])
          /\ Knows(at'[p], payload, meta) /\ at'[p].step \notin Holding
      BY <2>3, EndsShape DEF Holding
    <3>2. TypeOK'
      BY <1>1, <2>3, <3>1 DEF TypeOK, Operations
    <3> QED BY <1>1, <2>2, <2>3, <3>1, <3>2, QuietKeeps
  <2>4. CASE Goes(p, "scanned") /\ UNCHANGED flock
    <3>1. /\ at' \in [Procs -> Operations] /\ Moved(p) /\ at'[p].step = "scanned"
          /\ at'[p].id = at[p].id /\ at'[p].made = at[p].made
      BY <2>4, GoesShape DEF Steps
    <3>2. TypeOK'
      BY <1>1, <2>4, <3>1 DEF TypeOK, Operations
    <3>3. About(at'[p]) /\ Knows(at'[p], payload, meta) /\ at'[p].step \notin Holding
      BY <2>1, <2>2, <3>1 DEF About, Capturing, Knows, Holding
    <3> QED BY <1>1, <2>2, <2>4, <3>1, <3>2, <3>3, QuietKeeps
  <2>5. CASE Locks(p) /\ Goes(p, "diff")
    <3>1. /\ at' \in [Procs -> Operations] /\ Moved(p) /\ at'[p].step = "diff"
          /\ at'[p].id = at[p].id /\ at'[p].made = at[p].made
      BY <2>5, GoesShape DEF Steps
    <3>2. TypeOK'
      BY <1>1, <2>5, <3>1 DEF TypeOK, Operations, Locks
    <3>3. About(at'[p]) /\ Knows(at'[p], payload, meta)
      BY <2>1, <2>2, <3>1 DEF About, Capturing, Knows
    <3>4. flock' = p /\ \A q \in Procs : q # p /\ flock = q => flock' = q
      BY <2>5, Facts DEF Locks
    <3> QED BY <1>1, <2>2, <3>1, <3>2, <3>3, <3>4, QuietKeeps
  <2> QED BY <1>3, <2>3, <2>4, <2>5 DEF Scan, LeaseCapture
<1> QED BY <1>2, <1>3

\* The object of a capture and its diff.
LEMMA DiffFacts ==
  ASSUME Inv, NEW p \in Procs, at[p].step \in Capturing
  PROVE  /\ at[p].id \in Workspaces /\ at[p].id \in Stored /\ at[p].id \in Objects
         /\ at[p].id \notin Diffs
         /\ diffOf[at[p].id] # None =>
              /\ diffOf[at[p].id] \in Diffs /\ diffOf[at[p].id] \in Stored
              /\ diffOf[at[p].id] \in Objects /\ diffOf[at[p].id] \notin Workspaces
  BY Facts, OwnedAssumption DEF About, Stored, Objects

LEMMA InstallDiffKeeps ==
  ASSUME Inv, NEW p \in Procs, InstallDiff(p), UNCHANGED diffOf
  PROVE  Inv'
<1> DEFINE id == at[p].id
           d == diffOf[id]
<1>1. /\ at[p].step = "diff" /\ at[p].step \in Holding /\ at[p].step \in Capturing
      /\ UNCHANGED <<meta, residue, manifest, told, unknown, crashes>>
  BY DEF InstallDiff, In, Holding, Capturing
<1>2. /\ id \in Workspaces /\ flock = p /\ ~at[p].made /\ at \in [Procs -> Operations]
      /\ d # None => d \in Diffs /\ d \in Stored /\ d \in Objects /\ d \notin Workspaces
  BY <1>1, Facts, DiffFacts DEF Knows
<1>3. \A i : ~Installs(at[p], i)
  BY <1>1 DEF Installs
<1>4. ListInv /\ CutInv /\ TypeOK
  BY DEF Inv
<1>5. CASE /\ Goes(p, "mark") /\ UNCHANGED <<payload, flock, cut, faults>>
  <2>1. /\ at' \in [Procs -> Operations] /\ Moved(p)
        /\ at'[p].step = "mark" /\ at'[p].id = id /\ at'[p].made = at[p].made
    BY <1>5, GoesShape DEF Steps
  <2>2. About(at'[p]) /\ Knows(at'[p], payload, meta)
    BY <1>2, <2>1 DEF About, Capturing, Knows
  <2>3. TypeOK'
    BY <1>1, <1>4, <1>5, <2>1 DEF TypeOK, Operations
  <2>4. ListInv'
    BY <1>1, <1>5, ListSame
  <2> QED BY <1>1, <1>2, <1>3, <1>5, <2>1, <2>2, <2>3, <2>4, QuietKeeps
<1>6. CASE /\ d # None /\ Kept(d) /\ at' = [at EXCEPT ![p].step = "mark", ![p].made = TRUE]
           /\ UNCHANGED <<payload, flock, cut, faults>>
  <2>1. /\ at' \in [Procs -> Operations] /\ Moved(p)
        /\ at'[p].step = "mark" /\ at'[p].id = id
    BY <1>2, <1>6 DEF Moved, Operations, Steps
  <2>2. About(at'[p]) /\ Knows(at'[p], payload, meta)
    BY <1>2, <1>6, <2>1 DEF About, Capturing, Knows, Kept
  <2>3. TypeOK'
    BY <1>1, <1>4, <1>6, <2>1 DEF TypeOK, Operations
  <2>4. ListInv'
    BY <1>1, <1>6, ListSame
  <2> QED BY <1>1, <1>2, <1>3, <1>6, <2>1, <2>2, <2>3, <2>4, QuietKeeps
<1>7. CASE /\ d # None /\ Absent(d) /\ payload' = payload \cup {d}
           /\ \/ Goes(p, "diffplaced") /\ UNCHANGED <<flock, cut, faults>>
              \/ Fault /\ cut' = cut \cup {d} /\ Ends(p) /\ Unlocks(p)
  <2>1. payload' \subseteq Stored /\ cut' \subseteq Stored /\ cut \subseteq cut'
    BY <1>2, <1>4, <1>7 DEF TypeOK
  <2>2. ListInv'
    <3>1. \A i \in Stored : meta'[i] = "cleaned" => i \notin payload'
      BY <1>1, <1>4, <1>7 DEF ListInv, CleanedIsGone, Absent
    <3>2. \A w \in Workspaces : meta'[w] = "there" => w \in payload'
      BY <1>1, <1>4, <1>7 DEF ListInv, CaptureFirst
    <3> QED BY <1>1, <1>2, <1>7, <3>1, <3>2, ListKeeps DEF Absent
  <2>3. CASE Goes(p, "diffplaced") /\ UNCHANGED <<flock, cut, faults>>
    <3>1. /\ at' \in [Procs -> Operations] /\ Moved(p)
          /\ at'[p].step = "diffplaced" /\ at'[p].id = id
      BY <2>3, GoesShape DEF Steps
    <3>2. TypeOK'
      BY <1>1, <1>4, <2>1, <2>3, <3>1 DEF TypeOK, Operations
    <3>3. About(at'[p]) /\ Knows(at'[p], payload', meta') /\ Installs(at'[p], d)
      BY <1>1, <1>2, <1>7, <3>1 DEF About, Capturing, Knows, Installs, Absent
    <3>4. \A i \in payload' : meta'[i] = "none" =>
            i \in cut' \/ Installs(at'[p], i) \/ (i \in payload /\ meta[i] = "none" /\ ~Installs(at[p], i))
      BY <1>1, <1>3, <1>7, <3>3
    <3> QED BY <1>1, <1>2, <2>1, <2>2, <2>3, <3>1, <3>2, <3>3, <3>4, StepKeeps
  <2>4. CASE Fault /\ cut' = cut \cup {d} /\ Ends(p) /\ Unlocks(p)
    <3>1. faults' \in 0..MaxFaults
      BY <2>4, FaultCount DEF Fault
    <3>2. TypeOK'
      BY <1>1, <1>4, <2>1, <2>4, <3>1, EndsShape DEF TypeOK, Unlocks, Operations
    <3>3. \A i \in payload' : meta'[i] = "none" =>
            i \in cut' \/ Installs(at'[p], i) \/ (i \in payload /\ meta[i] = "none" /\ ~Installs(at[p], i))
      BY <1>1, <1>3, <1>7, <2>4
    <3>4. \A q \in Procs : q # p /\ flock = q => flock' = q
      BY <2>4 DEF Unlocks
    <3>5. /\ Moved(p) /\ at'[p].step \notin Holding /\ About(at'[p])
          /\ Knows(at'[p], payload', meta')
      BY <2>4, EndsShape DEF Holding
    <3> QED BY <1>1, <2>1, <2>2, <3>2, <3>3, <3>4, <3>5, StepKeeps
  <2> QED BY <1>7, <2>3, <2>4
<1>8. CASE Ends(p) /\ Unlocks(p) /\ UNCHANGED <<payload, cut, faults>>
  <2>1. TypeOK'
    BY <1>1, <1>4, <1>8, EndsShape DEF TypeOK, Unlocks, Operations
  <2>2. ListInv' /\ \A q \in Procs : q # p /\ flock = q => flock' = q
    BY <1>1, <1>8, ListSame DEF Unlocks
  <2>3. /\ Moved(p) /\ at'[p].step \notin Holding /\ About(at'[p])
        /\ Knows(at'[p], payload, meta)
    BY <1>8, EndsShape DEF Holding
  <2> QED BY <1>1, <1>3, <1>8, <2>1, <2>2, <2>3, QuietKeeps
<1> QED BY <1>5, <1>6, <1>7, <1>8 DEF InstallDiff, CutShort

LEMMA AdmitDiffKeeps ==
  ASSUME Inv, NEW p \in Procs, AdmitDiff(p), UNCHANGED diffOf
  PROVE  Inv'
<1> DEFINE id == at[p].id
           d == diffOf[id]
<1>1. /\ at[p].step = "diffplaced" /\ at[p].step \in Holding /\ at[p].step \in Capturing
      /\ UNCHANGED <<residue, manifest, told, unknown, crashes>>
      /\ cut' = IF faults' = faults + 2 THEN cut \cup {d} ELSE cut
  BY DEF AdmitDiff, In, Holding, Capturing
<1>2. /\ id \in Workspaces /\ flock = p /\ at \in [Procs -> Operations]
      /\ d # None /\ meta[d] = "none" /\ d \in payload
      /\ d \in Diffs /\ d \in Stored /\ d \in Objects /\ d \notin Workspaces
  BY <1>1, Facts, DiffFacts DEF Knows
<1>3. \A i : Installs(at[p], i) => i = d
  BY <1>1 DEF Installs
<1>4. ListInv /\ CutInv /\ TypeOK
  BY DEF Inv
<1>5. /\ cut \subseteq cut' /\ cut' \subseteq Stored
  BY <1>1, <1>2, <1>4 DEF TypeOK
<1>6. faults' \in 0..MaxFaults
  BY <1>4, FaultCount DEF AdmitDiff, Fault, TypeOK
<1>7. \/ /\ at' = [at EXCEPT ![p].step = "mark", ![p].made = TRUE] /\ UNCHANGED flock
         /\ Meta(d, "there") /\ UNCHANGED payload
      \/ /\ Ends(p) /\ Unlocks(p)
         /\ \/ payload' = Undone(d) /\ UNCHANGED meta
            \/ Meta(d, "there") /\ UNCHANGED payload
            \/ Faults(2) /\ UNCHANGED <<payload, meta>>
  BY DEF AdmitDiff
<1>8. /\ at' \in [Procs -> Operations] /\ Moved(p)
      /\ \A q \in Procs : q # p /\ flock = q => flock' = q
      /\ flock' \in Procs \cup {NoProc}
      /\ at'[p].step \in Holding => flock' = p
      /\ About(at'[p])
  <2>1. CASE at' = [at EXCEPT ![p].step = "mark", ![p].made = TRUE] /\ UNCHANGED flock
    <3>1. /\ at' \in [Procs -> Operations] /\ Moved(p) /\ at'[p].step = "mark" /\ at'[p].id = id
      BY <1>2, <2>1 DEF Moved, Operations, Steps
    <3>2. About(at'[p])
      BY <1>2, <3>1 DEF About, Capturing
    <3> QED BY <1>2, <2>1, <3>1, <3>2
  <2>2. CASE Ends(p) /\ Unlocks(p)
    BY <1>4, <2>2, EndsShape DEF Unlocks, TypeOK, Holding
  <2> QED BY <1>7, <2>1, <2>2
<1>9. CASE Meta(d, "there") /\ UNCHANGED payload
  <2>1. meta' = [meta EXCEPT ![d] = "there"]
    BY <1>9 DEF Meta
  <2>2. /\ meta' \in [Objects -> {"none", "there", "captured", "cleaned"}]
        /\ meta'[d] = "there" /\ \A i \in Objects : i # d => meta'[i] = meta[i]
    BY <1>2, <1>4, <2>1 DEF TypeOK
  <2>3. TypeOK'
    BY <1>1, <1>4, <1>5, <1>6, <1>8, <1>9, <2>2 DEF TypeOK, Operations
  <2>4. ListInv'
    <3>1. \A i \in Stored : meta'[i] = "cleaned" => i \notin payload'
      BY <1>4, <1>9, <2>2 DEF ListInv, CleanedIsGone, Objects
    <3>2. \A w \in Workspaces : meta'[w] = "there" => w \in payload'
      BY <1>2, <1>4, <1>9, <2>2 DEF ListInv, CaptureFirst, Objects, Stored
    <3>3. \A i \in Objects \ Diffs : meta[i] # "none" => meta'[i] # "none"
      BY <2>2
    <3> QED BY <1>1, <1>9, <3>1, <3>2, <3>3, ListKeeps
  <2>5. \A i \in payload' : meta'[i] = "none" => i \in payload /\ meta[i] = "none" /\ ~Installs(at[p], i)
    BY <1>3, <1>4, <1>9, <2>2 DEF TypeOK, Objects
  <2>6. Knows(at'[p], payload', meta')
    <3>1. CASE at' = [at EXCEPT ![p].step = "mark", ![p].made = TRUE]
      <4>1. at'[p].step = "mark" /\ at'[p].id = id
        BY <1>2, <3>1 DEF Operations
      <4> QED BY <1>2, <2>2, <4>1 DEF Knows
    <3>2. CASE Ends(p)
      BY <3>2, EndsShape
    <3> QED BY <1>7, <3>1, <3>2
  <2> QED BY <1>1, <1>5, <1>8, <2>3, <2>4, <2>5, <2>6, StepKeeps
<1>10. CASE Ends(p) /\ payload' = Undone(d) /\ UNCHANGED meta
  <2>1. payload' = payload \ {d}
    BY <1>10 DEF Undone
  <2>2. TypeOK'
    BY <1>1, <1>4, <1>5, <1>6, <1>8, <1>10, <2>1 DEF TypeOK, Operations
  <2>3. ListInv'
    <3>1. \A i \in Stored : meta'[i] = "cleaned" => i \notin payload'
      BY <1>4, <1>10, <2>1 DEF ListInv, CleanedIsGone
    <3>2. \A w \in Workspaces : meta'[w] = "there" => w \in payload'
      BY <1>2, <1>4, <1>10, <2>1 DEF ListInv, CaptureFirst
    <3> QED BY <1>1, <1>10, <2>1, <3>1, <3>2, ListKeeps
  <2>4. \A i \in payload' : meta'[i] = "none" => i \in payload /\ meta[i] = "none" /\ ~Installs(at[p], i)
    BY <1>3, <1>10, <2>1
  <2>5. Knows(at'[p], payload', meta')
    BY <1>10, EndsShape
  <2> QED BY <1>1, <1>5, <1>8, <2>2, <2>3, <2>4, <2>5, StepKeeps
<1>11. CASE Ends(p) /\ Faults(2) /\ UNCHANGED <<payload, meta>>
  <2>1. faults' = faults + 2 /\ d \in cut'
    BY <1>1, <1>11 DEF Faults
  <2>2. TypeOK'
    BY <1>1, <1>4, <1>5, <1>6, <1>8, <1>11 DEF TypeOK, Operations
  <2>3. ListInv'
    BY <1>1, <1>11, ListSame
  <2>4. \A i : Installs(at[p], i) => i \in cut'
    BY <1>3, <2>1
  <2>5. Knows(at'[p], payload, meta)
    BY <1>11, EndsShape
  <2> QED BY <1>5, <1>8, <1>11, <2>2, <2>3, <2>4, <2>5, QuietKeeps
<1> QED BY <1>7, <1>9, <1>10, <1>11

\* The metadata of a workspace that is captured may be written over one that says cleaned:
\* its directory does not come back by that.
LEMMA MarkCapturedKeeps ==
  ASSUME Inv, NEW p \in Procs, MarkCaptured(p), UNCHANGED diffOf
  PROVE  Inv'
<1> DEFINE id == at[p].id
           d == diffOf[id]
<1>1. /\ at[p].step = "mark" /\ at[p].step \in Holding /\ at[p].step \in Capturing
      /\ UNCHANGED <<payload, residue, cut, manifest, told, unknown, crashes>>
  BY DEF MarkCaptured, In, Holding, Capturing
<1>2. /\ id \in Workspaces /\ id \in Objects /\ id \notin Diffs /\ flock = p
      /\ at \in [Procs -> Operations]
      /\ at[p].made => d # None /\ meta[d] = "there"
  BY <1>1, Facts, DiffFacts DEF Knows
<1>3. \A i : ~Installs(at[p], i)
  BY <1>1 DEF Installs
<1>4. ListInv /\ CutInv /\ TypeOK
  BY DEF Inv
<1>5. faults' \in 0..MaxFaults
  BY <1>4, FaultCount DEF MarkCaptured, Fault, TypeOK
<1>6. \/ Meta(id, "captured") /\ Goes(p, "captured") /\ Unlocks(p)
      \/ at[p].made /\ Goes(p, "undo") /\ UNCHANGED <<meta, flock>>
      \/ Ends(p) /\ Unlocks(p) /\ (UNCHANGED meta \/ Meta(id, "captured"))
  BY DEF MarkCaptured
<1>7. /\ at' \in [Procs -> Operations] /\ Moved(p) /\ About(at'[p])
      /\ \A q \in Procs : q # p /\ flock = q => flock' = q
      /\ flock' \in Procs \cup {NoProc}
      /\ at'[p].step \in Holding => flock' = p
  <2>1. CASE Goes(p, "captured") /\ Unlocks(p)
    <3>1. /\ at' \in [Procs -> Operations] /\ Moved(p)
          /\ at'[p].step = "captured" /\ at'[p].id = id
      BY <2>1, GoesShape DEF Steps
    <3> QED BY <1>2, <1>4, <2>1, <3>1 DEF Unlocks, TypeOK, Holding, About, Capturing
  <2>2. CASE Goes(p, "undo") /\ UNCHANGED flock
    <3>1. /\ at' \in [Procs -> Operations] /\ Moved(p)
          /\ at'[p].step = "undo" /\ at'[p].id = id
      BY <2>2, GoesShape DEF Steps
    <3> QED BY <1>2, <1>4, <2>2, <3>1 DEF TypeOK, About, Capturing
  <2>3. CASE Ends(p) /\ Unlocks(p)
    BY <1>4, <2>3, EndsShape DEF Unlocks, TypeOK, Holding
  <2> QED BY <1>6, <2>1, <2>2, <2>3
<1>8. meta' = meta \/ meta' = [meta EXCEPT ![id] = "captured"]
  BY <1>6 DEF Meta
<1>9. /\ meta' \in [Objects -> {"none", "there", "captured", "cleaned"}]
      /\ \A i \in Objects : meta'[i] = meta[i] \/ (i = id /\ meta'[i] = "captured")
  BY <1>2, <1>4, <1>8 DEF TypeOK
<1>10. TypeOK'
  BY <1>1, <1>4, <1>5, <1>7, <1>9 DEF TypeOK, Operations
<1>11. ListInv'
  <2>1. \A i \in Stored : meta'[i] = "cleaned" => i \notin payload'
    BY <1>1, <1>4, <1>9 DEF ListInv, CleanedIsGone, Objects
  <2>2. \A w \in Workspaces : meta'[w] = "there" => w \in payload'
    BY <1>1, <1>4, <1>9 DEF ListInv, CaptureFirst, Objects, Stored
  <2>3. \A i \in Objects \ Diffs : meta[i] # "none" => meta'[i] # "none"
    BY <1>9
  <2> QED BY <1>1, <2>1, <2>2, <2>3, ListKeeps
<1>12. \A i \in payload' : meta'[i] = "none" => i \in payload /\ meta[i] = "none" /\ ~Installs(at[p], i)
  BY <1>1, <1>3, <1>4, <1>9 DEF TypeOK, Objects
<1>13. Knows(at'[p], payload', meta')
  <2>1. CASE Goes(p, "captured")
    <3>1. at'[p].step = "captured"
      BY <2>1, GoesShape DEF Steps
    <3> QED BY <3>1 DEF Knows
  <2>2. CASE at[p].made /\ Goes(p, "undo") /\ UNCHANGED meta
    <3>1. at'[p].step = "undo" /\ at'[p].id = id
      BY <2>2, GoesShape DEF Steps
    <3> QED BY <1>2, <2>2, <3>1 DEF Knows
  <2>3. CASE Ends(p)
    BY <2>3, EndsShape
  <2> QED BY <1>6, <2>1, <2>2, <2>3
<1> QED BY <1>1, <1>7, <1>10, <1>11, <1>12, <1>13, StepKeeps

LEMMA RemoveInstalledKeeps ==
  ASSUME Inv, NEW p \in Procs, RemoveInstalled(p), UNCHANGED diffOf
  PROVE  Inv'
<1> DEFINE id == at[p].id
           d == diffOf[id]
<1>1. /\ at[p].step \in {"undo", "undone"} /\ at[p].step \in Holding /\ at[p].step \in Capturing
      /\ UNCHANGED <<residue, cut, manifest, told, unknown, crashes>>
  BY DEF RemoveInstalled, In, Holding, Capturing
<1>2. /\ id \in Workspaces /\ flock = p /\ at \in [Procs -> Operations] /\ d # None
      /\ d \in Diffs /\ d \in Stored /\ d \in Objects /\ d \notin Workspaces
      /\ at[p].step = "undone" => d \notin payload
  BY <1>1, Facts, DiffFacts DEF Knows
<1>3. \A i : ~Installs(at[p], i)
  BY <1>1 DEF Installs
<1>4. ListInv /\ CutInv /\ TypeOK
  BY DEF Inv
<1>5. faults' \in 0..MaxFaults
  BY <1>4, FaultCount DEF RemoveInstalled, Fault, TypeOK
<1>6. CASE payload' = payload \ {d} /\ Goes(p, "undone") /\ UNCHANGED <<meta, flock>>
  <2>1. /\ at' \in [Procs -> Operations] /\ Moved(p)
        /\ at'[p].step = "undone" /\ at'[p].id = id
    BY <1>6, GoesShape DEF Steps
  <2>2. TypeOK'
    BY <1>1, <1>4, <1>5, <1>6, <2>1 DEF TypeOK, Operations
  <2>3. ListInv'
    <3>1. \A i \in Stored : meta'[i] = "cleaned" => i \notin payload'
      BY <1>4, <1>6 DEF ListInv, CleanedIsGone
    <3>2. \A w \in Workspaces : meta'[w] = "there" => w \in payload'
      BY <1>2, <1>4, <1>6 DEF ListInv, CaptureFirst
    <3> QED BY <1>1, <1>6, <3>1, <3>2, ListKeeps
  <2>4. About(at'[p]) /\ Knows(at'[p], payload', meta')
    BY <1>2, <1>6, <2>1 DEF About, Capturing, Knows
  <2>5. \A i \in payload' : meta'[i] = "none" => i \in payload /\ meta[i] = "none" /\ ~Installs(at[p], i)
    BY <1>3, <1>6
  <2> QED BY <1>1, <1>2, <1>6, <2>1, <2>2, <2>3, <2>4, <2>5, StepKeeps
<1>7. CASE /\ Ends(p) /\ Unlocks(p) /\ UNCHANGED payload
           /\ UNCHANGED meta \/ (at[p].step = "undone" /\ Meta(d, "none"))
  <2>1. meta' = meta \/ (at[p].step = "undone" /\ meta' = [meta EXCEPT ![d] = "none"])
    BY <1>7 DEF Meta
  <2>2. /\ meta' \in [Objects -> {"none", "there", "captured", "cleaned"}]
        /\ \A i \in Objects : \/ meta'[i] = meta[i]
                              \/ i = d /\ meta'[i] = "none" /\ d \notin payload
    BY <1>2, <1>4, <2>1 DEF TypeOK
  <2>3. TypeOK'
    BY <1>1, <1>4, <1>5, <1>7, <2>2, EndsShape DEF TypeOK, Unlocks, Operations
  <2>4. ListInv'
    <3>1. \A i \in Stored : meta'[i] = "cleaned" => i \notin payload'
      BY <1>4, <1>7, <2>2 DEF ListInv, CleanedIsGone, Objects
    <3>2. \A w \in Workspaces : meta'[w] = "there" => w \in payload'
      BY <1>2, <1>4, <1>7, <2>2 DEF ListInv, CaptureFirst, Objects, Stored
    <3>3. \A i \in Objects \ Diffs : meta[i] # "none" => meta'[i] # "none"
      BY <1>2, <2>2
    <3> QED BY <1>1, <1>7, <3>1, <3>2, <3>3, ListKeeps
  <2>5. \A i \in payload' : meta'[i] = "none" => i \in payload /\ meta[i] = "none" /\ ~Installs(at[p], i)
    BY <1>3, <1>4, <1>7, <2>2 DEF TypeOK, Objects
  <2>6. /\ Moved(p) /\ at'[p].step \notin Holding /\ About(at'[p])
        /\ Knows(at'[p], payload', meta')
        /\ \A q \in Procs : q # p /\ flock = q => flock' = q
    BY <1>7, EndsShape DEF Holding, Unlocks
  <2> QED BY <1>1, <2>3, <2>4, <2>5, <2>6, StepKeeps
<1> QED BY <1>6, <1>7 DEF RemoveInstalled, In

-----------------------------------------------------------------------------
(* Deletes and the purge                                                   *)

\* What was told grows by an object whose metadata says cleaned, or by a diff.
LEMMA ToldKeeps ==
  ASSUME Inv, UNCHANGED <<payload, meta>>, manifest' \subseteq Objects,
         NEW T \in SUBSET Objects, told' = told \cup T,
         \A id \in manifest' \ manifest : meta[id] # "none",
         \A id \in T : id \in Diffs \/ meta[id] = "cleaned"
  PROVE  ListInv' /\ told' \subseteq Objects
<1>1. ListInv /\ TypeOK
  BY DEF Inv
<1>2. \A id \in T \ Diffs : id \notin payload /\ meta[id] # "none"
  <2> SUFFICES ASSUME NEW id \in T, id \notin Diffs PROVE id \notin payload /\ meta[id] # "none"
    OBVIOUS
  <2>1. meta[id] = "cleaned"
    OBVIOUS
  <2> QED BY <1>1, <2>1 DEF ListInv, CleanedIsGone, TypeOK
<1> QED BY <1>1, <1>2 DEF ListInv, CleanedIsGone, CaptureFirst, TypeOK

LEMMA PurgeKeeps ==
  ASSUME Inv, NEW p \in Procs, BeginPurge(p) \/ PurgeObject(p), UNCHANGED diffOf
  PROVE  Inv'
<1>1. /\ UNCHANGED <<payload, meta, residue, cut, flock, unknown, faults, crashes>>
      /\ TypeOK /\ ListInv
  BY DEF BeginPurge, PurgeObject, Inv
<1>2. CASE BeginPurge(p)
  <2>1. /\ manifest' = Listed /\ at' = at /\ told' = told \cup {} /\ at[p] = Idle
    BY <1>2 DEF BeginPurge
  <2>2. ListInv' /\ manifest' \subseteq Objects
    <3>1. {} \in SUBSET Objects /\ manifest' \subseteq Objects
      BY <2>1 DEF Listed
    <3>2. \A id \in manifest' \ manifest : meta[id] # "none"
      BY <2>1 DEF Listed
    <3>3. \A id \in {} : id \in Diffs \/ meta[id] = "cleaned"
      OBVIOUS
    <3>4. UNCHANGED <<payload, meta>> /\ told' = told \cup {}
      BY <1>1, <2>1
    <3> QED BY <3>1, <3>2, <3>3, <3>4, ToldKeeps
  <2>3. TypeOK'
    BY <1>1, <2>1, <2>2 DEF TypeOK
  <2>4. /\ Moved(p) /\ About(at'[p]) /\ Knows(at'[p], payload, meta)
        /\ (at'[p].step \in Holding => flock' = p) /\ \A i : ~Installs(at[p], i)
    BY <1>1, <2>1, Facts DEF Moved, Idle, Installs
  <2> QED BY <1>1, <2>2, <2>3, <2>4, QuietKeeps
<1>3. CASE PurgeObject(p)
  <2>1. PICK id \in manifest \ told :
          \/ /\ meta[id] \in {"none", "cleaned"} /\ at[p] = Idle /\ told' = told \cup {id}
             /\ UNCHANGED at
          \/ Starts(p, "delete", id) /\ UNCHANGED told
    BY <1>3 DEF PurgeObject
  <2>2. id \in Objects /\ manifest' = manifest /\ manifest \subseteq Objects
    BY <1>1, <1>3 DEF TypeOK, PurgeObject
  <2>3. CASE /\ meta[id] \in {"none", "cleaned"} /\ at[p] = Idle /\ told' = told \cup {id}
             /\ UNCHANGED at
    <3>1. id \in Diffs \/ meta[id] = "cleaned"
      BY <1>1, <2>3 DEF ListInv
    <3>2. ListInv' /\ told' \subseteq Objects
      <4>1. {id} \in SUBSET Objects /\ manifest' \subseteq Objects
        BY <2>2
      <4>2. \A i \in manifest' \ manifest : meta[i] # "none"
        BY <2>2
      <4>3. \A i \in {id} : i \in Diffs \/ meta[i] = "cleaned"
        BY <3>1
      <4>4. UNCHANGED <<payload, meta>> /\ told' = told \cup {id}
        BY <1>1, <2>3
      <4> QED BY <4>1, <4>2, <4>3, <4>4, ToldKeeps
    <3>3. TypeOK'
      BY <1>1, <2>2, <2>3, <3>2 DEF TypeOK
    <3>4. /\ Moved(p) /\ About(at'[p]) /\ Knows(at'[p], payload, meta)
          /\ (at'[p].step \in Holding => flock' = p) /\ \A i : ~Installs(at[p], i)
      BY <1>1, <2>3, Facts DEF Moved, Idle, Installs
    <3> QED BY <1>1, <3>2, <3>3, <3>4, QuietKeeps
  <2>4. CASE Starts(p, "delete", id) /\ UNCHANGED told
    <3>1. /\ at' \in [Procs -> Operations] /\ Moved(p) /\ at[p].step = "idle"
          /\ at'[p].step = "delete" /\ at'[p].id = id
      BY <2>2, <2>4, StartsShape DEF Steps
    <3>2. ListInv'
      BY <1>1, <2>2, <2>4, ListSame
    <3>3. TypeOK'
      BY <1>1, <2>2, <2>4, <3>1 DEF TypeOK, Operations
    <3>4. /\ About(at'[p]) /\ Knows(at'[p], payload, meta) /\ at'[p].step \notin Holding
          /\ \A i : ~Installs(at[p], i)
      BY <2>2, <3>1 DEF About, Capturing, Knows, Holding, Installs
    <3> QED BY <1>1, <3>1, <3>2, <3>3, <3>4, QuietKeeps
  <2> QED BY <2>1, <2>3, <2>4
<1> QED BY <1>2, <1>3

LEMMA DeleteKeeps ==
  ASSUME Inv, NEW p \in Procs, DeleteObject(p) \/ RemovalFails(p), UNCHANGED diffOf
  PROVE  Inv'
<1> DEFINE id == at[p].id
<1>1. /\ at[p].step \in {"captured", "delete"} /\ TypeOK /\ ListInv
      /\ UNCHANGED <<meta, residue, cut, manifest, crashes>>
  BY DEF DeleteObject, RemovalFails, In, Inv
<1>2. id \in Objects /\ Stored \subseteq Objects
  BY <1>1, Facts, DiffFacts DEF About, Capturing
<1>3. \A i : ~Installs(at[p], i)
  BY <1>1 DEF Installs
<1>4. faults' \in 0..MaxFaults
  BY <1>1, FaultCount DEF DeleteObject, RemovalFails, Fault, TypeOK
<1>5. CASE /\ Ends(p) /\ UNCHANGED <<payload, flock>>
           /\ unknown' \subseteq unknown \cup {id}
           /\ told' = told \/ (meta[id] = "cleaned" /\ told' = told \cup {id})
  <2>1. /\ at' \in [Procs -> Operations] /\ Moved(p) /\ About(at'[p])
        /\ Knows(at'[p], payload, meta) /\ at'[p].step \notin Holding
    BY <1>5, EndsShape DEF Holding
  <2>2. ListInv' /\ told' \subseteq Objects
    <3>1. CASE told' = told
      BY <1>1, <1>5, <3>1, ListSame DEF TypeOK
    <3>2. CASE meta[id] = "cleaned" /\ told' = told \cup {id}
      <4> HIDE DEF id
      <4>1. {id} \in SUBSET Objects /\ manifest' \subseteq Objects
        BY <1>1, <1>2 DEF TypeOK
      <4>2. \A i \in manifest' \ manifest : meta[i] # "none"
        BY <1>1
      <4>3. \A i \in {id} : i \in Diffs \/ meta[i] = "cleaned"
        BY <3>2
      <4>4. UNCHANGED <<payload, meta>> /\ told' = told \cup {id}
        BY <1>1, <1>5, <3>2
      <4> QED BY <4>1, <4>2, <4>3, <4>4, ToldKeeps
    <3> QED BY <1>5, <3>1, <3>2
  <2>3. TypeOK'
    BY <1>1, <1>2, <1>4, <1>5, <2>1, <2>2 DEF TypeOK, Operations
  <2> QED BY <1>1, <1>3, <1>5, <2>1, <2>2, <2>3, QuietKeeps
<1>6. CASE /\ meta[id] \notin {"none", "cleaned"} /\ Deletable(id) /\ Locks(p)
           /\ payload' = payload \ {id} /\ Goes(p, "removed") /\ UNCHANGED <<told, unknown, faults>>
  <2>1. /\ at' \in [Procs -> Operations] /\ Moved(p)
        /\ at'[p].step = "removed" /\ at'[p].id = id
    BY <1>6, GoesShape DEF Steps
  <2>2. /\ flock = NoProc /\ flock' = p
        /\ \A q \in Procs : q # p /\ flock = q => flock' = q
    BY <1>6, Facts DEF Locks
  <2>3. TypeOK'
    BY <1>1, <1>4, <1>6, <2>1, <2>2 DEF TypeOK, Operations
  <2>4. ListInv'
    <3>1. \A i \in Stored : meta'[i] = "cleaned" => i \notin payload'
      BY <1>1, <1>6 DEF ListInv, CleanedIsGone
    <3>2. \A w \in Workspaces : meta'[w] = "there" => w \in payload'
      BY <1>1, <1>6 DEF ListInv, CaptureFirst, Deletable
    <3> QED BY <1>1, <1>6, <3>1, <3>2, ListKeeps
  <2>5. About(at'[p]) /\ Knows(at'[p], payload', meta')
    BY <1>2, <1>6, <2>1 DEF About, Capturing, Knows
  <2>6. \A i \in payload' : meta'[i] = "none" => i \in payload /\ meta[i] = "none" /\ ~Installs(at[p], i)
    BY <1>1, <1>3, <1>6
  <2> QED BY <1>1, <2>1, <2>2, <2>3, <2>4, <2>5, <2>6, StepKeeps
<1>7. CASE DeleteObject(p)
  BY <1>5, <1>6, <1>7 DEF DeleteObject
<1>8. CASE RemovalFails(p)
  BY <1>5, <1>8 DEF RemovalFails
<1> QED BY <1>7, <1>8

LEMMA MarkCleanedKeeps ==
  ASSUME Inv, NEW p \in Procs, MarkCleaned(p), UNCHANGED diffOf
  PROVE  Inv'
<1> DEFINE id == at[p].id
<1>1. /\ at[p].step = "removed" /\ at[p].step \in Holding /\ Ends(p) /\ Unlocks(p)
      /\ UNCHANGED <<payload, residue, cut, manifest, unknown, crashes>>
      /\ TypeOK /\ ListInv
  BY DEF MarkCleaned, In, Holding, Inv
<1>2. id \in Objects /\ id \notin payload
  BY <1>1, Facts DEF About, Knows
<1>3. \A i : ~Installs(at[p], i)
  BY <1>1 DEF Installs
<1>4. faults' \in 0..MaxFaults
  BY <1>1, FaultCount DEF MarkCleaned, Fault, TypeOK
<1>5. /\ meta' = meta \/ meta' = [meta EXCEPT ![id] = "cleaned"]
      /\ told' = told \/ (meta' = [meta EXCEPT ![id] = "cleaned"] /\ told' = told \cup {id})
  BY DEF MarkCleaned, Meta
<1>6. /\ meta' \in [Objects -> {"none", "there", "captured", "cleaned"}]
      /\ \A i \in Objects : meta'[i] = meta[i] \/ (i = id /\ meta'[i] = "cleaned")
      /\ told' = told \/ (meta'[id] = "cleaned" /\ told' = told \cup {id})
  BY <1>1, <1>2, <1>5 DEF TypeOK
<1>7. /\ at' \in [Procs -> Operations] /\ Moved(p) /\ About(at'[p])
      /\ Knows(at'[p], payload', meta') /\ at'[p].step \notin Holding
      /\ \A q \in Procs : q # p /\ flock = q => flock' = q
      /\ flock' \in Procs \cup {NoProc}
  BY <1>1, EndsShape DEF Holding, Unlocks, TypeOK
<1>8. TypeOK'
  BY <1>1, <1>2, <1>4, <1>6, <1>7 DEF TypeOK, Operations
<1>9. ListInv'
  <2>1. \A i \in Stored : meta'[i] = "cleaned" => i \notin payload'
    BY <1>1, <1>2, <1>6 DEF ListInv, CleanedIsGone, Objects
  <2>2. \A w \in Workspaces : meta'[w] = "there" => w \in payload'
    BY <1>1, <1>6 DEF ListInv, CaptureFirst, Objects, Stored
  <2>3. \A i \in (manifest' \cup told') \ Diffs : meta'[i] # "none"
    BY <1>1, <1>2, <1>6 DEF ListInv, TypeOK
  <2>4. told' \cap payload' \subseteq Diffs
    BY <1>1, <1>2, <1>6 DEF ListInv, CleanedIsGone
  <2> QED BY <2>1, <2>2, <2>3, <2>4 DEF ListInv, CleanedIsGone, CaptureFirst
<1>10. \A i \in payload' : meta'[i] = "none" => i \in payload /\ meta[i] = "none" /\ ~Installs(at[p], i)
  BY <1>1, <1>3, <1>6 DEF TypeOK, Objects
<1> QED BY <1>1, <1>7, <1>8, <1>9, <1>10, StepKeeps

-----------------------------------------------------------------------------
(* Deaths, and the theorems                                                *)

LEMMA DieKeeps ==
  ASSUME Inv, NEW p \in Procs, Die(p), UNCHANGED diffOf
  PROVE  Inv'
<1>1. /\ Ends(p) /\ Unlocks(p) /\ UNCHANGED <<payload, meta, manifest, told, unknown, faults>>
      /\ crashes < MaxCrashes /\ crashes' = crashes + 1
      /\ residue' \in {residue, TRUE}
      /\ cut' = cut \cup (IF In(p, "placed") THEN {at[p].id}
                          ELSE IF In(p, "diffplaced") THEN {diffOf[at[p].id]} ELSE {})
  BY DEF Die
<1>2. /\ at[p].step = "placed" => at[p].id \in Stored
      /\ at[p].step = "diffplaced" => diffOf[at[p].id] \in Stored
  BY Facts, DiffFacts DEF About, Knows, Stored, Capturing
<1>3. cut \subseteq cut' /\ cut' \subseteq Stored
  BY <1>1, <1>2, Facts DEF In
<1>4. \A i : Installs(at[p], i) => i \in cut'
  BY <1>1 DEF Installs, In
<1>5. /\ at' \in [Procs -> Operations] /\ Moved(p) /\ About(at'[p])
      /\ Knows(at'[p], payload, meta) /\ at'[p].step \notin Holding
  BY <1>1, EndsShape DEF Holding
<1>6. TypeOK /\ crashes' \in 0..MaxCrashes
  BY <1>1, OwnedAssumption DEF Inv, TypeOK
<1>7. /\ \A q \in Procs : q # p /\ flock = q => flock' = q
      /\ flock' \in Procs \cup {NoProc}
  BY <1>1, <1>6 DEF Unlocks, TypeOK
<1>8. TypeOK'
  BY <1>1, <1>3, <1>5, <1>6, <1>7 DEF TypeOK, Operations
<1>9. ListInv'
  BY <1>1, ListSame
<1> QED BY <1>1, <1>3, <1>4, <1>5, <1>7, <1>8, <1>9, QuietKeeps

LEMMA InitIsGood == Init => Inv
<1> SUFFICES ASSUME Init PROVE Inv
  OBVIOUS
<1>1. TypeOK
  <2>1. Idle \in Operations
    BY DEF Idle, Operations, Steps
  <2>2. at \in [Procs -> Operations] /\ diffOf \in [Workspaces -> Diffs \cup {None}]
    BY <2>1 DEF Init
  <2>3. meta \in [Objects -> {"none", "there", "captured", "cleaned"}]
    BY DEF Init
  <2>4. faults \in 0..MaxFaults /\ crashes \in 0..MaxCrashes
    BY OwnedAssumption DEF Init
  <2>5. /\ payload = {} /\ residue \in BOOLEAN /\ cut = {} /\ flock = NoProc
        /\ manifest = {} /\ told = {} /\ unknown = {}
    BY DEF Init
  <2> QED BY <2>2, <2>3, <2>4, <2>5 DEF TypeOK, Operations
<1>2. \A p \in Procs : at[p] = Idle /\ Idle.step = "idle"
  BY DEF Init, Idle
<1>3. LockInv /\ WorkInv
  BY <1>2 DEF LockInv, WorkInv, About, Capturing, Knows, Holding
<1>4. ListInv /\ CutInv
  BY DEF Init, ListInv, CutInv, CleanedIsGone, CaptureFirst, Objects, Stored
<1> QED BY <1>1, <1>3, <1>4 DEF Inv

LEMMA NextKeeps == Inv /\ [Next]_vars => Inv'
<1> SUFFICES ASSUME Inv, [Next]_vars PROVE Inv'
  OBVIOUS
<1>1. CASE Next
  <2>1. PICK p \in Procs : Step(p)
    BY <1>1 DEF Next
  <2>2. UNCHANGED diffOf
    BY <1>1 DEF Next
  <2>3. CASE \/ \E id \in {Source} \cup Workspaces : StartDirectory(p, id)
             \/ \E id \in Points : StartPoint(p, id)
    BY <2>2, <2>3, StartKeeps
  <2>4. CASE PlaceDirectory(p) \/ AdmitDirectory(p) \/ AdmitPoint(p)
    BY <2>2, <2>4, PlaceKeeps, AdmitDirectoryKeeps, AdmitPointKeeps
  <2>5. CASE (\E w \in Workspaces : ReadCapture(p, w)) \/ Scan(p) \/ LeaseCapture(p)
    BY <2>2, <2>5, ReadKeeps
  <2>6. CASE InstallDiff(p) \/ AdmitDiff(p) \/ MarkCaptured(p) \/ RemoveInstalled(p)
    BY <2>2, <2>6, InstallDiffKeeps, AdmitDiffKeeps, MarkCapturedKeeps, RemoveInstalledKeeps
  <2>7. CASE BeginPurge(p) \/ PurgeObject(p) \/ DeleteObject(p) \/ RemovalFails(p)
    BY <2>2, <2>7, PurgeKeeps, DeleteKeeps
  <2>8. CASE MarkCleaned(p) \/ Die(p)
    BY <2>2, <2>8, MarkCleanedKeeps, DieKeeps
  <2> QED BY <2>1, <2>3, <2>4, <2>5, <2>6, <2>7, <2>8 DEF Step
<1>2. CASE UNCHANGED vars
  BY <1>2 DEF vars, Inv, TypeOK, LockInv, WorkInv, About, Knows, ListInv, CleanedIsGone,
              CaptureFirst, CutInv, Installs
<1> QED BY <1>1, <1>2

LEMMA FilesInvariant == Spec => []Inv
<1> QED BY InitIsGood, NextKeeps, PTL DEF Spec

\* Every reachable state is of the declared types and within its bounds.
THEOREM FilesTypes == Spec => []TypeOK
<1>1. Inv => TypeOK
  BY DEF Inv
<1> QED BY <1>1, FilesInvariant, PTL

\* What delete_owned_object reported as CLEANED is gone and stays gone, whoever is in the
\* middle of a capture, but for a diff that a rollback had unlisted.
THEOREM CleanedStaysGone == Spec => []CleanedIsGone
<1>1. Inv => CleanedIsGone
  BY DEF Inv, ListInv
<1> QED BY <1>1, FilesInvariant, PTL

\* A workspace leaves the disk only when its output was captured durably
\* (delete_owned_object asks for the capture in the metadata).
THEOREM CapturedBeforeGone == Spec => []CaptureFirst
<1>1. Inv => CaptureFirst
  BY DEF Inv, ListInv
<1> QED BY <1>1, FilesInvariant, PTL

\* What is on the disk and not listed was cut short when it was installed, when nobody is
\* at work: no write of metadata that fails leaves anything else behind.
THEOREM NothingElseUnlisted == Spec => []UnlistedIsCut
<1>1. Inv => UnlistedIsCut
  <2> SUFFICES ASSUME Inv, \A p \in Procs : at[p] = Idle, NEW id \in payload, meta[id] = "none"
               PROVE  id \in cut
    BY DEF UnlistedIsCut
  <2>1. \A p \in Procs : ~Installs(at[p], id)
    BY DEF Installs, Idle
  <2> QED BY <2>1 DEF Inv, CutInv
<1> QED BY <1>1, FilesInvariant, PTL
=============================================================================
