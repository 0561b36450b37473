--------------------------- MODULE SessionsProofs ---------------------------
(***************************************************************************)
(* Proofs about Sessions, for any number of clients and conversations, any *)
(* capacity and any number of crashes and power losses: a conversation has *)
(* one writer, what was said to be saved is not lost, only what was shown  *)
(* is archived, and the capacity is kept.                                  *)
(*                                                                         *)
(* A client that has the lease of a conversation knows its lock file and   *)
(* its content (KnowInv), so all others that want to change it wait.  What *)
(* the user was told is covered twice: in the file as the directory shows  *)
(* it and in the file as a power loss would leave it, or else in an        *)
(* archive that a power loss does not take (SafeInv).                      *)
(***************************************************************************)
EXTENDS Sessions, FiniteSetTheorems, TLAPS

BootOps == {"open", "new", "switch", "archive", "restore"}
Creating == {"create", "write", "sync"}
Holding == {"leased", "staged", "swapped", "draft", "drafted", "linked", "archived", "retired"}
ClientStates == [job : Jobs, open : Convs \cup {Nothing}, view : Views]

-----------------------------------------------------------------------------
(* The inductive invariant                                                 *)

\* What a job is about at each of its steps.
Shape(j) ==
  /\ j.at = "idle" => j = Idle
  /\ j.at = "scan" => j.op \in BootOps /\ j.next \in Contents
  /\ j.at \in Creating => j.op \in {"open", "new", "switch", "restore"} /\ j.next \in Contents
  /\ j.at \in {"locking", "leased"} => j.op \in {"turn", "archive"}
  /\ j.at \in {"staged", "swapped"} => j.op \in {"turn", "compact"} /\ j.next \in Contents
  /\ j.at \in {"draft", "drafted", "linked", "archived"} => j.op \in {"compact", "archive"}
  /\ j.at = "retired" => j.op = "archive"
  /\ j.op \in {"archive", "restore"} => j.conv \in Convs /\ j.next \in Contents
  /\ j.at \in Creating \cup Holding \cup {"locking"} => j.conv \in Convs
  /\ j.at \in Holding \cup {"locking"} => j.inode # 0

\* What it knows of the locks lk and the files f.
Knows(j, lk, f) ==
  /\ j.at = "create" => f[j.conv] = Nothing
  /\ j.at = "write" => f[j.conv] = Torn
  /\ j.at = "sync" =>
       f[j.conv] \in Contents /\ (f[j.conv] = j.next \/ f[j.conv].rev > j.next.rev)
  /\ j.at \in Holding => lk[j.conv] = j.inode /\ j.seen \in Contents
  /\ j.at \in Holding \ {"swapped", "retired"} => f[j.conv] = j.seen
  /\ j.at = "staged" => j.next.rev = j.seen.rev + 1
  /\ j.at = "swapped" => f[j.conv] = j.next
  /\ j.at = "retired" => f[j.conv] = Nothing
  /\ j.at \in Holding /\ j.op = "archive" => j.seen = j.next

\* The archives that would survive a power loss and can be read, and what of the
\* promises k they keep.
Solid == {v \in firm.final : <<v[1], v[2], "linked">> \notin drafts}
Covered(c, k, sd) == k[c] # Nothing => \E s \in Contents : s.rev >= k[c].rev /\ <<c, s>> \in sd

\* What is in an archive while a client creates or removes a file.
Backed(j, f, k, sd) ==
  /\ j.at \in {"create", "write"} => Covered(j.conv, k, sd)
  /\ j.at = "sync" /\ f[j.conv] = j.next => Covered(j.conv, k, sd)
  /\ j.at = "archived" => <<j.conv, j.seen>> \in sd

ShapeInv == \A p \in Clients : Shape(Job(p))
KnowInv == \A p \in Clients : Knows(Job(p), lock, file)
BackInv == \A p \in Clients : Backed(Job(p), file, kept, Solid)
LinkInv == \A p \in Clients : Job(p).at = "linked" => <<Job(p).conv, Job(p).seen>> \in final

\* A commit that overtakes a creation is not taken for it.
Overtakes(i, j) == i.at = "sync" /\ j.at = "swapped" /\ i.conv = j.conv => j.next.rev > i.next.rev
PairInv == \A p, q \in Clients : Overtakes(Job(p), Job(q))

Good(x, s) == x \in Contents /\ x.rev >= s.rev
Safe(c, f, g, k, sd) ==
  k[c] # Nothing => Covered(c, k, sd) \/ (Good(f[c], k[c]) /\ Good(g[c], k[c]))
SafeInv == \A c \in Convs : Safe(c, file, firm.file, kept, Solid)

\* Before the first fault, what a power loss could bring back is what a client that
\* is still there has just removed.
Recorded == {c \in Convs : firm.file[c] # Nothing}
RoomInv ==
  /\ faults <= 1 => Cardinality(Present) <= MaxHistory
  /\ \A p \in Clients : Job(p).at = "create" => Cardinality(Present) < MaxHistory
  /\ faults = 0 =>
       /\ Cardinality(Present \cup Recorded) <= MaxHistory
       /\ \A c \in Recorded \ Present :
            \E p \in Clients : Job(p).at = "retired" /\ Job(p).conv = c

WorkInv == ShapeInv /\ KnowInv /\ BackInv /\ LinkInv /\ PairInv
Inv == TypeOK /\ WorkInv /\ OneWriter /\ SafeInv /\ RoomInv

USE SessionsAssumption

-----------------------------------------------------------------------------
(* What a step of one client does to the others                            *)

\* The step gives the client p the job j and leaves the others theirs.
Turns(p, j) ==
  /\ j \in Jobs
  /\ client' \in [Clients -> ClientStates]
  /\ Job(p)' = j
  /\ \A q \in Clients : q # p => Job(q)' = Job(q)

\* A client is given a new state, or its job one or more new fields.
LEMMA Assigned ==
  ASSUME TypeOK, NEW p \in Clients, NEW y \in ClientStates, client' = [client EXCEPT ![p] = y]
  PROVE  Turns(p, y.job)
BY DEF TypeOK, ClientStates, Turns, Job

LEMMA JobAssigned ==
  ASSUME TypeOK, NEW p \in Clients, NEW j \in Jobs, client' = [client EXCEPT ![p].job = j]
  PROVE  Turns(p, j)
<1>1. [client[p] EXCEPT !.job = j] \in ClientStates
  BY DEF TypeOK, ClientStates
<1>2. client' = [client EXCEPT ![p] = [client[p] EXCEPT !.job = j]]
  BY DEF TypeOK, ClientStates
<1>3. [client[p] EXCEPT !.job = j].job = j
  BY DEF TypeOK, ClientStates
<1> QED BY <1>1, <1>2, <1>3, Assigned

LEMMA StateAssigned ==
  ASSUME TypeOK, NEW p \in Clients, NEW j \in Jobs,
         NEW y, y = [client[p] EXCEPT !.job = j], client' = [client EXCEPT ![p] = y]
  PROVE  Turns(p, j)
<1>1. y \in ClientStates /\ y.job = j
  BY DEF TypeOK, ClientStates
<1> QED BY <1>1, Assigned

LEMMA JobTypes ==
  ASSUME TypeOK, NEW p \in Clients
  PROVE  /\ client \in [Clients -> ClientStates] /\ client[p] \in ClientStates
         /\ Job(p) \in Jobs /\ client[p].job \in Jobs
         /\ Job(p).conv \in Convs \cup {Nothing} /\ Job(p).inode \in Inodes \cup {0}
         /\ Job(p).seen \in Contents \cup {Nothing} /\ Job(p).next \in Contents \cup {Nothing}
BY DEF TypeOK, ClientStates, Jobs, Job

LEMMA IdleJob ==
  /\ Idle \in Jobs /\ NoView \in Views
  /\ Dead \in ClientStates /\ Dead.job = Idle /\ NewChat \in Contents
<1>1. Idle \in Jobs
  BY DEF Idle, Jobs
<1>2. NoView \in Views
  BY DEF NoView, Views
<1>3. NewChat \in Contents
  BY DEF NewChat, Contents, Kinds
<1> QED BY <1>1, <1>2, <1>3 DEF Dead, ClientStates

\* The bootstrap lock follows the operations that need it.
BootInv == \A p \in Clients : boot = p <=> Job(p).op \in BootOps

\* What a step does with the bootstrap lock.
LEMMA BootStep ==
  ASSUME TypeOK, NEW p \in Clients, NEW j, Turns(p, j),
         \/ boot' = boot /\ (j.op \in BootOps <=> Job(p).op \in BootOps)
         \/ Unboot(p) /\ j.op \notin BootOps
         \/ boot = NoOne /\ boot' = p /\ j.op \in BootOps
  PROVE  boot' \in Clients \cup {NoOne} /\ BootInv'
<1>1. \A q \in Clients : boot = q <=> Job(q).op \in BootOps
  BY DEF TypeOK, BootOps
<1>2. \A q \in Clients : boot' = q <=> Job(q)'.op \in BootOps
  BY <1>1 DEF Turns, Unboot
<1> QED BY <1>2 DEF BootInv, TypeOK, Unboot

\* What was covered stays covered when more archives are safe.
LEMMA CoverGrows ==
  ASSUME NEW c, NEW k, NEW sd, NEW sd2, sd \subseteq sd2, Covered(c, k, sd)
  PROVE  Covered(c, k, sd2)
BY DEF Covered

LEMMA BackedGrows ==
  ASSUME NEW j, NEW f, NEW k, NEW sd, NEW sd2, sd \subseteq sd2, Backed(j, f, k, sd)
  PROVE  Backed(j, f, k, sd2)
BY CoverGrows DEF Backed

\* An archive that is safe stays so: a draft is linked under a new name only.
Archives == Solid \subseteq Solid' /\ final \subseteq final'

\* The step of one client that keeps what the others know.
LEMMA WorkStep ==
  ASSUME WorkInv, NEW p \in Clients, NEW j, Turns(p, j), Archives,
         Shape(j), Knows(j, lock', file'), Backed(j, file', kept', Solid'),
         j.at = "linked" => <<j.conv, j.seen>> \in final',
         \A q \in Clients : q # p =>
           Knows(Job(q), lock', file') /\ Backed(Job(q), file', kept', Solid)
  PROVE  ShapeInv' /\ KnowInv' /\ BackInv' /\ LinkInv'
<1>1. \A q \in Clients : q # p => Job(q)' = Job(q)
  BY DEF Turns
<1>2. Job(p)' = j
  BY DEF Turns
<1>3. ShapeInv'
  <2>1. \A q \in Clients : Shape(Job(q)')
    BY <1>1, <1>2 DEF WorkInv, ShapeInv
  <2> QED BY <2>1 DEF ShapeInv
<1>4. KnowInv'
  <2>1. \A q \in Clients : Knows(Job(q)', lock', file')
    BY <1>1, <1>2
  <2> QED BY <2>1 DEF KnowInv
<1>5. BackInv'
  <2>1. \A q \in Clients : q # p => Backed(Job(q), file', kept', Solid')
    BY BackedGrows DEF Archives
  <2>2. \A q \in Clients : Backed(Job(q)', file', kept', Solid')
    BY <1>1, <1>2, <2>1
  <2> QED BY <2>2 DEF BackInv
<1>6. LinkInv'
  <2>1. \A q \in Clients : Job(q)'.at = "linked" => <<Job(q)'.conv, Job(q)'.seen>> \in final'
    BY <1>1, <1>2 DEF WorkInv, LinkInv, Archives
  <2> QED BY <2>1 DEF LinkInv
<1> QED BY <1>3, <1>4, <1>5, <1>6

\* The new job is compared with those of the others.
LEMMA PairStep ==
  ASSUME WorkInv, NEW p \in Clients, NEW j, Turns(p, j),
         \A q \in Clients : q # p => Overtakes(j, Job(q)) /\ Overtakes(Job(q), j)
  PROVE  PairInv'
<1>1. \A q, r \in Clients : Overtakes(Job(q)', Job(r)')
  <2>1. Overtakes(j, j)
    BY DEF Overtakes
  <2> QED BY <2>1 DEF Turns, WorkInv, PairInv
<1> QED BY <1>1 DEF PairInv

\* Whoever gets the lease is alone with it.
LEMMA WriterStep ==
  ASSUME OneWriter, NEW p \in Clients, NEW j, Turns(p, j),
         j.at \in Holding => \A q \in Clients : q # p /\ Leased(q) => Job(q).conv # j.conv
  PROVE  OneWriter'
<1>1. \A q \in Clients : Leased(q)' <=> Job(q)'.at \in Holding
  BY DEF Leased, Holding
<1>2. \A q \in Clients : Leased(q) <=> Job(q).at \in Holding
  BY DEF Leased, Holding
<1>3. \A q, r \in Clients :
        Job(q)'.at \in Holding /\ Job(r)'.at \in Holding /\ Job(q)'.conv = Job(r)'.conv => q = r
  BY <1>2 DEF Turns, OneWriter
<1> QED BY <1>1, <1>3 DEF OneWriter

\* Syncing takes nothing away.
LEMMA SafeStep ==
  ASSUME SafeInv, Archives, UNCHANGED <<file, kept>>, firm'.file \in {firm.file, file}
  PROVE  SafeInv'
<1>1. \A c \in Convs : Safe(c, file, firm'.file, kept, Solid')
  BY CoverGrows DEF SafeInv, Safe, Archives
<1>2. \A c \in Convs : Safe(c, file', firm'.file, kept', Solid')
  BY <1>1
<1> QED BY <1>2 DEF SafeInv

\* A retirement ends with a sync, and no file is created.
LEMMA RoomStep ==
  ASSUME RoomInv, UNCHANGED <<file, faults>>, NEW p \in Clients, NEW j, Turns(p, j),
         firm'.file \in {firm.file, file},
         Job(p).at = "retired" => firm'.file = file,
         j.at = "create" => Cardinality(Present) < MaxHistory
  PROVE  RoomInv'
<1>1. Present' = Present
  BY DEF Present
<1>2. \A q \in Clients : Job(q)'.at = "create" => Cardinality(Present) < MaxHistory
  BY DEF RoomInv, Turns
<1>3. CASE firm'.file = file
  <2>1. Recorded' = Present
    BY <1>3 DEF Recorded, Present
  <2>2. Present \cup Recorded' = Present
    BY <2>1
  <2>3. Recorded' \ Present = {}
    BY <2>1
  <2>4. faults = 0 => Cardinality(Present \cup Recorded') <= MaxHistory
    <3>1. faults = 0 => Cardinality(Present) <= MaxHistory
      BY DEF RoomInv
    <3> QED BY <2>2, <3>1
  <2> QED BY <1>1, <1>2, <2>3, <2>4 DEF RoomInv
<1>4. CASE firm'.file = firm.file /\ Job(p).at # "retired"
  <2>1. Recorded' = Recorded
    BY <1>4 DEF Recorded
  <2>2. faults = 0 => \A c \in Recorded \ Present :
          \E q \in Clients : Job(q)'.at = "retired" /\ Job(q)'.conv = c
    <3> SUFFICES ASSUME faults = 0, NEW c \in Recorded \ Present
                 PROVE  \E q \in Clients : Job(q)'.at = "retired" /\ Job(q)'.conv = c
      OBVIOUS
    <3>1. PICK q \in Clients : Job(q).at = "retired" /\ Job(q).conv = c
      BY DEF RoomInv
    <3>2. Job(q)' = Job(q)
      BY <1>4, <3>1 DEF Turns
    <3> QED BY <3>1, <3>2
  <2> QED BY <1>1, <1>2, <2>1, <2>2 DEF RoomInv
<1> QED BY <1>3, <1>4

\* The types of all that a step has changed.
LEMMA TypeStep ==
  ASSUME TypeOK, NEW p \in Clients, NEW j, Turns(p, j),
         boot' \in Clients \cup {NoOne}, BootInv',
         file' \in [Convs -> Contents \cup {Nothing, Torn}],
         firm' \in [file : [Convs -> Contents \cup {Nothing, Torn}],
                    final : SUBSET (Convs \X Contents)],
         temps' \subseteq Convs, lock' \in [Convs -> Inodes \cup {0}],
         final' \subseteq Convs \X Contents, firm'.final \subseteq final',
         drafts' \subseteq Convs \X Contents \X {"torn", "whole", "linked"},
         kept' \in [Convs -> Contents \cup {Nothing}], faults' \in 0..MaxFaults
  PROVE  TypeOK'
<1>1. \A q \in Clients : boot' = q <=> Job(q)'.op \in BootOps
  BY DEF BootInv
<1> HIDE SessionsAssumption
<1> QED BY <1>1 DEF TypeOK, Turns, ClientStates, BootOps

-----------------------------------------------------------------------------
(* Steps that leave the files alone                                        *)

\* At most the directory is synced.
Quiet ==
  /\ UNCHANGED <<file, final, drafts, kept, faults>>
  /\ firm' = firm \/ firm' = [firm EXCEPT !.file = file]

LEMMA QuietTypes ==
  ASSUME TypeOK, Quiet
  PROVE  /\ Archives /\ Solid' = Solid
         /\ firm' \in [file : [Convs -> Contents \cup {Nothing, Torn}],
                       final : SUBSET (Convs \X Contents)]
         /\ firm'.final = firm.final /\ firm'.file \in {firm.file, file}
BY DEF TypeOK, Quiet, Archives, Solid

\* What nobody but p holds may change.
LocksKept(p) ==
  \A q \in Clients : q # p /\ Job(q).at \in Holding => lock'[Job(q).conv] = lock[Job(q).conv]

\* A step that leaves the files alone keeps the invariant.
LEMMA QuietStep ==
  ASSUME Inv, Quiet, NEW p \in Clients, NEW j, Turns(p, j),
         temps' \subseteq Convs, lock' \in [Convs -> Inodes \cup {0}], LocksKept(p),
         boot' \in Clients \cup {NoOne}, BootInv',
         Shape(j), Knows(j, lock', file), Backed(j, file, kept, Solid),
         j.at \notin {"sync", "swapped", "linked"},
         j.at \in Holding => \A q \in Clients : q # p /\ Leased(q) => Job(q).conv # j.conv,
         j.at = "create" => Cardinality(Present) < MaxHistory,
         Job(p).at = "retired" => firm'.file = file
  PROVE  Inv'
<1>1. /\ Archives /\ Solid' = Solid
      /\ firm' \in [file : [Convs -> Contents \cup {Nothing, Torn}],
                       final : SUBSET (Convs \X Contents)]
      /\ firm'.final = firm.final /\ firm'.file \in {firm.file, file}
  BY QuietTypes DEF Inv
<1>2. UNCHANGED <<file, final, drafts, kept, faults>>
  BY DEF Quiet
<1>3. TypeOK'
  <2>1. /\ file' \in [Convs -> Contents \cup {Nothing, Torn}]
        /\ final' \subseteq Convs \X Contents /\ firm'.final \subseteq final'
        /\ drafts' \subseteq Convs \X Contents \X {"torn", "whole", "linked"}
        /\ kept' \in [Convs -> Contents \cup {Nothing}] /\ faults' \in 0..MaxFaults
    BY <1>1, <1>2 DEF Inv, TypeOK
  <2> QED BY <1>1, <2>1, TypeStep DEF Inv
<1>4. ShapeInv' /\ KnowInv' /\ BackInv' /\ LinkInv'
  <2>1. \A q \in Clients : q # p => Knows(Job(q), lock', file')
    BY <1>2 DEF Inv, WorkInv, KnowInv, Knows, LocksKept
  <2>2. \A q \in Clients : q # p => Backed(Job(q), file', kept', Solid)
    BY <1>2 DEF Inv, WorkInv, BackInv
  <2>3. Knows(j, lock', file') /\ Backed(j, file', kept', Solid')
    BY <1>1, <1>2
  <2> QED BY <1>1, <2>1, <2>2, <2>3, WorkStep DEF Inv
<1>5. PairInv'
  BY PairStep DEF Overtakes, Inv
<1>6. OneWriter'
  BY WriterStep DEF Inv
<1>7. SafeInv'
  BY <1>1, <1>2, SafeStep DEF Inv
<1>8. RoomInv'
  BY <1>1, <1>2, RoomStep DEF Inv
<1> QED BY <1>3, <1>4, <1>5, <1>6, <1>7, <1>8 DEF Inv, WorkInv

\* A client that holds no lease and creates nothing knows nothing.
LEMMA FreeJob ==
  ASSUME NEW j, NEW lk, NEW f, NEW k, NEW sd, j.at \in {"idle", "scan", "locking"}
  PROVE  Knows(j, lk, f) /\ Backed(j, f, k, sd)
BY DEF Knows, Backed, Holding

LEMMA IdleShape == Shape(Idle)
BY DEF Shape, Idle, Creating, Holding

\* In particular when the client is done.
LEMMA Rests ==
  ASSUME Inv, Quiet, NEW p \in Clients, Turns(p, Idle),
         temps' \subseteq Convs, lock' \in [Convs -> Inodes \cup {0}], LocksKept(p),
         \/ boot' = boot /\ Job(p).op \notin BootOps
         \/ Unboot(p),
         Job(p).at = "retired" => firm'.file = file
  PROVE  Inv'
<1>1. Idle.at = "idle" /\ Idle.op \notin BootOps
  BY DEF Idle, BootOps
<1>2. boot' \in Clients \cup {NoOne} /\ BootInv'
  BY <1>1, BootStep DEF Inv
<1>3. Knows(Idle, lock', file) /\ Backed(Idle, file, kept, Solid)
  BY <1>1, FreeJob
<1>4. Idle.at \notin {"sync", "swapped", "linked", "create"} /\ Idle.at \notin Holding
  BY <1>1 DEF Holding
<1> HIDE DEF Idle
<1> QED BY <1>2, <1>3, <1>4, IdleShape, QuietStep

LEMMA Quits ==
  ASSUME TypeOK, NEW p \in Clients, Quit(p)
  PROVE  Turns(p, Idle)
BY IdleJob, JobAssigned DEF Quit

LEMMA Opens ==
  ASSUME TypeOK, NEW p \in Clients, NEW c \in Convs \cup {Nothing}, Opened(p, c)
  PROVE  Turns(p, Idle)
<1>1. [Dead EXCEPT !.open = c] \in ClientStates /\ [Dead EXCEPT !.open = c].job = Idle
  BY IdleJob DEF ClientStates
<1> QED BY <1>1, Assigned DEF Opened

LEMMA Looks ==
  ASSUME TypeOK, NEW p \in Clients, NEW w \in Views,
         client' = [client EXCEPT ![p] = [Dead EXCEPT !.view = w]]
  PROVE  Turns(p, Idle)
<1>1. [Dead EXCEPT !.view = w] \in ClientStates /\ [Dead EXCEPT !.view = w].job = Idle
  BY IdleJob DEF ClientStates
<1> QED BY <1>1, Assigned

\* Nobody is at work on a lock that is swept.
LEMMA SweepKeeps ==
  ASSUME Inv, Sweep, NEW p \in Clients
  PROVE  /\ lock' \in [Convs -> Inodes \cup {0}] /\ LocksKept(p)
         /\ firm' = firm \/ firm' = [firm EXCEPT !.file = file]
<1>1. PICK swept \in SUBSET OrphanLocks :
        /\ lock' = [c \in Convs |-> IF c \in swept THEN 0 ELSE lock[c]]
        /\ firm' = IF swept = {} THEN firm ELSE [firm EXCEPT !.file = file]
  BY DEF Sweep
<1>2. lock' \in [Convs -> Inodes \cup {0}]
  BY <1>1 DEF Inv, TypeOK
<1>3. ASSUME NEW q \in Clients, Job(q).at \in Holding
      PROVE  lock'[Job(q).conv] = lock[Job(q).conv]
  <2>1. Job(q).conv \in Convs
    BY <1>3 DEF Inv, WorkInv, ShapeInv, Shape
  <2>2. lock[Job(q).conv] = Job(q).inode
    BY <1>3 DEF Inv, WorkInv, KnowInv, Knows
  <2>3. Busy(lock[Job(q).conv], Job(q).conv)
    BY <1>3, <2>2 DEF Busy, Leased, Holding
  <2>4. Job(q).conv \notin OrphanLocks
    BY <2>3 DEF OrphanLocks
  <2> QED BY <1>1, <2>1, <2>4
<1> QED BY <1>1, <1>2, <1>3 DEF LocksKept

\* There is always an inode that nobody has open.
LEMMA FreeInode ==
  ASSUME TypeOK, NEW c \in Convs, lock[c] = 0
  PROVE  FreeInodes(c) # {}
<1> DEFINE used == {Job(q).inode : q \in Clients}
<1>1. IsFiniteSet(used) /\ Cardinality(used) <= Cardinality(Clients)
  <2>1. used = {client[q].job.inode : q \in Clients}
    BY DEF Job
  <2> DEFINE f == [q \in Clients |-> client[q].job.inode]
  <2>2. f \in Surjection(Clients, used)
    BY <2>1 DEF Surjection
  <2> HIDE DEF f, used
  <2> QED BY <2>2, FS_Surjection
<1>2. Cardinality(Clients) \in Nat /\ Cardinality(used) \in Nat
  BY <1>1, FS_CardinalityType
<1>3. Cardinality(Inodes) = Cardinality(Clients) + 1
  <2> DEFINE n == Cardinality(Clients) + 1
  <2>1. n \in Nat /\ n >= 1
    BY <1>2
  <2>2. Cardinality(1..n) = n
    <3> HIDE DEF n
    <3>1. Cardinality(1..n) = IF 1 > n THEN 0 ELSE n - 1 + 1
      BY <2>1, FS_Interval
    <3> QED BY <2>1, <3>1
  <2> QED BY <2>2 DEF Inodes
<1>4. ~(Inodes \subseteq used)
  <2> SUFFICES ASSUME Inodes \subseteq used PROVE FALSE
    OBVIOUS
  <2>1. Cardinality(Inodes) <= Cardinality(used)
    <3> HIDE DEF used
    <3> QED BY <1>1, FS_Subset
  <2> QED BY <1>1, <1>2, <1>3, <2>1
<1>5. PICK i \in Inodes : i \notin used
  BY <1>4
<1>6. i # 0
  BY <1>2 DEF Inodes
<1> QED BY <1>5, <1>6 DEF FreeInodes

LEMMA LockOpened ==
  ASSUME Inv, NEW p \in Clients, NEW c \in Convs, NEW job \in Jobs, OpenLock(p, c, job)
  PROVE  \E i \in Inodes :
           /\ lock' \in [Convs -> Inodes \cup {0}] /\ LocksKept(p)
           /\ Turns(p, [job EXCEPT !.at = "locking", !.conv = c, !.inode = i])
<1>1. PICK i \in (IF lock[c] = 0 THEN {CHOOSE j \in FreeInodes(c) : TRUE} ELSE {lock[c]}) :
        /\ lock' = [lock EXCEPT ![c] = i]
        /\ client' = [client EXCEPT
             ![p].job = [job EXCEPT !.at = "locking", !.conv = c, !.inode = i]]
  BY DEF OpenLock
<1>2. lock[c] \in Inodes \cup {0} /\ lock \in [Convs -> Inodes \cup {0}]
  BY DEF Inv, TypeOK
<1>3. i \in Inodes
  <2>1. CASE lock[c] = 0
    <3>1. FreeInodes(c) # {}
      BY <2>1, FreeInode DEF Inv
    <3>2. i = CHOOSE j \in FreeInodes(c) : TRUE
      BY <1>1, <2>1
    <3>3. i \in FreeInodes(c)
      BY <3>1, <3>2
    <3> QED BY <3>3 DEF FreeInodes
  <2>2. CASE lock[c] # 0
    BY <1>1, <1>2, <2>2
  <2> QED BY <2>1, <2>2
<1>4. lock[c] = 0 \/ i = lock[c]
  BY <1>1
<1>5. LocksKept(p)
  <2>1. ASSUME NEW q \in Clients, Job(q).at \in Holding
        PROVE  lock'[Job(q).conv] = lock[Job(q).conv]
    <3>1. Job(q).conv \in Convs /\ Job(q).inode # 0
      BY <2>1 DEF Inv, WorkInv, ShapeInv, Shape
    <3>2. lock[Job(q).conv] = Job(q).inode
      BY <2>1 DEF Inv, WorkInv, KnowInv, Knows
    <3> QED BY <1>1, <1>2, <1>4, <3>1, <3>2
  <2> QED BY <2>1 DEF LocksKept
<1>6. [job EXCEPT !.at = "locking", !.conv = c, !.inode = i] \in Jobs
  BY <1>3 DEF Jobs
<1>7. Turns(p, [job EXCEPT !.at = "locking", !.conv = c, !.inode = i])
  BY <1>1, <1>6, JobAssigned DEF Inv
<1>8. lock' \in [Convs -> Inodes \cup {0}]
  BY <1>1, <1>2, <1>3
<1> QED BY <1>3, <1>5, <1>7, <1>8

-----------------------------------------------------------------------------
(* One lemma for each action, first those that change no file              *)

LEMMA DiskQuiet ==
  ASSUME TypeOK, UNCHANGED <<disk, ghosts>>, NEW p \in Clients
  PROVE  /\ Quiet /\ LocksKept(p) /\ firm' = firm
         /\ temps' \subseteq Convs /\ lock' \in [Convs -> Inodes \cup {0}]
BY DEF disk, ghosts, Quiet, LocksKept, TypeOK

LEMMA EnterStep ==
  ASSUME Inv, NEW p \in Clients, NEW op \in BootOps, NEW c \in Convs \cup {Nothing},
         NEW s \in Contents, op \in {"archive", "restore"} => c \in Convs, Enter(p, op, c, s)
  PROVE  Inv'
<1> DEFINE j == [Idle EXCEPT !.at = "scan", !.op = op, !.conv = c, !.next = s]
<1>1. j \in Jobs
  BY DEF Idle, Jobs, BootOps
<1>2. Turns(p, j)
  <2>1. [Dead EXCEPT !.job = j] \in ClientStates /\ [Dead EXCEPT !.job = j].job = j
    <3> HIDE DEF j
    <3> QED BY <1>1, IdleJob DEF Dead, ClientStates
  <2>2. client' = [client EXCEPT ![p] = [Dead EXCEPT !.job = j]]
    BY DEF Enter
  <2> HIDE DEF j
  <2> QED BY <2>1, <2>2, Assigned DEF Inv
<1>3. j.at = "scan" /\ j.op = op /\ j.conv = c /\ j.next = s
  BY DEF Idle
<1>4. Shape(j)
  BY <1>3 DEF Shape, Creating, Holding, BootOps
<1> HIDE DEF j
<1>5. boot' \in Clients \cup {NoOne} /\ BootInv'
  BY <1>2, <1>3, BootStep DEF Enter, Inv
<1>6. /\ Quiet /\ LocksKept(p) /\ firm' = firm
      /\ temps' \subseteq Convs /\ lock' \in [Convs -> Inodes \cup {0}]
  BY DiskQuiet DEF Enter, Inv
<1>7. Job(p).at # "retired"
  BY DEF Enter, At
<1>8. Knows(j, lock', file) /\ Backed(j, file, kept, Solid)
  BY <1>3, FreeJob
<1>9. j.at \notin {"sync", "swapped", "linked", "create"} /\ j.at \notin Holding
  BY <1>3 DEF Holding
<1> QED BY <1>2, <1>4, <1>5, <1>6, <1>7, <1>8, <1>9, QuietStep

LEMMA ViewTypes ==
  ASSUME TypeOK, NEW p \in Clients, NEW v \in client[p].view.shown
  PROVE  v[1] \in Convs /\ v[2] \in Contents
BY DEF TypeOK, Views

LEMMA EnterOpenStep ==
  ASSUME Inv, NEW p \in Clients, EnterOpen(p)
  PROVE  Inv'
<1>1. PICK op \in {"open", "new", "switch"} : Enter(p, op, Nothing, NewChat)
  BY DEF EnterOpen
<1>2. op \in BootOps /\ op \notin {"archive", "restore"}
  BY DEF BootOps
<1>3. Nothing \in Convs \cup {Nothing}
  OBVIOUS
<1> QED BY <1>1, <1>2, <1>3, IdleJob, EnterStep

LEMMA EnterArchiveStep ==
  ASSUME Inv, NEW p \in Clients, EnterArchive(p)
  PROVE  Inv'
<1>1. PICK v \in client[p].view.shown : Enter(p, "archive", v[1], v[2])
  BY DEF EnterArchive
<1>2. v[1] \in Convs /\ v[2] \in Contents
  BY ViewTypes DEF Inv
<1>3. "archive" \in BootOps /\ v[1] \in Convs \cup {Nothing}
  BY <1>2 DEF BootOps
<1> QED BY <1>1, <1>2, <1>3, EnterStep

LEMMA EnterRestoreStep ==
  ASSUME Inv, NEW p \in Clients, EnterRestore(p)
  PROVE  Inv'
<1>1. PICK v \in final : Enter(p, "restore", v[1], v[2])
  BY DEF EnterRestore
<1>2. v[1] \in Convs /\ v[2] \in Contents
  BY DEF Inv, TypeOK
<1>3. "restore" \in BootOps /\ v[1] \in Convs \cup {Nothing}
  BY <1>2 DEF BootOps
<1> QED BY <1>1, <1>2, <1>3, EnterStep

LEMMA ScanFailsStep ==
  ASSUME Inv, NEW p \in Clients, ScanFails(p)
  PROVE  Inv'
<1>1. Turns(p, Idle)
  BY Quits DEF ScanFails, Inv
<1>2. /\ firm' = firm \/ firm' = [firm EXCEPT !.file = file]
      /\ lock' \in [Convs -> Inodes \cup {0}] /\ LocksKept(p)
  <2>1. CASE Sweep
    BY <2>1, SweepKeeps
  <2>2. CASE UNCHANGED <<lock, firm>>
    BY <2>2 DEF LocksKept, Inv, TypeOK
  <2> QED BY <2>1, <2>2 DEF ScanFails
<1>3. Quiet
  BY <1>2 DEF Quiet, ScanFails, ghosts
<1>4. temps' \subseteq Convs
  BY DEF ScanFails, Inv, TypeOK
<1>5. Unboot(p) /\ Job(p).at # "retired"
  BY DEF ScanFails, At
<1> QED BY <1>1, <1>2, <1>3, <1>4, <1>5, Rests

\* The steps that end an operation and change nothing but locks.
LEMMA DiskRests ==
  ASSUME Inv, NEW p \in Clients, Turns(p, Idle), UNCHANGED <<disk, ghosts>>,
         Job(p).at # "retired",
         \/ boot' = boot /\ Job(p).op \notin BootOps
         \/ Unboot(p)
  PROVE  Inv'
<1>1. /\ Quiet /\ LocksKept(p)
      /\ temps' \subseteq Convs /\ lock' \in [Convs -> Inodes \cup {0}]
  BY DiskQuiet DEF Inv
<1> QED BY <1>1, Rests

LEMMA SelectStep ==
  ASSUME Inv, NEW p \in Clients, Select(p)
  PROVE  Inv'
<1>1. PICK v \in client[p].view.shown : Opened(p, v[1])
  BY DEF Select
<1>2. v[1] \in Convs \cup {Nothing}
  BY ViewTypes DEF Inv
<1>3. Turns(p, Idle)
  BY <1>1, <1>2, Opens DEF Inv
<1>4. Job(p).at = "idle"
  BY DEF Select, At
<1>5. Job(p).op \notin BootOps
  BY <1>4 DEF Inv, WorkInv, ShapeInv, Shape, Idle, BootOps
<1> QED BY <1>3, <1>4, <1>5, DiskRests DEF Select

LEMMA PreviewStep ==
  ASSUME Inv, NEW p \in Clients, Preview(p)
  PROVE  Inv'
<1>1. PICK c \in Present :
        client' = [client EXCEPT
          ![p] = [Dead EXCEPT !.view = [of |-> "preview", shown |-> {<<c, file[c]>>}]]]
  BY DEF Preview
<1>2. file[c] \in Contents /\ c \in Convs
  BY DEF Preview, Readable, Present, Inv, TypeOK
<1>3. [of |-> "preview", shown |-> {<<c, file[c]>>}] \in Views
  BY <1>2 DEF Views
<1>4. Turns(p, Idle)
  BY <1>1, <1>3, Looks DEF Inv
<1>5. Job(p).at = "idle"
  BY DEF Preview, At
<1>6. Job(p).op \notin BootOps
  BY <1>5 DEF Inv, WorkInv, ShapeInv, Shape, Idle, BootOps
<1> QED BY <1>4, <1>5, <1>6, DiskRests DEF Preview

LEMMA EndTurnStep ==
  ASSUME Inv, NEW p \in Clients, EndTurn(p)
  PROVE  Inv'
<1>1. Turns(p, Idle)
  BY Quits DEF EndTurn, Inv
<1>2. Job(p).at # "retired" /\ Job(p).op \notin BootOps
  BY DEF EndTurn, At, Doing, BootOps
<1> QED BY <1>1, <1>2, DiskRests DEF EndTurn

LEMMA DraftRefusedStep ==
  ASSUME Inv, NEW p \in Clients, DraftRefused(p)
  PROVE  Inv'
<1>1. Turns(p, Idle)
  BY Quits DEF DraftRefused, Inv
<1>2. Job(p).at # "retired" /\ Unboot(p)
  BY DEF DraftRefused, At
<1> QED BY <1>1, <1>2, DiskRests DEF DraftRefused

LEMMA CommitFailsStep ==
  ASSUME Inv, NEW p \in Clients, CommitFails(p)
  PROVE  Inv'
<1>1. Turns(p, Idle)
  BY Quits DEF CommitFails, Inv
<1>2. Job(p).at # "retired"
  BY DEF CommitFails
<1>3. Job(p).op \notin BootOps
  BY DEF CommitFails, Inv, WorkInv, ShapeInv, Shape, BootOps
<1>4. Quiet /\ LocksKept(p)
  BY DEF CommitFails, Quiet, LocksKept, ghosts
<1>5. temps' \subseteq Convs /\ lock' \in [Convs -> Inodes \cup {0}]
  BY DEF CommitFails, Inv, TypeOK
<1>6. boot' = boot
  BY DEF CommitFails
<1> QED BY <1>1, <1>2, <1>3, <1>4, <1>5, <1>6, Rests

LEMMA EndArchiveStep ==
  ASSUME Inv, NEW p \in Clients, EndArchive(p)
  PROVE  Inv'
<1>1. Turns(p, Idle)
  BY Quits DEF EndArchive, Inv
<1>2. Quiet /\ LocksKept(p)
  BY DEF EndArchive, Quiet, LocksKept, ghosts
<1>3. temps' \subseteq Convs /\ lock' \in [Convs -> Inodes \cup {0}]
  BY DEF EndArchive, Inv, TypeOK
<1>4. firm'.file = file
  BY DEF EndArchive, Inv, TypeOK
<1> QED BY <1>1, <1>2, <1>3, <1>4, Rests DEF EndArchive

\* A job that goes to its next step.
LEMMA Goes ==
  ASSUME TypeOK, NEW p \in Clients, NEW a, [Job(p) EXCEPT !.at = a] \in Jobs, Goto(p, a)
  PROVE  Turns(p, [Job(p) EXCEPT !.at = a])
<1>1. client' = [client EXCEPT ![p].job = [Job(p) EXCEPT !.at = a]]
  BY DEF Goto, Job, TypeOK
<1> QED BY <1>1, JobAssigned

\* Nobody else holds the conversation of a client that holds it.
LEMMA Sole ==
  ASSUME Inv, NEW p \in Clients, Job(p).at \in Holding
  PROVE  \A q \in Clients : q # p /\ Job(q).at \in Holding => Job(q).conv # Job(p).conv
BY DEF Inv, OneWriter, Leased, Holding

LEMMA LeasedHolds ==
  \A q \in Clients : Leased(q) <=> Job(q).at \in Holding
BY DEF Leased, Holding

\* A client begins to create the conversation c.
LEMMA Begins ==
  ASSUME Inv, NEW p \in Clients, NEW c \in Convs, Quiet, Sweep, UNCHANGED <<boot, temps>>,
         At(p, "scan"), Job(p).op \in {"open", "new", "switch", "restore"}, HasRoom,
         file[c] = Nothing, Covered(c, kept, Solid),
         Turns(p, [Job(p) EXCEPT !.at = "create", !.conv = c])
  PROVE  Inv'
<1> DEFINE j == [Job(p) EXCEPT !.at = "create", !.conv = c]
<1>1. Job(p) \in Jobs /\ Shape(Job(p)) /\ Job(p).at = "scan"
  BY JobTypes DEF Inv, WorkInv, ShapeInv, At
<1>2. /\ j.at = "create" /\ j.conv = c /\ j.op = Job(p).op /\ j.next = Job(p).next
  BY <1>1 DEF Jobs
<1>3. Turns(p, j)
  OBVIOUS
<1> HIDE DEF j
<1>4. j.next \in Contents
  BY <1>1, <1>2 DEF Shape
<1>5. Shape(j)
  BY <1>2, <1>4 DEF Shape, Creating, Holding, BootOps
<1>6. Knows(j, lock', file) /\ Backed(j, file, kept, Solid)
  BY <1>2 DEF Knows, Backed, Holding
<1>7. boot' \in Clients \cup {NoOne} /\ BootInv'
  BY <1>2, <1>3, BootStep DEF Inv
<1>8. lock' \in [Convs -> Inodes \cup {0}] /\ LocksKept(p)
  BY SweepKeeps
<1>9. temps' \subseteq Convs
  BY DEF Inv, TypeOK
<1>10. j.at \notin {"sync", "swapped", "linked"} /\ j.at \notin Holding
  BY <1>2 DEF Holding
<1>11. Cardinality(Present) < MaxHistory
  BY DEF HasRoom
<1> QED BY <1>1, <1>3, <1>5, <1>6, <1>7, <1>8, <1>9, <1>10, <1>11, QuietStep

LEMMA ScanOpenStep ==
  ASSUME Inv, NEW p \in Clients, ScanOpen(p)
  PROVE  Inv'
<1>1. /\ lock' \in [Convs -> Inodes \cup {0}] /\ LocksKept(p)
      /\ firm' = firm \/ firm' = [firm EXCEPT !.file = file]
  BY SweepKeeps DEF ScanOpen
<1>2. Quiet /\ temps' \subseteq Convs
  BY <1>1 DEF Quiet, ScanOpen, ghosts, Inv, TypeOK
<1>3. Job(p).at # "retired"
  BY DEF ScanOpen, At
<1>4. ASSUME Turns(p, Idle), Unboot(p) PROVE Inv'
  BY <1>1, <1>2, <1>3, <1>4, Rests
<1>5. ASSUME NEW c \in Active, Opened(p, c), Unboot(p) PROVE Inv'
  <2>1. c \in Convs \cup {Nothing}
    BY <1>5 DEF Active, Present
  <2> QED BY <1>4, <1>5, <2>1, Opens DEF Inv
<1>6. ASSUME client' = [client EXCEPT ![p] =
               [Dead EXCEPT !.view = [of |-> "choice", shown |-> {<<c, file[c]>> : c \in Active}]]],
             Unboot(p)
      PROVE  Inv'
  <2>1. \A c \in Active : c \in Convs /\ file[c] \in Contents
    BY DEF Active, Present, Inv, TypeOK
  <2>2. [of |-> "choice", shown |-> {<<c, file[c]>> : c \in Active}] \in Views
    BY <2>1 DEF Views
  <2> QED BY <1>4, <1>6, <2>2, Looks DEF Inv
<1>7. ASSUME Quit(p), Unboot(p) PROVE Inv'
  BY <1>4, <1>7, Quits DEF Inv
<1>8. ASSUME HasRoom, UNCHANGED boot, NEW c \in Unused,
             client' = [client EXCEPT ![p].job.at = "create", ![p].job.conv = c]
      PROVE  Inv'
  <2>1. c \in Convs /\ file[c] = Nothing /\ Covered(c, kept, Solid)
    BY <1>8 DEF Unused, Present, Covered
  <2> DEFINE y == [client[p] EXCEPT !.job.at = "create", !.job.conv = c]
             j == [client[p].job EXCEPT !.at = "create", !.conv = c]
  <2>2. client' = [client EXCEPT ![p] = y]
    BY <1>8, JobTypes DEF Inv
  <2>3. y = [client[p] EXCEPT !.job = j] /\ j \in Jobs
    <3>1. c \in Convs \cup {Nothing} /\ client[p] \in ClientStates /\ client[p].job \in Jobs
      BY <2>1, JobTypes DEF Inv
    <3>2. j \in Jobs
      BY <3>1 DEF Jobs
    <3>3. y = [client[p] EXCEPT !.job = j]
      BY <3>1 DEF ClientStates, Jobs
    <3> QED BY <3>2, <3>3
  <2> HIDE DEF y, j
  <2>4. Turns(p, [Job(p) EXCEPT !.at = "create", !.conv = c])
    <3>1. Turns(p, j)
      BY <2>2, <2>3, StateAssigned DEF Inv
    <3> QED BY <3>1 DEF j, Job
  <2>5. Sweep /\ UNCHANGED temps /\ At(p, "scan")
        /\ Job(p).op \in {"open", "new", "switch", "restore"}
    BY DEF ScanOpen
  <2> QED BY <1>2, <1>8, <2>1, <2>4, <2>5, Begins
<1> QED BY <1>5, <1>6, <1>7, <1>8 DEF ScanOpen

LEMMA ScanRestoreStep ==
  ASSUME Inv, NEW p \in Clients, ScanRestore(p)
  PROVE  Inv'
<1>1. /\ lock' \in [Convs -> Inodes \cup {0}] /\ LocksKept(p)
      /\ firm' = firm \/ firm' = [firm EXCEPT !.file = file]
  BY SweepKeeps DEF ScanRestore
<1>2. Quiet /\ temps' \subseteq Convs
  BY <1>1 DEF Quiet, ScanRestore, ghosts, Inv, TypeOK
<1>3. Job(p).at = "scan" /\ Job(p).op = "restore"
  BY DEF ScanRestore, At, Doing
<1>4. CASE Quit(p) /\ Unboot(p)
  BY <1>1, <1>2, <1>3, <1>4, Quits, Rests DEF Inv
<1>5. CASE HasRoom /\ Job(p).conv \notin Present /\ Goto(p, "create") /\ UNCHANGED boot
  <2>1. Job(p).conv \in Convs
    BY <1>3 DEF Inv, WorkInv, ShapeInv, Shape
  <2>2. file[Job(p).conv] = Nothing
    BY <1>5, <2>1 DEF Present
  <2>3. Covered(Job(p).conv, kept, Solid)
    BY <2>1, <2>2 DEF Inv, SafeInv, Safe, Good, Covered
  <2>4. [Job(p) EXCEPT !.at = "create"] \in Jobs
    BY JobTypes DEF Jobs, Inv
  <2>5. Turns(p, [Job(p) EXCEPT !.at = "create"])
    BY <1>5, <2>4, Goes DEF Inv
  <2>6. [Job(p) EXCEPT !.at = "create", !.conv = Job(p).conv] = [Job(p) EXCEPT !.at = "create"]
    BY JobTypes DEF Jobs, Inv
  <2>7. Sweep /\ UNCHANGED temps /\ At(p, "scan")
    BY DEF ScanRestore
  <2> QED BY <1>2, <1>3, <1>5, <2>1, <2>2, <2>3, <2>5, <2>6, <2>7, Begins
<1> QED BY <1>4, <1>5 DEF ScanRestore

\* A client opens the lock file.
LEMMA LocksStep ==
  ASSUME Inv, NEW p \in Clients, NEW c \in Convs, NEW job \in Jobs, OpenLock(p, c, job),
         job.op \in {"turn", "archive"}, job.op = "archive" => job.next \in Contents,
         job.op \in BootOps <=> Job(p).op \in BootOps,
         UNCHANGED <<boot, file, temps, final, drafts, firm, ghosts>>, Job(p).at # "retired"
  PROVE  Inv'
<1>1. PICK i \in Inodes :
        /\ lock' \in [Convs -> Inodes \cup {0}] /\ LocksKept(p)
        /\ Turns(p, [job EXCEPT !.at = "locking", !.conv = c, !.inode = i])
  BY LockOpened
<1> DEFINE j == [job EXCEPT !.at = "locking", !.conv = c, !.inode = i]
<1>2. j.at = "locking" /\ j.conv = c /\ j.inode = i /\ j.op = job.op /\ j.next = job.next
  BY DEF Jobs
<1>3. Turns(p, j)
  BY <1>1
<1> HIDE DEF j
<1>4. i # 0
  BY DEF Inodes
<1>5. Shape(j)
  BY <1>2, <1>4 DEF Shape, Creating, Holding
<1>6. boot' \in Clients \cup {NoOne} /\ BootInv'
  BY <1>2, <1>3, BootStep DEF Inv
<1>7. Quiet /\ temps' \subseteq Convs
  BY DEF Quiet, ghosts, Inv, TypeOK
<1>8. Knows(j, lock', file) /\ Backed(j, file, kept, Solid)
  BY <1>2, FreeJob
<1>9. j.at \notin {"sync", "swapped", "linked", "create"} /\ j.at \notin Holding
  BY <1>2 DEF Holding
<1> QED BY <1>1, <1>3, <1>5, <1>6, <1>7, <1>8, <1>9, QuietStep

LEMMA BeginTurnStep ==
  ASSUME Inv, NEW p \in Clients, BeginTurn(p)
  PROVE  Inv'
<1>1. client[p].open \in Convs
  BY DEF BeginTurn, Inv, TypeOK
<1>2. [Idle EXCEPT !.op = "turn"] \in Jobs /\ [Idle EXCEPT !.op = "turn"].op = "turn"
  BY DEF Idle, Jobs
<1>3. Job(p).at = "idle"
  BY DEF BeginTurn, At
<1>4. Job(p).op \notin BootOps /\ "turn" \notin BootOps
  BY <1>3 DEF Inv, WorkInv, ShapeInv, Shape, Idle, BootOps
<1>5. OpenLock(p, client[p].open, [Idle EXCEPT !.op = "turn"])
  BY DEF BeginTurn
<1> DEFINE job == [Idle EXCEPT !.op = "turn"]
<1>6. job \in Jobs /\ job.op = "turn" /\ OpenLock(p, client[p].open, job)
  BY <1>2, <1>5
<1> HIDE DEF job
<1> QED BY <1>1, <1>3, <1>4, <1>6, LocksStep DEF BeginTurn

LEMMA ScanArchiveStep ==
  ASSUME Inv, NEW p \in Clients, ScanArchive(p)
  PROVE  Inv'
<1>1. Job(p).at = "scan" /\ Job(p).op = "archive" /\ Job(p) \in Jobs
  BY JobTypes DEF ScanArchive, At, Doing, Inv
<1>2. Job(p).conv \in Convs /\ Job(p).next \in Contents
  BY <1>1 DEF Inv, WorkInv, ShapeInv, Shape
<1>3. CASE OpenLock(p, Job(p).conv, Job(p)) /\ UNCHANGED boot
  BY <1>1, <1>2, <1>3, LocksStep DEF ScanArchive
<1>4. CASE Quit(p) /\ Unboot(p) /\ UNCHANGED lock
  <2>1. UNCHANGED <<disk, ghosts>>
    BY <1>4 DEF ScanArchive, disk
  <2> QED BY <1>1, <1>4, <2>1, Quits, DiskRests DEF Inv
<1> QED BY <1>3, <1>4 DEF ScanArchive

LEMMA TakeLockStep ==
  ASSUME Inv, NEW p \in Clients, TakeLock(p)
  PROVE  Inv'
<1>1. Job(p).at = "locking" /\ Job(p) \in Jobs /\ Shape(Job(p)) /\ UNCHANGED <<disk, ghosts>>
  BY JobTypes DEF TakeLock, At, Inv, WorkInv, ShapeInv
<1>2. CASE Quit(p) /\ Unboot(p)
  BY <1>1, <1>2, Quits, DiskRests DEF Inv
<1>3. ASSUME ~Busy(Job(p).inode, Job(p).conv), Current(p), Acceptable(p), UNCHANGED boot,
             client' = [client EXCEPT ![p].job.at = "leased",
                                      ![p].job.seen = file[Job(p).conv]]
      PROVE  Inv'
  <2> DEFINE s == file[Job(p).conv]
             y == [client[p] EXCEPT !.job.at = "leased", !.job.seen = s]
             j == [client[p].job EXCEPT !.at = "leased", !.seen = s]
  <2>1. /\ j.at = "leased" /\ j.seen = file[Job(p).conv] /\ j.conv = Job(p).conv
        /\ j.op = Job(p).op /\ j.next = Job(p).next /\ j.inode = Job(p).inode
    BY <1>1, JobTypes DEF Jobs, Job, Inv
  <2>2. j.seen \in Contents
    BY <1>3, <2>1 DEF Acceptable
  <2>3. client' = [client EXCEPT ![p] = y]
    BY <1>3, JobTypes DEF Inv
  <2>4. y = [client[p] EXCEPT !.job = j] /\ j \in Jobs
    <3>1. s \in Contents
      BY <1>3 DEF Acceptable
    <3> HIDE DEF s
    <3>2. client[p] \in ClientStates /\ client[p].job \in Jobs
      BY JobTypes DEF Inv
    <3>3. j \in Jobs
      BY <3>1, <3>2 DEF Jobs
    <3>4. y = [client[p] EXCEPT !.job = j]
      BY <3>2 DEF ClientStates, Jobs
    <3> QED BY <3>3, <3>4
  <2> HIDE DEF y, j
  <2>5. Turns(p, j)
    BY <2>3, <2>4, StateAssigned DEF Inv
  <2>6. Shape(j)
    BY <1>1, <2>1 DEF Shape, Creating, Holding
  <2>7. lock' = lock
    BY <1>1 DEF disk
  <2>8. Knows(j, lock', file)
    <3>1. j.op = "archive" => j.seen = j.next
      BY <1>3, <2>1 DEF Acceptable, Doing
    <3> QED BY <1>3, <2>1, <2>2, <2>7, <3>1 DEF Knows, Current, Holding
  <2>9. Backed(j, file, kept, Solid)
    BY <2>1 DEF Backed
  <2>10. \A q \in Clients : q # p /\ Leased(q) => Job(q).conv # j.conv
    <3> SUFFICES ASSUME NEW q \in Clients, Leased(q), Job(q).conv = j.conv PROVE FALSE
      OBVIOUS
    <3>1. lock[Job(q).conv] = Job(q).inode
      BY LeasedHolds DEF Inv, WorkInv, KnowInv, Knows
    <3>2. lock[Job(q).conv] = Job(p).inode
      BY <1>3, <2>1 DEF Current
    <3> QED BY <1>3, <2>1, <3>1, <3>2 DEF Busy
  <2>11. boot' \in Clients \cup {NoOne} /\ BootInv'
    BY <1>3, <2>1, <2>5, BootStep DEF Inv
  <2>12. /\ Quiet /\ LocksKept(p)
         /\ temps' \subseteq Convs /\ lock' \in [Convs -> Inodes \cup {0}]
    BY <1>1, DiskQuiet DEF Inv
  <2> QED BY <1>1, <2>1, <2>5, <2>6, <2>8, <2>9, <2>10, <2>11, <2>12, QuietStep
<1> QED BY <1>2, <1>3 DEF TakeLock

LEMMA StageStep ==
  ASSUME Inv, NEW p \in Clients, Stage(p)
  PROVE  Inv'
<1>1. Job(p) \in Jobs /\ Shape(Job(p)) /\ Knows(Job(p), lock, file)
  BY JobTypes DEF Inv, WorkInv, ShapeInv, KnowInv
<1>2. Job(p).at \in {"leased", "archived"} /\ Job(p).op \in {"turn", "compact"}
  BY DEF Stage, At, Doing
<1>3. /\ Job(p).conv \in Convs /\ Job(p).inode # 0 /\ Job(p).seen \in Contents
      /\ file[Job(p).conv] = Job(p).seen /\ lock[Job(p).conv] = Job(p).inode
  BY <1>1, <1>2 DEF Shape, Knows, Holding
<1>4. PICK kind \in CommitKinds :
        client' = [client EXCEPT ![p].job.at = "staged",
                     ![p].job.next = [rev |-> file[Job(p).conv].rev + 1, kind |-> kind]]
  BY DEF Stage
<1> DEFINE n == [rev |-> Job(p).seen.rev + 1, kind |-> kind]
           y == [client[p] EXCEPT !.job.at = "staged", !.job.next = n]
           j == [client[p].job EXCEPT !.at = "staged", !.next = n]
<1>5. n \in Contents /\ n.rev = Job(p).seen.rev + 1
  <2>1. Job(p).seen.rev \in 0..MaxRev /\ Job(p).seen.rev < MaxRev
    BY <1>3 DEF Stage, Contents
  <2> QED BY <2>1 DEF Contents
<1>6. /\ j.at = "staged" /\ j.next = n /\ j.conv = Job(p).conv /\ j.seen = Job(p).seen
      /\ j.op = Job(p).op /\ j.inode = Job(p).inode
  <2> HIDE DEF n
  <2> QED BY <1>1, JobTypes DEF Jobs, Job, Inv
<1>7. y = [client[p] EXCEPT !.job = j] /\ j \in Jobs
  <2> HIDE DEF n
  <2>1. client[p] \in ClientStates /\ client[p].job \in Jobs
    BY JobTypes DEF Inv
  <2>2. j \in Jobs
    BY <1>5, <2>1 DEF Jobs
  <2>3. y = [client[p] EXCEPT !.job = j]
    BY <2>1 DEF ClientStates, Jobs
  <2> QED BY <2>2, <2>3
<1>8. client' = [client EXCEPT ![p] = y]
  BY <1>3, <1>4, JobTypes DEF Inv
<1> HIDE DEF n, y, j
<1>9. Turns(p, j)
  BY <1>7, <1>8, StateAssigned DEF Inv
<1>10. Shape(j)
  BY <1>2, <1>3, <1>5, <1>6 DEF Shape, Creating, Holding
<1>11. UNCHANGED <<boot, lock>> /\ Quiet /\ LocksKept(p)
  BY DEF Stage, Quiet, LocksKept, ghosts
<1>12. Knows(j, lock', file)
  BY <1>2, <1>3, <1>5, <1>6, <1>11 DEF Knows, Holding
<1>13. Backed(j, file, kept, Solid)
  BY <1>6 DEF Backed
<1>14. \A q \in Clients : q # p /\ Leased(q) => Job(q).conv # j.conv
  BY <1>2, <1>6, Sole, LeasedHolds DEF Holding
<1>15. boot' \in Clients \cup {NoOne} /\ BootInv'
  BY <1>6, <1>9, <1>11, BootStep DEF Inv
<1>16. temps' \subseteq Convs /\ lock' \in [Convs -> Inodes \cup {0}]
  BY <1>3, <1>11 DEF Stage, Inv, TypeOK
<1> QED BY <1>2, <1>6, <1>9, <1>10, <1>11, <1>12, <1>13, <1>14, <1>15, <1>16, QuietStep

-----------------------------------------------------------------------------
(* Steps of an archive                                                     *)

LEMMA ArchiveStep ==
  ASSUME Inv, NEW p \in Clients, NEW j, Turns(p, j), Archives,
         UNCHANGED <<file, temps, lock, kept, faults>>, firm'.file = firm.file,
         firm' \in [file : [Convs -> Contents \cup {Nothing, Torn}],
                    final : SUBSET (Convs \X Contents)],
         final' \subseteq Convs \X Contents, firm'.final \subseteq final',
         drafts' \subseteq Convs \X Contents \X {"torn", "whole", "linked"},
         boot' \in Clients \cup {NoOne}, BootInv', Job(p).at # "retired",
         Shape(j), Knows(j, lock, file), Backed(j, file, kept, Solid'),
         j.at = "linked" => <<j.conv, j.seen>> \in final',
         j.at \notin {"sync", "swapped", "create"},
         j.at \in Holding => Job(p).at \in Holding /\ j.conv = Job(p).conv
  PROVE  Inv'
<1>1. TypeOK'
  <2>1. /\ file' \in [Convs -> Contents \cup {Nothing, Torn}]
        /\ temps' \subseteq Convs /\ lock' \in [Convs -> Inodes \cup {0}]
        /\ kept' \in [Convs -> Contents \cup {Nothing}] /\ faults' \in 0..MaxFaults
    BY DEF Inv, TypeOK
  <2> QED BY <2>1, TypeStep DEF Inv
<1>2. ShapeInv' /\ KnowInv' /\ BackInv' /\ LinkInv'
  <2>1. \A q \in Clients : q # p =>
          Knows(Job(q), lock', file') /\ Backed(Job(q), file', kept', Solid)
    BY DEF Inv, WorkInv, KnowInv, BackInv
  <2>2. Knows(j, lock', file') /\ Backed(j, file', kept', Solid')
    OBVIOUS
  <2> QED BY <2>1, <2>2, WorkStep DEF Inv
<1>3. PairInv'
  BY PairStep DEF Overtakes, Inv
<1>4. OneWriter'
  <2>1. j.at \in Holding => \A q \in Clients : q # p /\ Leased(q) => Job(q).conv # j.conv
    BY Sole, LeasedHolds
  <2> QED BY <2>1, WriterStep DEF Inv
<1>5. SafeInv'
  BY SafeStep DEF Inv
<1>6. RoomInv'
  BY RoomStep DEF Inv
<1> QED BY <1>1, <1>2, <1>3, <1>4, <1>5, <1>6 DEF Inv, WorkInv

\* A client goes on with an archive, or is back in its turn.
GoesOn(p, j) ==
  /\ Job(p).at \in {"leased", "draft", "drafted", "linked"}
  /\ j.conv = Job(p).conv /\ j.inode = Job(p).inode
  /\ j.seen = Job(p).seen /\ j.next = Job(p).next
  /\ \/ j.at \in {"draft", "drafted", "linked", "archived"} /\ j.op \in {"compact", "archive"}
     \/ j.at = "leased" /\ j.op \in {"turn", "archive"}
  /\ j.op = "archive" <=> Job(p).op = "archive"

LEMMA ArchiveGoes ==
  ASSUME Inv, NEW p \in Clients, NEW j, Turns(p, j), GoesOn(p, j), Archives,
         UNCHANGED <<boot, file, temps, lock, kept, faults>>, firm'.file = firm.file,
         firm' \in [file : [Convs -> Contents \cup {Nothing, Torn}],
                    final : SUBSET (Convs \X Contents)],
         final' \subseteq Convs \X Contents, firm'.final \subseteq final',
         drafts' \subseteq Convs \X Contents \X {"torn", "whole", "linked"},
         j.at = "archived" => <<j.conv, j.seen>> \in Solid',
         j.at = "linked" => <<j.conv, j.seen>> \in final'
  PROVE  Inv'
<1>1. Shape(Job(p)) /\ Knows(Job(p), lock, file) /\ Job(p).at \in Holding
  BY DEF Inv, WorkInv, ShapeInv, KnowInv, GoesOn, Holding
<1>2. Shape(j)
  BY <1>1 DEF Shape, GoesOn, Creating, Holding
<1>3. Knows(j, lock, file)
  BY <1>1 DEF Knows, GoesOn, Holding
<1>4. Backed(j, file, kept, Solid')
  BY DEF Backed, GoesOn
<1>5. boot' \in Clients \cup {NoOne} /\ BootInv'
  <2>1. Job(p).op \in {"turn", "compact", "archive"} /\ j.op \in {"turn", "compact", "archive"}
    BY <1>1 DEF Shape, GoesOn
  <2>2. j.op \in BootOps <=> Job(p).op \in BootOps
    BY <2>1 DEF GoesOn, BootOps
  <2> QED BY <2>2, BootStep DEF Inv
<1>6. /\ Job(p).at # "retired" /\ j.at \notin {"sync", "swapped", "create"}
      /\ j.conv = Job(p).conv
  BY DEF GoesOn
<1> QED BY <1>1, <1>2, <1>3, <1>4, <1>5, <1>6, ArchiveStep

LEMMA MineTypes ==
  ASSUME Inv, NEW p \in Clients, Job(p).at \in Holding
  PROVE  /\ Job(p).conv \in Convs /\ Job(p).seen \in Contents /\ Job(p) \in Jobs
         /\ Mine(p) = <<Job(p).conv, Job(p).seen>> /\ Mine(p) \in Convs \X Contents
<1>1. Shape(Job(p)) /\ Knows(Job(p), lock, file)
  BY DEF Inv, WorkInv, ShapeInv, KnowInv
<1>2. Job(p).conv \in Convs /\ Job(p).seen \in Contents
  BY <1>1 DEF Shape, Knows
<1> QED BY <1>2, JobTypes DEF Mine, Inv

\* Dropping drafts, and writing one that is not linked, takes nothing away.
LEMMA DraftsOnly ==
  ASSUME TypeOK, UNCHANGED <<final, firm>>,
         \A d \in drafts' : d \in drafts \/ d[3] # "linked"
  PROVE  /\ Archives /\ firm'.file = firm.file
         /\ firm' \in [file : [Convs -> Contents \cup {Nothing, Torn}],
                       final : SUBSET (Convs \X Contents)]
         /\ final' \subseteq Convs \X Contents /\ firm'.final \subseteq final'
<1>1. \A v \in firm.final : <<v[1], v[2], "linked">> \in drafts' => <<v[1], v[2], "linked">> \in drafts
  OBVIOUS
<1>2. Solid \subseteq Solid'
  BY <1>1 DEF Solid
<1> QED BY <1>2 DEF Archives, TypeOK

LEMMA DraftStep ==
  ASSUME Inv, NEW p \in Clients, Draft(p)
  PROVE  Inv'
<1>1. Job(p).at = "leased" /\ Job(p).at \in Holding /\ Job(p).op \in {"turn", "archive"}
  BY DEF Draft, At, Holding
<1>2. /\ Job(p).conv \in Convs /\ Job(p).seen \in Contents /\ Job(p) \in Jobs
  BY <1>1, MineTypes
<1> DEFINE o == IF Doing(p, "turn") THEN "compact" ELSE "archive"
           y == [client[p] EXCEPT !.job.at = "draft", !.job.op = o]
           j == [client[p].job EXCEPT !.at = "draft", !.op = o]
<1>3. client' = [client EXCEPT ![p] = y]
  BY JobTypes DEF Draft, Inv
<1>4. o \in {"compact", "archive"} /\ (o = "archive" <=> Job(p).op = "archive")
  BY <1>1 DEF Doing
<1> HIDE DEF o
<1>5. y = [client[p] EXCEPT !.job = j] /\ j \in Jobs
  <2>1. client[p] \in ClientStates /\ client[p].job \in Jobs
    BY JobTypes DEF Inv
  <2> QED BY <1>4, <2>1 DEF ClientStates, Jobs
<1>6. /\ j.at = "draft" /\ j.op = o /\ j.conv = Job(p).conv /\ j.inode = Job(p).inode
      /\ j.seen = Job(p).seen /\ j.next = Job(p).next
  BY <1>2 DEF Jobs, Job
<1> HIDE DEF y, j
<1>7. Turns(p, j)
  BY <1>3, <1>5, StateAssigned DEF Inv
<1>8. GoesOn(p, j)
  BY <1>1, <1>4, <1>6 DEF GoesOn
<1>9. drafts' \subseteq drafts \cup {<<Job(p).conv, Job(p).seen, "torn">>}
  BY DEF Draft
<1>10. drafts' \subseteq Convs \X Contents \X {"torn", "whole", "linked"}
  BY <1>2, <1>9 DEF Inv, TypeOK
<1>11. \A d \in drafts' : d \in drafts \/ d[3] # "linked"
  BY <1>9
<1>12. UNCHANGED <<boot, file, temps, lock, kept, faults, final, firm>>
  BY DEF Draft, ghosts
<1> QED BY <1>6, <1>7, <1>8, <1>10, <1>11, <1>12, DraftsOnly, ArchiveGoes DEF Inv

LEMMA ArchiveAt ==
  ASSUME Inv, NEW p \in Clients, NEW a, a \in {"drafted", "linked", "archived"}, Goto(p, a),
         Job(p).at \in {"draft", "drafted", "linked"}
  PROVE  \E j \in Jobs : Turns(p, j) /\ GoesOn(p, j) /\ j.at = a
<1> DEFINE j == [Job(p) EXCEPT !.at = a]
<1>1. Job(p) \in Jobs /\ Shape(Job(p))
  BY JobTypes DEF Inv, WorkInv, ShapeInv
<1>2. j \in Jobs
  BY <1>1 DEF Jobs
<1>3. /\ j.at = a /\ j.op = Job(p).op /\ j.conv = Job(p).conv /\ j.inode = Job(p).inode
      /\ j.seen = Job(p).seen /\ j.next = Job(p).next
  BY <1>1 DEF Jobs
<1>4. Turns(p, j)
  BY <1>2, Goes DEF Inv
<1> HIDE DEF j
<1>5. GoesOn(p, j)
  BY <1>1, <1>3 DEF GoesOn, Shape
<1> QED BY <1>2, <1>3, <1>4, <1>5

LEMMA FillDraftStep ==
  ASSUME Inv, NEW p \in Clients, FillDraft(p)
  PROVE  Inv'
<1>1. Job(p).at = "draft" /\ Job(p).at \in Holding
  BY DEF FillDraft, At, Holding
<1>2. PICK j \in Jobs : Turns(p, j) /\ GoesOn(p, j) /\ j.at = "drafted"
  BY <1>1, ArchiveAt DEF FillDraft
<1>3. Job(p).conv \in Convs /\ Job(p).seen \in Contents
  BY <1>1, MineTypes
<1>4. drafts' \subseteq drafts \cup {<<Job(p).conv, Job(p).seen, "whole">>}
  BY DEF FillDraft
<1>5. drafts' \subseteq Convs \X Contents \X {"torn", "whole", "linked"}
  BY <1>3, <1>4 DEF Inv, TypeOK
<1>6. \A d \in drafts' : d \in drafts \/ d[3] # "linked"
  BY <1>4
<1>7. UNCHANGED <<boot, file, temps, lock, kept, faults, final, firm>>
  BY DEF FillDraft, ghosts
<1> QED BY <1>2, <1>5, <1>6, <1>7, DraftsOnly, ArchiveGoes DEF Inv

\* The archive of p is synced, and no draft of it is left.
LEMMA Archived ==
  ASSUME Inv, NEW p \in Clients, Job(p).at \in Holding, Mine(p) \in final,
         firm' = [firm EXCEPT !.final = Synced(Job(p).conv)],
         drafts' = drafts \ Drafts(Mine(p)), final' = final
  PROVE  /\ Archives /\ Mine(p) \in Solid' /\ firm'.file = firm.file
         /\ firm' \in [file : [Convs -> Contents \cup {Nothing, Torn}],
                       final : SUBSET (Convs \X Contents)]
         /\ final' \subseteq Convs \X Contents /\ firm'.final \subseteq final'
         /\ drafts' \subseteq Convs \X Contents \X {"torn", "whole", "linked"}
<1>1. /\ firm.final \subseteq final /\ final \subseteq Convs \X Contents
      /\ firm \in [file : [Convs -> Contents \cup {Nothing, Torn}],
                   final : SUBSET (Convs \X Contents)]
      /\ drafts \subseteq Convs \X Contents \X {"torn", "whole", "linked"}
  BY DEF Inv, TypeOK
<1>2. firm'.final = firm.final \cup {v \in final : v[1] = Job(p).conv} /\ firm'.file = firm.file
  BY <1>1 DEF Synced
<1>3. /\ Mine(p) = <<Job(p).conv, Job(p).seen>>
  BY DEF Mine
<1>4. <<Job(p).conv, Job(p).seen, "linked">> \notin drafts'
  <2>1. <<Job(p).conv, Job(p).seen, "linked">> \in drafts =>
          <<Job(p).conv, Job(p).seen, "linked">> \in Drafts(Mine(p))
    BY <1>3 DEF Drafts
  <2> QED BY <2>1
<1>5. Mine(p) \in Solid'
  BY <1>2, <1>3, <1>4 DEF Solid
<1>6. Solid \subseteq Solid'
  BY <1>2 DEF Solid
<1>7. firm' \in [file : [Convs -> Contents \cup {Nothing, Torn}],
                 final : SUBSET (Convs \X Contents)]
  <2>1. Synced(Job(p).conv) \in SUBSET (Convs \X Contents)
    BY <1>1 DEF Synced
  <2> QED BY <1>1, <2>1
<1> QED BY <1>1, <1>2, <1>5, <1>6, <1>7 DEF Archives

LEMMA LinkStep ==
  ASSUME Inv, NEW p \in Clients, Link(p)
  PROVE  Inv'
<1>1. Job(p).at = "drafted" /\ Job(p).at \in Holding
  BY DEF Link, At, Holding
<1>2. /\ Job(p).conv \in Convs /\ Job(p).seen \in Contents
      /\ Mine(p) = <<Job(p).conv, Job(p).seen>> /\ Mine(p) \in Convs \X Contents
  BY <1>1, MineTypes
<1>3. UNCHANGED <<boot, file, temps, lock, kept, faults>>
  BY DEF Link, ghosts
<1>4. CASE /\ Mine(p) \notin final
           /\ final' = final \cup {Mine(p)}
           /\ drafts' = (drafts \ Drafts(Mine(p))) \cup {<<Job(p).conv, Job(p).seen, "linked">>}
           /\ Goto(p, "linked") /\ UNCHANGED firm
  <2>1. PICK j \in Jobs : Turns(p, j) /\ GoesOn(p, j) /\ j.at = "linked"
    BY <1>1, <1>4, ArchiveAt
  <2>2. \A v \in Convs \X Contents : v # Mine(p) =>
          (<<v[1], v[2], "linked">> \in drafts' => <<v[1], v[2], "linked">> \in drafts)
    BY <1>2, <1>4
  <2>3. firm.final \subseteq final /\ final \subseteq Convs \X Contents
    BY DEF Inv, TypeOK
  <2>4. Solid \subseteq Solid'
    BY <1>4, <2>2, <2>3 DEF Solid
  <2>5. drafts' \subseteq Convs \X Contents \X {"torn", "whole", "linked"}
    BY <1>2, <1>4 DEF Inv, TypeOK
  <2>6. firm' \in [file : [Convs -> Contents \cup {Nothing, Torn}],
                   final : SUBSET (Convs \X Contents)]
    BY <1>4 DEF Inv, TypeOK
  <2>7. Archives
    BY <1>4, <2>4 DEF Archives
  <2>8. final' \subseteq Convs \X Contents /\ firm'.final \subseteq final' /\ firm'.file = firm.file
    BY <1>2, <1>4, <2>3
  <2>9. <<j.conv, j.seen>> \in final'
    BY <1>2, <1>4, <2>1 DEF GoesOn
  <2> QED BY <1>3, <2>1, <2>5, <2>6, <2>7, <2>8, <2>9, ArchiveGoes
<1>5. CASE /\ Mine(p) \in final
           /\ firm' = [firm EXCEPT !.final = Synced(Job(p).conv)]
           /\ drafts' = drafts \ Drafts(Mine(p))
           /\ Goto(p, "archived") /\ UNCHANGED final
  <2>1. PICK j \in Jobs : Turns(p, j) /\ GoesOn(p, j) /\ j.at = "archived"
    BY <1>1, <1>5, ArchiveAt
  <2>2. /\ Archives /\ Mine(p) \in Solid' /\ firm'.file = firm.file
        /\ firm' \in [file : [Convs -> Contents \cup {Nothing, Torn}],
                       final : SUBSET (Convs \X Contents)]
        /\ final' \subseteq Convs \X Contents /\ firm'.final \subseteq final'
        /\ drafts' \subseteq Convs \X Contents \X {"torn", "whole", "linked"}
    BY <1>1, <1>5, Archived
  <2>3. <<j.conv, j.seen>> \in Solid'
    BY <1>2, <2>1, <2>2 DEF GoesOn
  <2> QED BY <1>3, <2>1, <2>2, <2>3, ArchiveGoes
<1> QED BY <1>4, <1>5 DEF Link

LEMMA SettleStep ==
  ASSUME Inv, NEW p \in Clients, Settle(p)
  PROVE  Inv'
<1>1. Job(p).at = "linked" /\ Job(p).at \in Holding
  BY DEF Settle, At, Holding
<1>2. Mine(p) = <<Job(p).conv, Job(p).seen>>
  BY DEF Mine
<1>3. Mine(p) \in final
  BY <1>1, <1>2 DEF Inv, WorkInv, LinkInv
<1>4. UNCHANGED <<boot, file, temps, lock, kept, faults>>
  BY DEF Settle, ghosts
<1>5. PICK j \in Jobs : Turns(p, j) /\ GoesOn(p, j) /\ j.at = "archived"
  BY <1>1, ArchiveAt DEF Settle
<1>6. /\ Archives /\ Mine(p) \in Solid' /\ firm'.file = firm.file
      /\ firm' \in [file : [Convs -> Contents \cup {Nothing, Torn}],
                     final : SUBSET (Convs \X Contents)]
      /\ final' \subseteq Convs \X Contents /\ firm'.final \subseteq final'
      /\ drafts' \subseteq Convs \X Contents \X {"torn", "whole", "linked"}
  BY <1>1, <1>3, Archived DEF Settle
<1>7. <<j.conv, j.seen>> \in Solid'
  BY <1>2, <1>5, <1>6 DEF GoesOn
<1> QED BY <1>4, <1>5, <1>6, <1>7, ArchiveGoes

LEMMA DraftFailsStep ==
  ASSUME Inv, NEW p \in Clients, DraftFails(p)
  PROVE  Inv'
<1>1. Job(p).at \in {"draft", "drafted", "linked"} /\ Job(p).at \in Holding
  BY DEF DraftFails, Holding
<1>2. UNCHANGED <<file, temps, lock, kept, faults, final, firm>> /\ drafts' \subseteq drafts
  BY DEF DraftFails, ghosts
<1>3. /\ Archives /\ firm'.file = firm.file
      /\ firm' \in [file : [Convs -> Contents \cup {Nothing, Torn}],
                    final : SUBSET (Convs \X Contents)]
      /\ final' \subseteq Convs \X Contents /\ firm'.final \subseteq final'
  BY <1>2, DraftsOnly DEF Inv
<1>4. drafts' \subseteq Convs \X Contents \X {"torn", "whole", "linked"}
  BY <1>2 DEF Inv, TypeOK
<1>5. CASE Quit(p) /\ Unboot(p)
  <2>1. Turns(p, Idle)
    BY <1>5, Quits DEF Inv
  <2>2. Idle.at = "idle" /\ Idle.op \notin BootOps /\ Idle.at \notin Holding
    BY DEF Idle, BootOps, Holding
  <2>3. Shape(Idle) /\ Knows(Idle, lock, file) /\ Backed(Idle, file, kept, Solid')
    BY <2>2, IdleShape, FreeJob
  <2>4. boot' \in Clients \cup {NoOne} /\ BootInv'
    BY <1>5, <2>1, <2>2, BootStep DEF Inv
  <2> HIDE DEF Idle
  <2> QED BY <1>1, <1>2, <1>3, <1>4, <2>1, <2>2, <2>3, <2>4, ArchiveStep
<1>6. ASSUME Doing(p, "compact"), UNCHANGED boot,
             client' = [client EXCEPT ![p].job.at = "leased", ![p].job.op = "turn"]
      PROVE  Inv'
  <2> DEFINE y == [client[p] EXCEPT !.job.at = "leased", !.job.op = "turn"]
             j == [client[p].job EXCEPT !.at = "leased", !.op = "turn"]
  <2>1. client' = [client EXCEPT ![p] = y]
    BY <1>6, JobTypes DEF Inv
  <2>2. client[p] \in ClientStates /\ client[p].job \in Jobs
    BY JobTypes DEF Inv
  <2>3. y = [client[p] EXCEPT !.job = j] /\ j \in Jobs
    BY <2>2 DEF ClientStates, Jobs
  <2>4. /\ j.at = "leased" /\ j.op = "turn" /\ j.conv = Job(p).conv /\ j.inode = Job(p).inode
        /\ j.seen = Job(p).seen /\ j.next = Job(p).next
    BY <2>2 DEF Jobs, Job
  <2> HIDE DEF y, j
  <2>5. Turns(p, j)
    BY <2>1, <2>3, StateAssigned DEF Inv
  <2>6. GoesOn(p, j)
    BY <1>1, <1>6, <2>4 DEF GoesOn, Doing
  <2> QED BY <1>2, <1>3, <1>4, <1>6, <2>4, <2>5, <2>6, ArchiveGoes
<1> QED BY <1>5, <1>6 DEF DraftFails

-----------------------------------------------------------------------------
(* Steps that change a file or a promise                                   *)

\* The client p changes the file of the conversation it is at.
LEMMA FileStep ==
  ASSUME Inv, NEW p \in Clients, NEW j, Turns(p, j), NEW x \in Contents \cup {Nothing, Torn},
         Job(p).conv \in Convs, file' = [file EXCEPT ![Job(p).conv] = x],
         UNCHANGED <<boot, lock, final, drafts, firm, kept, faults>>, temps' \subseteq Convs,
         j.conv = Job(p).conv, j.op = Job(p).op,
         Shape(j), Knows(j, lock, file'), Backed(j, file', kept, Solid),
         j.at \notin {"linked", "create"}, j.at \in Holding => Job(p).at \in Holding,
         \A q \in Clients : q # p /\ Job(q).conv = Job(p).conv =>
           Knows(Job(q), lock, file') /\ Backed(Job(q), file', kept, Solid),
         \A q \in Clients : q # p => Overtakes(j, Job(q)) /\ Overtakes(Job(q), j),
         Covered(Job(p).conv, kept, Solid) \/
           (kept[Job(p).conv] # Nothing =>
              Good(x, kept[Job(p).conv]) /\ Good(firm.file[Job(p).conv], kept[Job(p).conv])),
         RoomInv'
  PROVE  Inv'
<1>1. /\ file \in [Convs -> Contents \cup {Nothing, Torn}]
      /\ file'[Job(p).conv] = x
      /\ \A c \in Convs : c # Job(p).conv => file'[c] = file[c]
      /\ file' \in [Convs -> Contents \cup {Nothing, Torn}]
  BY DEF Inv, TypeOK
<1>2. boot' \in Clients \cup {NoOne} /\ BootInv'
  BY BootStep DEF Inv
<1>3. TypeOK'
  <2>1. /\ firm' \in [file : [Convs -> Contents \cup {Nothing, Torn}],
                      final : SUBSET (Convs \X Contents)]
        /\ final' \subseteq Convs \X Contents /\ firm'.final \subseteq final'
        /\ drafts' \subseteq Convs \X Contents \X {"torn", "whole", "linked"}
        /\ lock' \in [Convs -> Inodes \cup {0}]
        /\ kept' \in [Convs -> Contents \cup {Nothing}] /\ faults' \in 0..MaxFaults
    BY DEF Inv, TypeOK
  <2> QED BY <1>1, <1>2, <2>1, TypeStep DEF Inv
<1>4. Solid' = Solid /\ Archives
  BY DEF Solid, Archives
<1>5. \A q \in Clients : q # p =>
        Knows(Job(q), lock', file') /\ Backed(Job(q), file', kept', Solid)
  <2>1. ASSUME NEW q \in Clients, Job(q).conv # Job(p).conv
        PROVE  Knows(Job(q), lock, file') /\ Backed(Job(q), file', kept, Solid)
    <3>1. Shape(Job(q)) /\ Knows(Job(q), lock, file) /\ Backed(Job(q), file, kept, Solid)
      BY DEF Inv, WorkInv, ShapeInv, KnowInv, BackInv
    <3>2. Job(q).at \in Creating \cup Holding => file'[Job(q).conv] = file[Job(q).conv]
      BY <1>1, <2>1, <3>1 DEF Shape
    <3>3. Job(q).at \notin Creating \cup Holding =>
            Knows(Job(q), lock, file') /\ Backed(Job(q), file', kept, Solid)
      BY DEF Knows, Backed, Creating, Holding
    <3>4. Job(q).at \in Creating \cup Holding => Knows(Job(q), lock, file')
      BY <3>1, <3>2 DEF Knows, Creating, Holding
    <3>5. Job(q).at \in Creating \cup Holding => Backed(Job(q), file', kept, Solid)
      BY <3>1, <3>2 DEF Backed, Creating, Holding
    <3> QED BY <3>3, <3>4, <3>5
  <2>2. UNCHANGED <<lock, kept>>
    OBVIOUS
  <2> QED BY <2>1, <2>2
<1>6. ShapeInv' /\ KnowInv' /\ BackInv' /\ LinkInv'
  <2>1. Knows(j, lock', file') /\ Backed(j, file', kept', Solid')
    BY <1>4
  <2> QED BY <1>4, <1>5, <2>1, WorkStep DEF Inv
<1>7. PairInv'
  BY PairStep DEF Inv
<1>8. OneWriter'
  <2>1. j.at \in Holding => \A q \in Clients : q # p /\ Leased(q) => Job(q).conv # j.conv
    BY Sole, LeasedHolds
  <2> QED BY <2>1, WriterStep DEF Inv
<1>9. SafeInv'
  <2>1. \A c \in Convs : Safe(c, file', firm.file, kept, Solid)
    BY <1>1 DEF Safe, Inv, SafeInv
  <2>2. \A c \in Convs : Safe(c, file', firm'.file, kept', Solid')
    BY <1>4, <2>1
  <2> QED BY <2>2 DEF SafeInv
<1> QED BY <1>3, <1>6, <1>7, <1>8, <1>9 DEF Inv, WorkInv

\* Two clients are not both in operations that need the bootstrap lock.
LEMMA OneBoot ==
  ASSUME Inv, NEW p \in Clients, NEW q \in Clients,
         Job(p).op \in BootOps, Job(q).op \in BootOps
  PROVE  p = q
BY DEF Inv, TypeOK, BootOps

\* Nobody is at a conversation with a file that is missing or torn, but the one who
\* has the bootstrap lock.
LEMMA NobodyAt ==
  ASSUME Inv, NEW p \in Clients, Job(p).op \in BootOps, file[Job(p).conv] \notin Contents,
         NEW q \in Clients, q # p, Job(q).conv = Job(p).conv
  PROVE  Job(q).at \notin Creating \cup Holding
<1>1. Job(q).op \notin BootOps
  BY OneBoot
<1>2. Shape(Job(q)) /\ Knows(Job(q), lock, file)
  BY DEF Inv, WorkInv, ShapeInv, KnowInv
<1>3. Job(q).at \notin Creating /\ Job(q).at # "retired"
  BY <1>1, <1>2 DEF Shape, BootOps
<1>4. Job(q).at \notin Holding \ {"swapped", "retired"}
  BY <1>2 DEF Knows, Holding
<1>5. Job(q).at # "swapped"
  BY <1>2 DEF Knows, Shape
<1> QED BY <1>3, <1>4, <1>5

\* A client that neither creates nor holds knows nothing.
LEMMA AwayKnows ==
  ASSUME NEW i, i.at \notin Creating \cup Holding, NEW lk, NEW f, NEW k, NEW sd
  PROVE  Knows(i, lk, f) /\ Backed(i, f, k, sd)
BY DEF Knows, Backed, Creating, Holding

LEMMA CreateStep ==
  ASSUME Inv, NEW p \in Clients, Create(p)
  PROVE  Inv'
<1>1. /\ Job(p).at = "create" /\ Job(p) \in Jobs /\ Shape(Job(p))
      /\ Backed(Job(p), file, kept, Solid)
  BY JobTypes DEF Create, At, Inv, WorkInv, ShapeInv, BackInv
<1>2. /\ Job(p).conv \in Convs /\ file[Job(p).conv] = Nothing
      /\ Covered(Job(p).conv, kept, Solid) /\ Job(p).op \in BootOps
  BY <1>1 DEF Create, Shape, Creating, Backed, BootOps
<1> DEFINE j == [Job(p) EXCEPT !.at = "write"]
<1>3. /\ j \in Jobs /\ j.at = "write" /\ j.op = Job(p).op /\ j.conv = Job(p).conv
      /\ j.inode = Job(p).inode /\ j.seen = Job(p).seen /\ j.next = Job(p).next
  BY <1>1 DEF Jobs
<1>4. Turns(p, j)
  BY <1>3, Goes DEF Create, Inv
<1> HIDE DEF j
<1>5. Shape(j)
  BY <1>1, <1>3 DEF Shape, Creating, Holding
<1>6. file' = [file EXCEPT ![Job(p).conv] = Torn] /\ file'[Job(p).conv] = Torn
  BY <1>2 DEF Create, Inv, TypeOK
<1>7. Knows(j, lock, file') /\ Backed(j, file', kept, Solid)
  BY <1>2, <1>3, <1>6 DEF Knows, Backed, Holding
<1>8. \A q \in Clients : q # p /\ Job(q).conv = Job(p).conv => Job(q).at \notin Creating \cup Holding
  BY <1>2, NobodyAt
<1>9. \A q \in Clients : q # p /\ Job(q).conv = Job(p).conv =>
        Knows(Job(q), lock, file') /\ Backed(Job(q), file', kept, Solid)
  BY <1>8, AwayKnows
<1>10. \A q \in Clients : q # p => Overtakes(j, Job(q)) /\ Overtakes(Job(q), j)
  BY <1>3 DEF Overtakes
<1>11. UNCHANGED <<boot, temps, lock, final, drafts, firm, kept, faults>>
  BY DEF Create, ghosts
<1>12. RoomInv'
  <2>1. Present' = Present \cup {Job(p).conv}
    BY <1>2, <1>6 DEF Present, Inv, TypeOK
  <2>2. Recorded' = Recorded
    BY <1>11 DEF Recorded
  <2>3. IsFiniteSet(Present)
    BY FS_Subset DEF Present
  <2>4. Cardinality(Present \cup {Job(p).conv}) <= MaxHistory
    <3>1. Cardinality(Present) < MaxHistory /\ Cardinality(Present) \in Nat
      BY <1>1, <2>3, FS_CardinalityType DEF Inv, RoomInv
    <3>2. Job(p).conv \notin Present
      BY <1>2 DEF Present
    <3>3. Cardinality(Present \cup {Job(p).conv}) = Cardinality(Present) + 1
      BY <2>3, <3>2, FS_AddElement
    <3> QED BY <3>1, <3>3
  <2>5. ASSUME faults = 0 PROVE Recorded \subseteq Present
    <3> SUFFICES ASSUME NEW c \in Recorded \ Present PROVE FALSE
      OBVIOUS
    <3>1. PICK q \in Clients : Job(q).at = "retired"
      BY <2>5 DEF Inv, RoomInv
    <3>2. Job(q).op \in BootOps
      BY <3>1 DEF Inv, WorkInv, ShapeInv, Shape, BootOps
    <3> QED BY <1>1, <1>2, <3>1, <3>2, OneBoot
  <2>6. ASSUME faults = 0
        PROVE  /\ Cardinality(Present' \cup Recorded') <= MaxHistory
               /\ Recorded' \ Present' = {}
    <3>1. Present' \cup Recorded' = Present \cup {Job(p).conv}
      BY <2>1, <2>2, <2>5, <2>6
    <3> QED BY <2>1, <2>2, <2>4, <2>5, <2>6, <3>1
  <2>7. \A q \in Clients : Job(q)'.at # "create"
    <3>1. \A q \in Clients : Job(q).at = "create" => q = p
      <4>1. \A q \in Clients : Job(q).at = "create" => Job(q).op \in BootOps
        BY DEF Inv, WorkInv, ShapeInv, Shape, Creating, BootOps
      <4> QED BY <1>2, <4>1, OneBoot
    <3> QED BY <1>3, <1>4, <3>1 DEF Turns
  <2>8. faults' = faults
    BY <1>11
  <2>9. Cardinality(Present') <= MaxHistory
    BY <2>1, <2>4
  <2> QED BY <2>6, <2>7, <2>8, <2>9 DEF RoomInv
<1>13. j.at \notin {"linked", "create"} /\ j.at \notin Holding /\ temps' \subseteq Convs
  BY <1>3, <1>11 DEF Holding, Inv, TypeOK
<1>14. Torn \in Contents \cup {Nothing, Torn}
  OBVIOUS
<1> QED BY <1>2, <1>3, <1>4, <1>5, <1>6, <1>7, <1>9, <1>10, <1>11, <1>12, <1>13, <1>14, FileStep

\* The files that are there stay there, others do not come.
LEMMA RoomSame ==
  ASSUME RoomInv, Present' = Present, UNCHANGED <<firm, faults>>,
         NEW p \in Clients, NEW j, Turns(p, j), Job(p).at # "retired", j.at # "create"
  PROVE  RoomInv'
<1>1. Recorded' = Recorded
  BY DEF Recorded
<1>2. \A q \in Clients : Job(q)'.at = "create" => Cardinality(Present) < MaxHistory
  BY DEF RoomInv, Turns
<1>3. faults = 0 => \A c \in Recorded \ Present :
        \E q \in Clients : Job(q)'.at = "retired" /\ Job(q)'.conv = c
  <2> SUFFICES ASSUME faults = 0, NEW c \in Recorded \ Present
               PROVE  \E q \in Clients : Job(q)'.at = "retired" /\ Job(q)'.conv = c
    OBVIOUS
  <2>1. PICK q \in Clients : Job(q).at = "retired" /\ Job(q).conv = c
    BY DEF RoomInv
  <2>2. Job(q)' = Job(q)
    BY <2>1 DEF Turns
  <2> QED BY <2>1, <2>2
<1> QED BY <1>1, <1>2, <1>3 DEF RoomInv

LEMMA WriteStep ==
  ASSUME Inv, NEW p \in Clients, Write(p)
  PROVE  Inv'
<1>1. /\ Job(p).at = "write" /\ Job(p) \in Jobs /\ Shape(Job(p))
      /\ Backed(Job(p), file, kept, Solid) /\ Knows(Job(p), lock, file)
  BY JobTypes DEF Write, At, Inv, WorkInv, ShapeInv, BackInv, KnowInv
<1>2. /\ Job(p).conv \in Convs /\ file[Job(p).conv] = Torn /\ Job(p).next \in Contents
      /\ Covered(Job(p).conv, kept, Solid) /\ Job(p).op \in BootOps
  BY <1>1 DEF Shape, Creating, Backed, Knows, BootOps
<1> DEFINE j == [Job(p) EXCEPT !.at = "sync"]
<1>3. /\ j \in Jobs /\ j.at = "sync" /\ j.op = Job(p).op /\ j.conv = Job(p).conv
      /\ j.inode = Job(p).inode /\ j.seen = Job(p).seen /\ j.next = Job(p).next
  BY <1>1 DEF Jobs
<1>4. Turns(p, j)
  BY <1>3, Goes DEF Write, Inv
<1> HIDE DEF j
<1>5. Shape(j)
  BY <1>1, <1>3 DEF Shape, Creating, Holding
<1>6. file' = [file EXCEPT ![Job(p).conv] = Job(p).next] /\ file'[Job(p).conv] = Job(p).next
  BY <1>2 DEF Write, Inv, TypeOK
<1>7. Knows(j, lock, file') /\ Backed(j, file', kept, Solid)
  BY <1>2, <1>3, <1>6 DEF Knows, Backed, Holding
<1>8. \A q \in Clients : q # p /\ Job(q).conv = Job(p).conv => Job(q).at \notin Creating \cup Holding
  BY <1>2, NobodyAt
<1>9. \A q \in Clients : q # p /\ Job(q).conv = Job(p).conv =>
        Knows(Job(q), lock, file') /\ Backed(Job(q), file', kept, Solid)
  BY <1>8, AwayKnows
<1>10. \A q \in Clients : q # p => Overtakes(j, Job(q)) /\ Overtakes(Job(q), j)
  BY <1>3, <1>8 DEF Overtakes, Holding
<1>11. UNCHANGED <<boot, temps, lock, final, drafts, firm, kept, faults>>
  BY DEF Write, ghosts
<1>12. RoomInv'
  <2>1. Present' = Present
    BY <1>2, <1>6 DEF Present, Inv, TypeOK
  <2> QED BY <1>1, <1>3, <1>4, <1>11, <2>1, RoomSame DEF Inv
<1>13. j.at \notin {"linked", "create"} /\ j.at \notin Holding /\ temps' \subseteq Convs
  BY <1>3, <1>11 DEF Holding, Inv, TypeOK
<1> QED BY <1>2, <1>3, <1>4, <1>5, <1>6, <1>7, <1>9, <1>10, <1>11, <1>12, <1>13, FileStep

LEMMA SwapStep ==
  ASSUME Inv, NEW p \in Clients, Swap(p)
  PROVE  Inv'
<1>1. /\ Job(p).at = "staged" /\ Job(p) \in Jobs /\ Shape(Job(p)) /\ Knows(Job(p), lock, file)
  BY JobTypes DEF Swap, At, Inv, WorkInv, ShapeInv, KnowInv
<1> DEFINE c == Job(p).conv
           x == Job(p).next
           j == [Job(p) EXCEPT !.at = "swapped"]
<1>2. /\ c \in Convs /\ x \in Contents /\ file[c] \in Contents /\ file[c] = Job(p).seen
      /\ x.rev = file[c].rev + 1 /\ lock[c] = Job(p).inode /\ Job(p).op # "archive"
  BY <1>1 DEF Shape, Knows, Holding
<1>3. /\ j \in Jobs /\ j.at = "swapped" /\ j.op = Job(p).op /\ j.conv = c
      /\ j.inode = Job(p).inode /\ j.seen = Job(p).seen /\ j.next = x
  BY <1>1 DEF Jobs
<1>4. Turns(p, j)
  BY <1>3, Goes DEF Swap, Inv
<1>5. file' = [file EXCEPT ![c] = x] /\ file'[c] = x
  BY <1>2 DEF Swap, Inv, TypeOK
<1>6. \A s \in Contents : s.rev \in Nat
  BY DEF Contents
<1>7. UNCHANGED <<boot, lock, final, drafts, firm, kept, faults>> /\ temps' \subseteq Convs
  BY DEF Swap, Inv, TypeOK
<1> HIDE DEF j, x
<1>8. Shape(j)
  BY <1>1, <1>2, <1>3 DEF Shape, Creating, Holding
<1>9. Knows(j, lock, file') /\ Backed(j, file', kept, Solid)
  BY <1>1, <1>2, <1>3, <1>5 DEF Knows, Backed, Holding
<1>10. ASSUME NEW q \in Clients, q # p, Job(q).conv = c, Job(q).at \in Creating \cup Holding
       PROVE  /\ Job(q).at = "sync" /\ Job(q).next \in Contents
              /\ x.rev > Job(q).next.rev /\ x # Job(q).next
  <2>1. Job(q).at \notin Holding
    BY <1>1, <1>10, Sole DEF Holding
  <2>2. Shape(Job(q)) /\ Knows(Job(q), lock, file)
    BY DEF Inv, WorkInv, ShapeInv, KnowInv
  <2>3. Job(q).at = "sync" /\ Job(q).next \in Contents
    BY <1>2, <1>10, <2>1, <2>2 DEF Knows, Shape, Creating
  <2>4. file[c].rev >= Job(q).next.rev
    BY <1>2, <1>6, <1>10, <2>2, <2>3 DEF Knows
  <2>5. x.rev > Job(q).next.rev
    BY <1>2, <1>6, <2>3, <2>4
  <2>6. x # Job(q).next
    BY <1>6, <2>3, <2>5
  <2> QED BY <2>3, <2>5, <2>6
<1>11. \A q \in Clients : q # p /\ Job(q).conv = c =>
         Knows(Job(q), lock, file') /\ Backed(Job(q), file', kept, Solid)
  <2>1. ASSUME NEW q \in Clients, q # p, Job(q).conv = c, Job(q).at \in Creating \cup Holding
        PROVE  Knows(Job(q), lock, file') /\ Backed(Job(q), file', kept, Solid)
    BY <1>2, <1>5, <1>10, <2>1 DEF Knows, Backed, Holding
  <2> QED BY <2>1, AwayKnows
<1>12. \A q \in Clients : q # p => Overtakes(j, Job(q)) /\ Overtakes(Job(q), j)
  BY <1>3, <1>10 DEF Overtakes, Creating
<1>13. RoomInv'
  <2>1. Present' = Present
    BY <1>2, <1>5 DEF Present, Inv, TypeOK
  <2> QED BY <1>1, <1>3, <1>4, <1>7, <2>1, RoomSame DEF Inv
<1>14. Covered(c, kept, Solid) \/
         (kept[c] # Nothing => Good(x, kept[c]) /\ Good(firm.file[c], kept[c]))
  <2>1. ASSUME kept[c] # Nothing, Good(file[c], kept[c]) PROVE Good(x, kept[c])
    <3>1. kept[c].rev \in Nat /\ file[c].rev \in Nat /\ x.rev \in Nat
      BY <1>2, <1>6, <2>1 DEF Inv, TypeOK
    <3> QED BY <1>2, <2>1, <3>1 DEF Good
  <2> QED BY <1>2, <2>1 DEF Inv, SafeInv, Safe
<1>15. j.at \notin {"linked", "create"} /\ Job(p).at \in Holding /\ x \in Contents \cup {Nothing, Torn}
  BY <1>1, <1>2, <1>3 DEF Holding
<1> QED BY <1>2, <1>3, <1>4, <1>5, <1>7, <1>8, <1>9, <1>11, <1>12, <1>13, <1>14, <1>15, FileStep

\* Who removes a checkpoint holds the bootstrap lock, and its archive is safe.
LEMMA Retires ==
  ASSUME Inv, NEW p \in Clients, Retire(p)
  PROVE  /\ Job(p).at = "archived" /\ Job(p).op = "archive" /\ Job(p).conv \in Convs
         /\ Job(p).seen \in Contents /\ file[Job(p).conv] = Job(p).seen
         /\ Job(p).seen = Job(p).next /\ <<Job(p).conv, Job(p).seen>> \in Solid
         /\ lock[Job(p).conv] = Job(p).inode
<1>1. Job(p).at = "archived" /\ Job(p).op = "archive"
  BY DEF Retire, At, Doing
<1>2. Shape(Job(p)) /\ Knows(Job(p), lock, file) /\ Backed(Job(p), file, kept, Solid)
  BY DEF Inv, WorkInv, ShapeInv, KnowInv, BackInv
<1> QED BY <1>1, <1>2 DEF Shape, Knows, Backed, Holding

LEMMA RetireStep ==
  ASSUME Inv, NEW p \in Clients, Retire(p)
  PROVE  Inv'
<1> DEFINE c == Job(p).conv
           j == [Job(p) EXCEPT !.at = "retired"]
<1>1. /\ Job(p).at = "archived" /\ Job(p).op = "archive" /\ c \in Convs
      /\ Job(p).seen \in Contents /\ file[c] = Job(p).seen
      /\ Job(p).seen = Job(p).next /\ <<c, Job(p).seen>> \in Solid /\ lock[c] = Job(p).inode
  BY Retires
<1>2. Job(p) \in Jobs /\ Shape(Job(p)) /\ Job(p).op \in BootOps
  BY <1>1, JobTypes DEF Inv, WorkInv, ShapeInv, BootOps
<1>3. /\ j \in Jobs /\ j.at = "retired" /\ j.op = "archive" /\ j.conv = c
      /\ j.inode = Job(p).inode /\ j.seen = Job(p).seen /\ j.next = Job(p).next
  BY <1>1, <1>2 DEF Jobs
<1>4. Turns(p, j)
  BY <1>3, Goes DEF Retire, Inv
<1> HIDE DEF j
<1>5. Shape(j)
  BY <1>1, <1>2, <1>3 DEF Shape, Creating, Holding
<1>6. file' = [file EXCEPT ![c] = Nothing] /\ file'[c] = Nothing
  BY <1>1 DEF Retire, Inv, TypeOK
<1>7. Knows(j, lock, file') /\ Backed(j, file', kept, Solid)
  BY <1>1, <1>3, <1>6 DEF Knows, Backed, Holding
<1>8. ASSUME NEW q \in Clients, q # p, Job(q).conv = c PROVE Job(q).at \notin Creating \cup Holding
  <2>1. Job(q).at \notin Holding
    BY <1>1, <1>8, Sole DEF Holding
  <2>2. Job(q).op \notin BootOps
    BY <1>2, <1>8, OneBoot
  <2>3. Job(q).at \notin Creating
    BY <2>2 DEF Inv, WorkInv, ShapeInv, Shape, BootOps
  <2> QED BY <2>1, <2>3
<1>9. \A q \in Clients : q # p /\ Job(q).conv = c =>
        Knows(Job(q), lock, file') /\ Backed(Job(q), file', kept, Solid)
  BY <1>8, AwayKnows
<1>10. \A q \in Clients : q # p => Overtakes(j, Job(q)) /\ Overtakes(Job(q), j)
  BY <1>3 DEF Overtakes
<1>11. UNCHANGED <<boot, temps, lock, final, drafts, firm, kept, faults>>
  BY DEF Retire, ghosts
<1>12. Covered(c, kept, Solid)
  BY <1>1 DEF Inv, SafeInv, Safe, Good, Covered
<1>13. RoomInv'
  <2>1. Present' = Present \ {c} /\ Recorded' = Recorded /\ faults' = faults
    BY <1>1, <1>6, <1>11 DEF Present, Recorded, Inv, TypeOK
  <2>2. /\ IsFiniteSet(Present) /\ IsFiniteSet(Present')
        /\ IsFiniteSet(Present \cup Recorded) /\ IsFiniteSet(Present' \cup Recorded')
    BY <2>1, FS_Subset DEF Present, Recorded
  <2>3. /\ Cardinality(Present) \in Nat /\ Cardinality(Present') \in Nat
        /\ Cardinality(Present \cup Recorded) \in Nat
        /\ Cardinality(Present' \cup Recorded') \in Nat
    BY <2>2, FS_CardinalityType
  <2>4. /\ Cardinality(Present') <= Cardinality(Present)
        /\ Cardinality(Present' \cup Recorded') <= Cardinality(Present \cup Recorded)
    <3>1. Present' \subseteq Present /\ Present' \cup Recorded' \subseteq Present \cup Recorded
      BY <2>1
    <3> QED BY <2>2, <3>1, FS_Subset
  <2>5. faults' <= 1 => Cardinality(Present') <= MaxHistory
    BY <2>1, <2>3, <2>4 DEF Inv, RoomInv
  <2>6. ASSUME NEW q \in Clients, Job(q)'.at = "create" PROVE Cardinality(Present') < MaxHistory
    <3>1. Job(q).at = "create"
      BY <1>3, <1>4, <2>6 DEF Turns
    <3>2. Cardinality(Present) < MaxHistory
      BY <3>1 DEF Inv, RoomInv
    <3> QED BY <2>3, <2>4, <3>2
  <2>7. faults' = 0 => Cardinality(Present' \cup Recorded') <= MaxHistory
    BY <2>1, <2>3, <2>4 DEF Inv, RoomInv
  <2>8. ASSUME faults' = 0, NEW d \in Recorded' \ Present'
        PROVE  \E q \in Clients : Job(q)'.at = "retired" /\ Job(q)'.conv = d
    <3>1. CASE d = c
      BY <1>3, <1>4, <3>1 DEF Turns
    <3>2. CASE d # c
      <4>1. d \in Recorded \ Present /\ faults = 0
        BY <2>1, <2>8, <3>2
      <4>2. PICK q \in Clients : Job(q).at = "retired" /\ Job(q).conv = d
        BY <4>1 DEF Inv, RoomInv
      <4>3. Job(q)' = Job(q)
        BY <1>1, <1>4, <4>2 DEF Turns
      <4> QED BY <4>2, <4>3
    <3> QED BY <3>1, <3>2
  <2> QED BY <2>5, <2>6, <2>7, <2>8 DEF RoomInv
<1>14. j.at \notin {"linked", "create"} /\ Job(p).at \in Holding /\ temps' \subseteq Convs
  BY <1>1, <1>3, <1>11 DEF Holding, Inv, TypeOK
<1>15. Nothing \in Contents \cup {Nothing, Torn}
  OBVIOUS
<1> QED BY <1>1, <1>3, <1>4, <1>5, <1>6, <1>7, <1>9, <1>10, <1>11, <1>12, <1>13, <1>14, <1>15, FileStep

\* The directory is synced, and the user is told of it.
LEMMA PromiseStep ==
  ASSUME Inv, NEW p \in Clients, NEW j, Turns(p, j),
         UNCHANGED <<file, temps, lock, final, drafts, faults>>,
         firm' = [firm EXCEPT !.file = file], kept' \in [Convs -> Contents \cup {Nothing}],
         boot' \in Clients \cup {NoOne}, BootInv',
         Shape(j), Knows(j, lock, file), j.at \in {"idle", "leased"},
         j.at = "leased" => Job(p).at \in Holding /\ j.conv = Job(p).conv,
         \A q \in Clients : q # p => Backed(Job(q), file, kept', Solid),
         \A c \in Convs : kept'[c] = kept[c] \/ (kept'[c] = file[c] /\ file[c] \in Contents)
  PROVE  Inv'
<1>1. /\ firm'.file = file /\ firm'.final = firm.final
      /\ firm' \in [file : [Convs -> Contents \cup {Nothing, Torn}],
                    final : SUBSET (Convs \X Contents)]
  BY DEF Inv, TypeOK
<1>2. Solid' = Solid /\ Archives
  BY <1>1 DEF Solid, Archives
<1>3. TypeOK'
  <2>1. /\ file' \in [Convs -> Contents \cup {Nothing, Torn}]
        /\ temps' \subseteq Convs /\ lock' \in [Convs -> Inodes \cup {0}]
        /\ final' \subseteq Convs \X Contents /\ firm'.final \subseteq final'
        /\ drafts' \subseteq Convs \X Contents \X {"torn", "whole", "linked"}
        /\ faults' \in 0..MaxFaults
    BY <1>1 DEF Inv, TypeOK
  <2> QED BY <1>1, <2>1, TypeStep DEF Inv
<1>4. ShapeInv' /\ KnowInv' /\ BackInv' /\ LinkInv'
  <2>1. \A q \in Clients : q # p =>
          Knows(Job(q), lock', file') /\ Backed(Job(q), file', kept', Solid)
    BY DEF Inv, WorkInv, KnowInv
  <2>2. Backed(j, file', kept', Solid')
    BY DEF Backed
  <2> QED BY <1>2, <2>1, <2>2, WorkStep DEF Inv
<1>5. PairInv'
  BY PairStep DEF Overtakes, Inv
<1>6. OneWriter'
  <2>1. j.at \in Holding => \A q \in Clients : q # p /\ Leased(q) => Job(q).conv # j.conv
    BY Sole, LeasedHolds DEF Holding
  <2> QED BY <2>1, WriterStep DEF Inv
<1>7. SafeInv'
  <2>1. ASSUME NEW c \in Convs PROVE Safe(c, file, file, kept', Solid)
    <3>1. CASE kept'[c] = kept[c]
      <4>1. Covered(c, kept, Solid) => Covered(c, kept', Solid)
        BY <3>1 DEF Covered
      <4> QED BY <3>1, <4>1 DEF Inv, SafeInv, Safe
    <3>2. CASE kept'[c] = file[c] /\ file[c] \in Contents
      <4>1. file[c].rev >= kept'[c].rev
        BY <3>2 DEF Contents
      <4> QED BY <3>2, <4>1 DEF Safe, Good
    <3> QED BY <3>1, <3>2
  <2>2. \A c \in Convs : Safe(c, file', firm'.file, kept', Solid')
    BY <1>1, <1>2, <2>1
  <2> QED BY <2>2 DEF SafeInv
<1>8. RoomInv'
  BY <1>1, RoomStep DEF Inv
<1> QED BY <1>3, <1>4, <1>5, <1>6, <1>7, <1>8 DEF Inv, WorkInv

LEMMA SyncStep ==
  ASSUME Inv, NEW p \in Clients, Sync(p)
  PROVE  Inv'
<1>1. Job(p).at = "sync" /\ Shape(Job(p)) /\ Knows(Job(p), lock, file)
  BY DEF Sync, At, Inv, WorkInv, ShapeInv, KnowInv
<1>2. /\ Job(p).conv \in Convs /\ Job(p).next \in Contents /\ Job(p).op \in BootOps
      /\ file[Job(p).conv] \in Contents
  BY <1>1 DEF Shape, Knows, Creating, BootOps
<1>3. Turns(p, Idle)
  BY <1>2, Opens DEF Sync, Inv
<1>4. Idle.at = "idle" /\ Idle.op \notin BootOps
  BY DEF Idle, BootOps
<1>5. Shape(Idle) /\ Knows(Idle, lock, file)
  BY <1>4, IdleShape, FreeJob
<1>6. boot' \in Clients \cup {NoOne} /\ BootInv'
  BY <1>3, <1>4, BootStep DEF Sync, Inv
<1>7. /\ kept' = [c \in Convs |-> IF Fresh(p, c) THEN Job(p).next ELSE kept[c]]
      /\ firm' = [firm EXCEPT !.file = file]
      /\ UNCHANGED <<file, temps, lock, final, drafts, faults>>
  BY DEF Sync
<1>8. \A c \in Convs : kept'[c] = kept[c] \/ (kept'[c] = file[c] /\ file[c] \in Contents)
  BY <1>2, <1>7 DEF Fresh
<1>9. kept' \in [Convs -> Contents \cup {Nothing}]
  BY <1>2, <1>7 DEF Inv, TypeOK
<1>10. \A q \in Clients : q # p => Backed(Job(q), file, kept', Solid)
  <2> SUFFICES ASSUME NEW q \in Clients, q # p PROVE Backed(Job(q), file, kept', Solid)
    OBVIOUS
  <2>1. Job(q).op \notin BootOps
    BY <1>2, OneBoot
  <2>2. Job(q).at \notin Creating
    BY <2>1 DEF Inv, WorkInv, ShapeInv, Shape, BootOps
  <2> QED BY <2>2 DEF Backed, Creating, Inv, WorkInv, BackInv
<1> HIDE DEF Idle
<1> QED BY <1>3, <1>4, <1>5, <1>6, <1>7, <1>8, <1>9, <1>10, PromiseStep

LEMMA FlushStep ==
  ASSUME Inv, NEW p \in Clients, Flush(p)
  PROVE  Inv'
<1>1. Job(p).at = "swapped" /\ Shape(Job(p)) /\ Knows(Job(p), lock, file)
  BY DEF Flush, At, Inv, WorkInv, ShapeInv, KnowInv
<1> DEFINE n == Job(p).next
           y == [client[p] EXCEPT !.job.at = "leased", !.job.op = "turn",
                                  !.job.seen = n, !.job.next = Nothing]
           j == [client[p].job EXCEPT !.at = "leased", !.op = "turn",
                                      !.seen = n, !.next = Nothing]
<1>2. /\ Job(p).conv \in Convs /\ n \in Contents /\ file[Job(p).conv] = n
      /\ Job(p).op \in {"turn", "compact"}
      /\ Job(p).inode # 0 /\ lock[Job(p).conv] = Job(p).inode /\ Job(p).at \in Holding
  BY <1>1 DEF Shape, Knows, Holding
<1>3. client' = [client EXCEPT ![p] = y]
  BY JobTypes DEF Flush, Inv
<1> HIDE DEF n
<1>4. y = [client[p] EXCEPT !.job = j] /\ j \in Jobs
  <2>1. client[p] \in ClientStates /\ client[p].job \in Jobs
    BY JobTypes DEF Inv
  <2>2. j \in Jobs
    BY <1>2, <2>1 DEF Jobs
  <2>3. y = [client[p] EXCEPT !.job = j]
    BY <2>1 DEF ClientStates, Jobs
  <2> QED BY <2>2, <2>3
<1>5. /\ j.at = "leased" /\ j.op = "turn" /\ j.conv = Job(p).conv /\ j.inode = Job(p).inode
      /\ j.seen = n
  BY JobTypes DEF Jobs, Job, Inv
<1> HIDE DEF y, j
<1>6. Turns(p, j)
  BY <1>3, <1>4, StateAssigned DEF Inv
<1>7. Shape(j)
  BY <1>2, <1>5 DEF Shape, Creating, Holding
<1>8. Knows(j, lock, file)
  BY <1>2, <1>5 DEF Knows, Holding
<1>9. /\ kept' = [kept EXCEPT ![Job(p).conv] = n]
      /\ firm' = [firm EXCEPT !.file = file]
      /\ UNCHANGED <<boot, file, temps, lock, final, drafts, faults>>
  BY DEF Flush, n
<1>10. boot' \in Clients \cup {NoOne} /\ BootInv'
  <2>1. j.op \notin BootOps /\ Job(p).op \notin BootOps
    BY <1>2, <1>5 DEF BootOps
  <2> QED BY <1>6, <1>9, <2>1, BootStep DEF Inv
<1>11. /\ kept' \in [Convs -> Contents \cup {Nothing}] /\ kept'[Job(p).conv] = n
       /\ \A c \in Convs : c # Job(p).conv => kept'[c] = kept[c]
  BY <1>2, <1>9 DEF Inv, TypeOK
<1>12. \A c \in Convs : kept'[c] = kept[c] \/ (kept'[c] = file[c] /\ file[c] \in Contents)
  BY <1>2, <1>11
<1>13. ASSUME NEW q \in Clients, q # p PROVE Backed(Job(q), file, kept', Solid)
  <2>1. /\ Shape(Job(q)) /\ Knows(Job(q), lock, file) /\ Backed(Job(q), file, kept, Solid)
        /\ Overtakes(Job(q), Job(p))
    BY DEF Inv, WorkInv, ShapeInv, KnowInv, BackInv, PairInv
  <2>2. CASE Job(q).at \in Creating /\ Job(q).conv # Job(p).conv
    <3>1. Job(q).conv \in Convs
      BY <2>1, <2>2 DEF Shape
    <3>2. kept'[Job(q).conv] = kept[Job(q).conv]
      BY <1>11, <2>2, <3>1
    <3>3. Covered(Job(q).conv, kept, Solid) => Covered(Job(q).conv, kept', Solid)
      BY <3>2 DEF Covered
    <3> QED BY <2>1, <3>3 DEF Backed
  <2>3. CASE Job(q).at \in Creating /\ Job(q).conv = Job(p).conv
    <3>1. Job(q).at = "sync"
      BY <1>2, <2>1, <2>3 DEF Knows, Creating
    <3>2. n.rev > Job(q).next.rev
      BY <1>1, <2>1, <2>3, <3>1 DEF Overtakes, n
    <3>3. n # Job(q).next
      BY <1>2, <3>2 DEF Contents
    <3> QED BY <1>2, <2>3, <3>1, <3>3 DEF Backed
  <2>4. CASE Job(q).at \notin Creating
    BY <2>1, <2>4 DEF Backed, Creating
  <2> QED BY <2>2, <2>3, <2>4
<1> QED BY <1>2, <1>5, <1>6, <1>7, <1>8, <1>9, <1>10, <1>11, <1>12, <1>13, PromiseStep

-----------------------------------------------------------------------------
(* Faults                                                                  *)

\* The lock of a dead client goes, its files stay.
LEMMA CrashStep ==
  ASSUME Inv, NEW p \in Clients, Crash(p)
  PROVE  Inv'
<1>1. /\ client' = [client EXCEPT ![p] = Dead] /\ Unboot(p)
      /\ UNCHANGED <<file, temps, lock, final, drafts, firm, kept>>
      /\ faults < MaxFaults /\ faults' = faults + 1
  BY DEF Crash, disk
<1>2. Turns(p, Idle)
  BY <1>1, IdleJob, Assigned DEF Inv
<1>3. Idle.at = "idle" /\ Idle.op \notin BootOps
  BY DEF Idle, BootOps
<1>4. /\ Shape(Idle) /\ Knows(Idle, lock, file) /\ Backed(Idle, file, kept, Solid)
      /\ Idle.at \notin Holding
  BY <1>3, IdleShape, FreeJob DEF Holding
<1>5. boot' \in Clients \cup {NoOne} /\ BootInv'
  BY <1>1, <1>2, <1>3, BootStep DEF Inv
<1> HIDE DEF Idle
<1>6. Solid' = Solid /\ Archives
  BY <1>1 DEF Solid, Archives
<1>7. faults \in Nat /\ faults' \in 0..MaxFaults
  BY <1>1 DEF Inv, TypeOK
<1>8. TypeOK'
  <2>1. /\ file' \in [Convs -> Contents \cup {Nothing, Torn}]
        /\ firm' \in [file : [Convs -> Contents \cup {Nothing, Torn}],
                      final : SUBSET (Convs \X Contents)]
        /\ temps' \subseteq Convs /\ lock' \in [Convs -> Inodes \cup {0}]
        /\ final' \subseteq Convs \X Contents /\ firm'.final \subseteq final'
        /\ drafts' \subseteq Convs \X Contents \X {"torn", "whole", "linked"}
        /\ kept' \in [Convs -> Contents \cup {Nothing}]
    BY <1>1 DEF Inv, TypeOK
  <2> QED BY <1>2, <1>5, <1>7, <2>1, TypeStep DEF Inv
<1>9. ShapeInv' /\ KnowInv' /\ BackInv' /\ LinkInv'
  <2>1. \A q \in Clients : Knows(Job(q), lock', file') /\ Backed(Job(q), file', kept', Solid)
    BY <1>1 DEF Inv, WorkInv, KnowInv, BackInv
  <2>2. Knows(Idle, lock', file') /\ Backed(Idle, file', kept', Solid')
    BY <1>1, <1>4, <1>6
  <2> QED BY <1>2, <1>3, <1>4, <1>6, <2>1, <2>2, WorkStep DEF Inv
<1>10. PairInv'
  BY <1>2, <1>3, PairStep DEF Overtakes, Inv
<1>11. OneWriter'
  BY <1>2, <1>4, WriterStep DEF Inv
<1>12. SafeInv'
  BY <1>1, <1>6, SafeStep DEF Inv
<1>13. RoomInv'
  <2>1. Present' = Present
    BY <1>1 DEF Present
  <2>2. faults' <= 1 => Cardinality(Present) <= MaxHistory
    BY <1>1, <1>7 DEF Inv, RoomInv
  <2>3. faults' # 0
    BY <1>1, <1>7
  <2>4. \A q \in Clients : Job(q)'.at = "create" => Cardinality(Present) < MaxHistory
    BY <1>2, <1>3 DEF Turns, Inv, RoomInv
  <2> QED BY <2>1, <2>2, <2>3, <2>4 DEF RoomInv
<1> QED BY <1>8, <1>9, <1>10, <1>11, <1>12, <1>13 DEF Inv, WorkInv

\* What was not synced is gone or not: the old and the new file of a conversation
\* are both good enough, and what can tear is in an archive.
LEMMA PowerLossStep ==
  ASSUME Inv, PowerLoss
  PROVE  Inv'
<1>1. /\ faults < MaxFaults /\ faults' = faults + 1
      /\ client' = [p \in Clients |-> Dead] /\ boot' = NoOne
      /\ temps' \in {{}, temps} /\ UNCHANGED <<lock, kept>>
      /\ firm' = [file |-> file', final |-> final']
  BY DEF PowerLoss
<1>2. PICK torn \in SUBSET {c \in Convs : \E p \in Clients : Fresh(p, c)},
           old \in SUBSET {c \in Convs : file[c] # firm.file[c]} :
        file' = [c \in Convs |-> IF c \in torn THEN Torn
                                 ELSE IF c \in old THEN firm.file[c] ELSE file[c]]
  BY DEF PowerLoss
<1>3. PICK lost \in SUBSET (final \ firm.final) :
        /\ final' = final \ lost
        /\ drafts' = {d \in drafts : <<d[1], d[2]>> \notin lost}
  BY DEF PowerLoss
<1>4. /\ firm.final \subseteq final' /\ final' \subseteq final /\ drafts' \subseteq drafts
      /\ firm'.final = final' /\ firm'.file = file'
  BY <1>1, <1>3 DEF Inv, TypeOK
<1>5. Solid \subseteq Solid'
  BY <1>4 DEF Solid
<1>6. \A p \in Clients : Job(p)' = Idle
  BY <1>1 DEF Job, Dead
<1>7. Idle.at = "idle" /\ Idle.op \notin BootOps
  BY DEF Idle, BootOps
<1>8. \A lk, f, k, sd : Knows(Idle, lk, f) /\ Backed(Idle, f, k, sd)
  BY <1>7, FreeJob
<1>9. Shape(Idle) /\ Idle.at \notin Holding
  BY <1>7, IdleShape DEF Holding
<1>10. Idle \in Jobs /\ Dead \in ClientStates
  BY IdleJob
<1> HIDE DEF Idle
<1>11. \A c \in Convs : file'[c] \in {Torn, file[c], firm.file[c]}
  BY <1>2
<1>12. file' \in [Convs -> Contents \cup {Nothing, Torn}]
  BY <1>2 DEF Inv, TypeOK
<1>13. faults \in Nat /\ faults' \in 0..MaxFaults
  BY <1>1 DEF Inv, TypeOK
<1>14. TypeOK'
  <2>1. client' \in [Clients -> ClientStates]
    BY <1>1, <1>10
  <2>2. \A p \in Clients : boot' = p <=> Job(p)'.op \in BootOps
    BY <1>1, <1>6, <1>7
  <2>3. final' \subseteq Convs \X Contents /\ firm'.final \subseteq final'
    BY <1>4 DEF Inv, TypeOK
  <2>4. drafts' \subseteq Convs \X Contents \X {"torn", "whole", "linked"}
    BY <1>4 DEF Inv, TypeOK
  <2>5. firm' \in [file : [Convs -> Contents \cup {Nothing, Torn}],
                   final : SUBSET (Convs \X Contents)]
    BY <1>1, <1>12, <2>3
  <2>6. /\ temps' \subseteq Convs /\ lock' \in [Convs -> Inodes \cup {0}]
        /\ kept' \in [Convs -> Contents \cup {Nothing}] /\ boot' \in Clients \cup {NoOne}
    BY <1>1 DEF Inv, TypeOK
  <2> HIDE SessionsAssumption
  <2> QED BY <1>12, <1>13, <2>1, <2>2, <2>3, <2>4, <2>5, <2>6
          DEF TypeOK, ClientStates, BootOps
<1>15. WorkInv'
  <2>1. ShapeInv'
    BY <1>6, <1>9 DEF ShapeInv
  <2>2. KnowInv'
    <3>1. \A p \in Clients : Knows(Job(p)', lock', file')
      BY <1>6, <1>8
    <3> QED BY <3>1 DEF KnowInv
  <2>3. BackInv'
    <3>1. \A p \in Clients : Backed(Job(p)', file', kept', Solid')
      BY <1>6, <1>8
    <3> QED BY <3>1 DEF BackInv
  <2>4. LinkInv' /\ PairInv'
    BY <1>6, <1>7 DEF LinkInv, PairInv, Overtakes
  <2> QED BY <2>1, <2>2, <2>3, <2>4 DEF WorkInv
<1>16. OneWriter'
  <2>1. \A p \in Clients : ~Leased(p)'
    BY <1>6, <1>9 DEF Leased, Holding
  <2> QED BY <2>1 DEF OneWriter
<1>17. SafeInv'
  <2>1. ASSUME NEW c \in Convs PROVE Safe(c, file', file', kept, Solid')
    <3>1. CASE Covered(c, kept, Solid)
      BY <1>5, <3>1, CoverGrows DEF Safe
    <3>2. CASE ~Covered(c, kept, Solid)
      <4>1. c \notin torn
        <5> SUFFICES ASSUME c \in torn PROVE FALSE
          OBVIOUS
        <5>1. PICK p \in Clients : Fresh(p, c)
          BY <1>2
        <5>2. Backed(Job(p), file, kept, Solid)
          BY DEF Inv, WorkInv, BackInv
        <5> QED BY <3>2, <5>1, <5>2 DEF Fresh, At, Backed
      <4>2. file'[c] \in {file[c], firm.file[c]}
        BY <1>2, <4>1
      <4>3. Safe(c, file, firm.file, kept, Solid)
        BY DEF Inv, SafeInv
      <4> QED BY <3>2, <4>2, <4>3 DEF Safe
    <3> QED BY <3>1, <3>2
  <2>2. \A c \in Convs : Safe(c, file', firm'.file, kept', Solid')
    BY <1>1, <1>4, <2>1
  <2> QED BY <2>2 DEF SafeInv
<1>18. RoomInv'
  <2>1. Present' \subseteq Present \cup Recorded
    <3>1. ASSUME NEW c \in Convs, file'[c] # Nothing PROVE c \in Present \cup Recorded
      <4>1. CASE c \in torn
        <5>1. PICK p \in Clients : Fresh(p, c)
          BY <1>2, <4>1
        <5>2. Knows(Job(p), lock, file)
          BY DEF Inv, WorkInv, KnowInv
        <5>3. file[c] \in Contents
          BY <5>1, <5>2 DEF Fresh, At, Knows
        <5> QED BY <5>3 DEF Present
      <4>2. CASE c \notin torn
        BY <1>2, <3>1, <4>2 DEF Present, Recorded
      <4> QED BY <4>1, <4>2
    <3> QED BY <3>1 DEF Present
  <2>2. IsFiniteSet(Present \cup Recorded)
    BY FS_Subset DEF Present, Recorded
  <2>3. /\ IsFiniteSet(Present')
        /\ Cardinality(Present') <= Cardinality(Present \cup Recorded)
    BY <2>1, <2>2, FS_Subset
  <2>4. Cardinality(Present') \in Nat /\ Cardinality(Present \cup Recorded) \in Nat
    BY <2>2, <2>3, FS_CardinalityType
  <2>5. faults' <= 1 => Cardinality(Present') <= MaxHistory
    <3>1. faults' <= 1 => faults = 0
      BY <1>1, <1>13
    <3>2. faults = 0 => Cardinality(Present \cup Recorded) <= MaxHistory
      BY DEF Inv, RoomInv
    <3> QED BY <2>3, <2>4, <3>1, <3>2
  <2>6. faults' # 0
    BY <1>1, <1>13
  <2>7. \A p \in Clients : Job(p)'.at # "create"
    BY <1>6, <1>7
  <2> QED BY <2>5, <2>6, <2>7 DEF RoomInv
<1> QED BY <1>14, <1>15, <1>16, <1>17, <1>18 DEF Inv

-----------------------------------------------------------------------------
(* The theorems                                                            *)

\* The invariant holds at first, and every step keeps it.
LEMMA InitInv == Init => Inv
<1> SUFFICES ASSUME Init PROVE Inv
  OBVIOUS
<1>1. \A p \in Clients : Job(p) = Idle
  BY DEF Init, Job, Dead
<1>2. Idle.at = "idle" /\ Idle.op = "none"
  BY DEF Idle
<1>3. \A f, k, sd : Knows(Idle, lock, f) /\ Backed(Idle, f, k, sd)
  BY <1>2, FreeJob
<1>4. Idle \in Jobs /\ Dead \in ClientStates /\ Shape(Idle)
  BY IdleJob, IdleShape
<1> HIDE DEF Idle
<1>5. TypeOK
  <2>1. client \in [Clients -> ClientStates]
    BY <1>4 DEF Init
  <2>2. \A p \in Clients : boot = p <=> Job(p).op \in BootOps
    BY <1>1, <1>2 DEF Init, BootOps
  <2>3. /\ file \in [Convs -> Contents \cup {Nothing, Torn}]
        /\ firm \in [file : [Convs -> Contents \cup {Nothing, Torn}],
                     final : SUBSET (Convs \X Contents)]
        /\ firm.final = {}
    BY DEF Init
  <2>4. /\ boot \in Clients \cup {NoOne} /\ temps \subseteq Convs
        /\ lock \in [Convs -> Inodes \cup {0}] /\ final \subseteq Convs \X Contents
        /\ drafts \subseteq Convs \X Contents \X {"torn", "whole", "linked"}
        /\ kept \in [Convs -> Contents \cup {Nothing}] /\ faults \in 0..MaxFaults
    BY DEF Init
  <2> QED BY <2>1, <2>2, <2>3, <2>4 DEF TypeOK, ClientStates, BootOps
<1>6. WorkInv
  BY <1>1, <1>2, <1>3, <1>4
     DEF WorkInv, ShapeInv, KnowInv, BackInv, LinkInv, PairInv, Overtakes
<1>7. OneWriter
  BY <1>1, <1>2 DEF OneWriter, Leased
<1>8. SafeInv
  BY DEF SafeInv, Safe, Init
<1>9. RoomInv
  <2>1. Present = {} /\ Recorded = {}
    BY DEF Init, Present, Recorded
  <2>2. Present \cup Recorded = {}
    BY <2>1
  <2>3. Cardinality({}) = 0
    BY FS_EmptySet
  <2>4. Cardinality(Present) <= MaxHistory /\ Cardinality(Present \cup Recorded) <= MaxHistory
    BY <2>1, <2>2, <2>3
  <2>5. \A p \in Clients : Job(p).at # "create"
    BY <1>1, <1>2
  <2> QED BY <2>1, <2>4, <2>5 DEF RoomInv
<1> QED BY <1>5, <1>6, <1>7, <1>8, <1>9 DEF Inv

LEMMA StutterInv ==
  ASSUME Inv, UNCHANGED vars
  PROVE  Inv'
<1> USE DEF vars
<1>1. TypeOK'
  BY DEF Inv, TypeOK, Job
<1>2. Present' = Present /\ Recorded' = Recorded /\ Solid' = Solid
  BY DEF Present, Recorded, Solid
<1>3. \A p \in Clients : Job(p)' = Job(p)
  BY DEF Job
<1>4. WorkInv'
  <2>1. ShapeInv' /\ LinkInv' /\ PairInv'
    BY <1>3 DEF Inv, WorkInv, ShapeInv, LinkInv, PairInv
  <2>2. KnowInv'
    BY <1>3 DEF Inv, WorkInv, KnowInv
  <2>3. BackInv'
    BY <1>2, <1>3 DEF Inv, WorkInv, BackInv
  <2> QED BY <2>1, <2>2, <2>3 DEF WorkInv
<1>5. OneWriter'
  BY <1>3 DEF Inv, OneWriter, Leased
<1>6. SafeInv'
  BY <1>2 DEF Inv, SafeInv
<1>7. RoomInv'
  BY <1>2, <1>3 DEF Inv, RoomInv
<1> QED BY <1>1, <1>4, <1>5, <1>6, <1>7 DEF Inv

LEMMA NextInv ==
  ASSUME Inv, [Next]_vars
  PROVE  Inv'
<1>1. CASE UNCHANGED vars
  BY <1>1, StutterInv
<1>2. CASE PowerLoss
  BY <1>2, PowerLossStep
<1>3. ASSUME NEW p \in Clients,
             \/ EnterOpen(p) \/ ScanFails(p) \/ ScanOpen(p) \/ Create(p) \/ Write(p) \/ Sync(p)
             \/ Select(p) \/ BeginTurn(p) \/ TakeLock(p) \/ Stage(p) \/ Swap(p) \/ Flush(p)
             \/ CommitFails(p) \/ EndTurn(p)
      PROVE  Inv'
  BY <1>3, EnterOpenStep, ScanFailsStep, ScanOpenStep, CreateStep, WriteStep, SyncStep,
     SelectStep, BeginTurnStep, TakeLockStep, StageStep, SwapStep, FlushStep,
     CommitFailsStep, EndTurnStep
<1>4. ASSUME NEW p \in Clients,
             \/ Draft(p) \/ DraftRefused(p) \/ FillDraft(p) \/ Link(p) \/ Settle(p)
             \/ DraftFails(p) \/ Preview(p) \/ EnterArchive(p) \/ ScanArchive(p) \/ Retire(p)
             \/ EndArchive(p) \/ EnterRestore(p) \/ ScanRestore(p) \/ Crash(p)
      PROVE  Inv'
  BY <1>4, DraftStep, DraftRefusedStep, FillDraftStep, LinkStep, SettleStep, DraftFailsStep,
     PreviewStep, EnterArchiveStep, ScanArchiveStep, RetireStep, EndArchiveStep,
     EnterRestoreStep, ScanRestoreStep, CrashStep
<1> QED BY <1>1, <1>2, <1>3, <1>4 DEF Next

LEMMA InvHolds == Spec => []Inv
BY InitInv, NextInv, PTL DEF Spec

\* Every variable of the conversations keeps its type, and the bootstrap lock is held
\* by the one client that opens, archives or restores.
THEOREM TypeCorrect == Spec => []TypeOK
<1>1. Inv => TypeOK
  BY DEF Inv
<1> QED BY <1>1, InvHolds, PTL

\* Of all the clients that ask for the lease of a conversation, at most one has it,
\* although lock files are unlinked and created anew under the same name
\* (try_acquire, _sweep_retired_locks).
THEOREM LeasesAreExclusive == Spec => []OneWriter
<1>1. Inv => OneWriter
  BY DEF Inv
<1> QED BY <1>1, InvHolds, PTL

\* What the user was told is saved is never lost, whichever clients die and however
\* often the power fails (initialize, compare_and_swap, archive, retire_archived_snapshot).
THEOREM SavedIsNotLost == Spec => []NothingLost
<1>1. ASSUME Inv PROVE NothingLost
  <2> SUFFICES ASSUME NEW c \in Convs, kept[c] # Nothing
               PROVE  \/ file[c] \in Contents /\ file[c].rev >= kept[c].rev
                      \/ \E s \in Contents : s.rev >= kept[c].rev /\ Restorable(<<c, s>>)
    BY DEF NothingLost
  <2>1. Covered(c, kept, Solid) \/ Good(file[c], kept[c])
    BY <1>1 DEF Inv, SafeInv, Safe
  <2>2. ASSUME NEW s \in Contents, <<c, s>> \in Solid PROVE Restorable(<<c, s>>)
    <3>1. <<c, s>> \in firm.final /\ <<c, s, "linked">> \notin drafts
      BY <2>2 DEF Solid
    <3>2. <<c, s>> \in final
      BY <1>1, <3>1 DEF Inv, TypeOK
    <3>3. Drafts(<<c, s>>) \cap {<<c, s, "linked">>} = {}
      BY <3>1 DEF Drafts
    <3> QED BY <3>2, <3>3 DEF Restorable
  <2> QED BY <2>1, <2>2 DEF Covered, Good
<1> QED BY <1>1, InvHolds, PTL

\* Opening, switching and restoring never make more checkpoints than the directory
\* may hold, also after a crash or a power loss (create, restore, _load_candidates).
THEOREM CapacityIsKept == Spec => []HistoryBounded
<1>1. Inv => HistoryBounded
  BY DEF Inv, RoomInv, HistoryBounded
<1> QED BY <1>1, InvHolds, PTL

\* The removal of a checkpoint, and what must hold for it.
Removes(c) == file[c] \in Contents /\ file'[c] = Nothing /\ faults' = faults
RemovesShown(c) ==
  /\ <<c, file[c]>> \in firm.final
  /\ \E p \in Clients : Doing(p, "archive") /\ Job(p).conv = c /\ Job(p).next = file[c]
  /\ ~\E p \in Clients : Doing(p, "turn") /\ Leased(p) /\ Job(p).conv = c

\* A retirement removes what the preview had shown.
LEMMA RetireRemoves ==
  ASSUME Inv, NEW p \in Clients, Retire(p), NEW c \in Convs, Removes(c)
  PROVE  RemovesShown(c)
<1>1. /\ Job(p).at = "archived" /\ Job(p).op = "archive" /\ Job(p).conv \in Convs
      /\ file[Job(p).conv] = Job(p).seen
      /\ Job(p).seen = Job(p).next /\ <<Job(p).conv, Job(p).seen>> \in Solid
  BY Retires
<1>2. c = Job(p).conv
  BY DEF Retire, Removes, Inv, TypeOK
<1>3. <<c, file[c]>> \in firm.final
  BY <1>1, <1>2 DEF Solid
<1>4. \A q \in Clients : q # p /\ Leased(q) => Job(q).conv # c
  BY <1>1, <1>2, Sole, LeasedHolds DEF Holding
<1> QED BY <1>1, <1>2, <1>3, <1>4 DEF RemovesShown, Doing

\* No other step removes a checkpoint: the faults are counted.
LEMMA OthersRemoveNothing ==
  ASSUME Inv, [Next]_vars, \A p \in Clients : ~Retire(p), NEW c \in Convs
  PROVE  ~Removes(c)
<1> SUFFICES ASSUME Removes(c) PROVE FALSE
  OBVIOUS
<1>1. file'[c] # file[c] /\ faults' = faults
  BY DEF Removes
<1>2. CASE UNCHANGED vars
  BY <1>1, <1>2 DEF vars
<1>3. ASSUME NEW p \in Clients, Create(p) \/ Write(p) \/ Swap(p) PROVE FALSE
  <2>1. Shape(Job(p))
    BY DEF Inv, WorkInv, ShapeInv
  <2>2. Job(p).conv \in Convs
    BY <1>3, <2>1 DEF Create, Write, Swap, At, Shape, Creating, Holding
  <2>3. file'[c] \in {file[c], Torn, Job(p).next}
    BY <1>3, <2>2 DEF Create, Write, Swap, Inv, TypeOK
  <2>4. Job(p).next \in Contents \/ Create(p)
    BY <1>3, <2>1 DEF Write, Swap, At, Shape, Creating
  <2>5. file'[c] \in {file[c], Torn} \/ file'[c] \in Contents
    BY <1>3, <2>2, <2>3, <2>4 DEF Create, Inv, TypeOK
  <2> QED BY <1>1, <2>5 DEF Removes
<1>4. CASE PowerLoss \/ \E p \in Clients : Crash(p)
  BY <1>1, <1>4 DEF PowerLoss, Crash, Inv, TypeOK
<1>5. ASSUME NEW p \in Clients,
             \/ EnterOpen(p) \/ ScanFails(p) \/ ScanOpen(p) \/ Sync(p) \/ Select(p)
             \/ BeginTurn(p) \/ TakeLock(p) \/ Stage(p) \/ Flush(p) \/ CommitFails(p)
             \/ EndTurn(p)
      PROVE  UNCHANGED file
  BY <1>5 DEF EnterOpen, Enter, ScanFails, ScanOpen, Sync, Select, BeginTurn, TakeLock, Stage,
     Flush, CommitFails, EndTurn, disk
<1>6. ASSUME NEW p \in Clients,
             \/ Draft(p) \/ DraftRefused(p) \/ FillDraft(p) \/ Link(p) \/ Settle(p)
             \/ DraftFails(p) \/ Preview(p) \/ EnterArchive(p) \/ ScanArchive(p)
             \/ EndArchive(p) \/ EnterRestore(p) \/ ScanRestore(p)
      PROVE  UNCHANGED file
  BY <1>6 DEF Draft, DraftRefused, FillDraft, Link, Settle, DraftFails, Preview, EnterArchive,
     Enter, ScanArchive, EndArchive, EnterRestore, ScanRestore, disk
<1> QED BY <1>1, <1>2, <1>3, <1>4, <1>5, <1>6 DEF Next

\* No step but a retirement removes a checkpoint, and this one only what the preview
\* had shown, what a power loss cannot take, and what no turn is working on
\* (archive_workspace_session, retire_archived_snapshot).
THEOREM OnlyTheShownGoes == Spec => ArchivesWhatWasShown
<1>1. ASSUME Inv, [Next]_vars
      PROVE  [\A c \in Convs : file[c] \in Contents /\ file'[c] = Nothing /\ faults' = faults =>
                /\ <<c, file[c]>> \in firm.final
                /\ \E p \in Clients : Doing(p, "archive") /\ Job(p).conv = c
                                      /\ Job(p).next = file[c]
                /\ ~\E p \in Clients : Doing(p, "turn") /\ Leased(p) /\ Job(p).conv = c]_vars
  <2>1. ASSUME NEW c \in Convs, Removes(c) PROVE RemovesShown(c)
    BY <1>1, <2>1, RetireRemoves, OthersRemoveNothing
  <2> QED BY <2>1 DEF Removes, RemovesShown
<1> QED BY <1>1, InvHolds, PTL DEF Spec, ArchivesWhatWasShown
=============================================================================
