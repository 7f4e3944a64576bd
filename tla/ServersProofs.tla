-------------------------------- MODULE ServersProofs --------------------------------
(***************************************************************************)
(* The two parts that talk to servers nobody here controls, for every      *)
(* value of their constants. They share no state; each has its inductive   *)
(* invariant.                                                              *)
(*                                                                         *)
(* The runway cache, for any number of maps, airbases, landings, sweeps,   *)
(* changes of the mission and restarts, rests on the lock of a map: a task *)
(* that talks to the server about a map holds it alone (WorkersHoldLocks), *)
(* so nobody sweeps a map that another landing has swept since it looked   *)
(* (LandingsSweepNew), and what a sweep has fetched is of its map as long  *)
(* as the server has not changed its mission under it (SweepsStayRight).   *)
(*                                                                         *)
(* The live source, for every back-off, with and without a flush and an    *)
(* idle timeout, releases its batch before it closes the connection        *)
(* (ReleasedBeforeShut).                                                   *)
(***************************************************************************)
EXTENDS RunwayCache, AcmiStream, FiniteSetTheorems, TLAPS

Places == {"idle", "servers", "airbases", "waiting", "choosing", "listing", "sweeping", "done",
           "gone"}
Working(k) == pc[k] \in {"choosing", "listing", "sweeping"}

\* What a task carries, by where it waits.
Fits(where, what) ==
  /\ where \in {"idle", "done", "gone"} => what \in [theatre : {NoTheatre}]
  /\ where = "servers" => what \in [base : Airbases, theatre : {NoTheatre}]
  /\ where = "airbases" => what \in [base : Airbases, theatre : Theatres]
  /\ where \in {"waiting", "choosing"} => what \in [theatre : Theatres]
  /\ where = "listing" => what \in [theatre : Theatres, mixed : BOOLEAN]
  /\ where = "sweeping" =>
       what \in [theatre : Theatres, mixed : BOOLEAN, todo : SUBSET Airbases, got : SUBSET Airbases]
Placed ==
  /\ pc \in [Tasks -> Places] /\ job = [k \in Tasks |-> job[k]]
  /\ \A k \in Tasks : Fits(pc[k], job[k])
  /\ \A s \in Sweeps : pc[s] \notin {"servers", "airbases"}

\* The lock of a map is that of the one task working on it.
WorkersHoldLocks ==
  /\ \A k \in Tasks : Working(k) => lock[job[k].theatre] = {k}
  /\ \A t \in Theatres : \A k \in lock[t] : Working(k) /\ job[k].theatre = t

\* A map that grading swept is in memory; a landing at work is on a map that
\* was not, and for which there is no exact capture.
LandingsSweepNew ==
  /\ swept \in [Theatres -> {0, 1}]
  /\ \A t \in Theatres : swept[t] = 1 => t \in DOMAIN memory
  /\ \A l \in Landings : Working(l) => swept[job[l].theatre] = 0 /\ seed[job[l].theatre] # "exact"

\* What a task that is sweeping has fetched is of its map.
SweepsStayRight ==
  \A k \in Tasks : Underway(k) /\ ~job[k].mixed =>
    /\ mission = job[k].theatre
    /\ pc[k] = "sweeping" => job[k].got \subseteq Of(job[k].theatre)

\* The inductive invariant.
IInv ==
  /\ TypeOK
  /\ Placed
  /\ WorkersHoldLocks
  /\ LandingsSweepNew
  /\ SweepsStayRight
  /\ RightTheatre
  /\ ExactAnswers

--------------------------------------------------------------------------------
\* One task moves, the others stay.
LEMMA GoMoves ==
  ASSUME Placed, NEW k \in Tasks, NEW where \in Places, NEW what, Go(k, where, what),
         Fits(where, what), k \in Sweeps => where \notin {"servers", "airbases"}
  PROVE  /\ Placed'
         /\ pc'[k] = where /\ job'[k] = what
         /\ \A j \in Tasks \ {k} : pc'[j] = pc[j] /\ job'[j] = job[j]
<1>1. /\ pc' = [j \in Tasks |-> IF j = k THEN where ELSE pc[j]]
      /\ job' = [j \in Tasks |-> IF j = k THEN what ELSE job[j]]
  BY DEF Go, Placed
<1>2. /\ pc'[k] = where /\ job'[k] = what
      /\ \A j \in Tasks \ {k} : pc'[j] = pc[j] /\ job'[j] = job[j]
  BY <1>1
<1>3. pc' \in [Tasks -> Places]
  BY <1>1 DEF Placed
<1>4. job' = [j \in Tasks |-> job'[j]]
  BY <1>1
<1>5. \A j \in Tasks : Fits(pc'[j], job'[j])
  BY <1>2 DEF Placed
<1>6. \A s \in Sweeps : pc'[s] \notin {"servers", "airbases"}
  BY <1>2 DEF Placed, Tasks
<1>7. \A j \in Tasks : Fits(pc[j], job[j])'
  BY <1>5 DEF Fits
<1> QED
  BY <1>2, <1>3, <1>4, <1>6, <1>7 DEF Placed

\* A task that is done carries nothing.
LEMMA DoneMoves ==
  ASSUME Placed, NEW k \in Tasks, Done(k)
  PROVE  /\ Placed' /\ pc'[k] = "done"
         /\ \A j \in Tasks \ {k} : pc'[j] = pc[j] /\ job'[j] = job[j]
<1>1. Fits("done", [theatre |-> NoTheatre])
  BY DEF Fits
<1> QED
  BY <1>1, GoMoves DEF Done, Places

\* What a file may say of a map.
FromFile(t, p) ==
  /\ p \in Pool
  /\ ~p.mixed => p.bases \subseteq Of(t)
  /\ seed[t] = "exact" => p.from = "exact"

LEMMA AnsweringIsOfItsMap ==
  ASSUME IInv, NEW t \in Theatres, Answering(t) # {}
  PROVE  FromFile(t, CHOOSE p \in Answering(t) : TRUE)
<1>1. CASE Answering(t) = {Shipped(t)} /\ seed[t] # "none"
  <2>1. FromFile(t, Shipped(t))
    BY <1>1 DEF FromFile, Shipped, Pool, Of, IInv, TypeOK
  <2> QED
    BY <1>1, <2>1
<1>2. CASE Answering(t) = {files[t]} /\ seed[t] # "exact"
  <2>1. FromFile(t, files[t])
    BY <1>2 DEF FromFile, IInv, TypeOK, RightTheatre
  <2> QED
    BY <1>2, <2>1
<1> QED
  BY <1>1, <1>2 DEF Answering

\* Memory takes over what files say, of maps it had not.
MemoryGrows ==
  /\ DOMAIN memory \subseteq DOMAIN memory' /\ DOMAIN memory' \subseteq Theatres
  /\ \A t \in DOMAIN memory' : \/ t \in DOMAIN memory /\ memory'[t] = memory[t]
                               \/ FromFile(t, memory'[t])

LEMMA LoadedGrows == ASSUME IInv, memory' = Loaded PROVE MemoryGrows
<1> DEFINE D == DOMAIN memory \cup {t \in Theatres : Answering(t) # {}}
<1>1. D \subseteq Theatres /\ DOMAIN memory \subseteq D
  BY DEF IInv, TypeOK
<1>2. memory' = [t \in D |-> IF t \in DOMAIN memory THEN memory[t]
                           ELSE CHOOSE p \in Answering(t) : TRUE]
  BY DEF Loaded
<1>3. \A t \in D : memory'[t] = IF t \in DOMAIN memory THEN memory[t]
                                ELSE CHOOSE p \in Answering(t) : TRUE
  BY <1>2
<1>4. \A t \in D : t \in DOMAIN memory \/ (t \in Theatres /\ Answering(t) # {})
  OBVIOUS
<1>5. DOMAIN memory' = D
  BY <1>2
<1> HIDE DEF D
<1>6. \A t \in D : t \in DOMAIN memory \/ FromFile(t, memory'[t])
  BY <1>1, <1>3, <1>4, AnsweringIsOfItsMap
<1> QED
  BY <1>1, <1>3, <1>5, <1>6 DEF MemoryGrows

LEMMA FiledGrows ==
  ASSUME IInv, NEW t \in Theatres, FileOf(t) # {},
         memory' = Filed(t, CHOOSE p \in FileOf(t) : TRUE)
  PROVE  MemoryGrows
<1>1. FileOf(t) = Answering(t)
  BY DEF FileOf
<1>2. FromFile(t, CHOOSE p \in FileOf(t) : TRUE)
  BY <1>1, AnsweringIsOfItsMap
<1> QED
  BY <1>2 DEF MemoryGrows, Filed, IInv, TypeOK

--------------------------------------------------------------------------------
\* A step in which nobody starts, ends or goes on working, and that is not a
\* restart.
LEMMA IdleStep ==
  ASSUME IInv, Placed', MemoryGrows \/ UNCHANGED memory,
         UNCHANGED <<client, pinned, seed, files, mission, lock, swept, switches, restarts>>,
         memo'.theatre \in Theatres \cup {NoTheatre}, memo'.listing \subseteq Airbases,
         \A k \in Tasks : Working(k) => pc'[k] = pc[k] /\ job'[k] = job[k],
         \A k \in Tasks : ~Working(k) => pc'[k] \notin {"choosing", "listing", "sweeping"},
         \A s \in Sweeps : pc'[s] \in {"idle", "waiting", "gone"} => pc[s] \in {"idle", "waiting", "gone"}
  PROVE  IInv'
<1>1. /\ DOMAIN memory \subseteq DOMAIN memory' /\ DOMAIN memory' \subseteq Theatres
      /\ \A t \in DOMAIN memory' : \/ t \in DOMAIN memory /\ memory'[t] = memory[t]
                                   \/ FromFile(t, memory'[t])
  BY DEF MemoryGrows, IInv, TypeOK
<1>2. TypeOK'
  <2>1. \A t \in DOMAIN memory' : memory'[t] \in Pool
    BY <1>1 DEF FromFile, IInv, TypeOK
  <2>2. \A k \in Tasks : job'[k].theatre \in Theatres \cup {NoTheatre}
    BY DEF Placed, Fits, Places
  <2> QED
    BY <1>1, <2>1, <2>2 DEF IInv, TypeOK
<1>3. WorkersHoldLocks'
  <2>1. ASSUME NEW k \in Tasks, Working(k)' PROVE Working(k) /\ job'[k] = job[k]
    BY <2>1 DEF Working
  <2>2. \A k \in Tasks : Working(k)' => lock'[job'[k].theatre] = {k}
    BY <2>1 DEF IInv, WorkersHoldLocks
  <2>3. ASSUME NEW t \in Theatres, NEW k \in lock[t]
        PROVE  Working(k)' /\ job'[k].theatre = t
    <3>1. k \in Tasks /\ Working(k) /\ job[k].theatre = t
      BY DEF IInv, WorkersHoldLocks, TypeOK
    <3> QED
      BY <3>1 DEF Working
  <2> QED
    BY <2>2, <2>3 DEF WorkersHoldLocks
<1>4. LandingsSweepNew'
  BY <1>1 DEF IInv, LandingsSweepNew, Working, Tasks
<1>5. SweepsStayRight'
  BY DEF IInv, SweepsStayRight, Working, Underway, Of
<1>6. RightTheatre'
  BY <1>1 DEF IInv, RightTheatre, FromFile, Of
<1>7. ExactAnswers'
  BY <1>1 DEF IInv, ExactAnswers, FromFile
<1> QED
  BY <1>2, <1>3, <1>4, <1>5, <1>6, <1>7 DEF IInv

\* A step of a landing or of a sweep that is not at work, to where it is not.
LEMMA IdleMove ==
  ASSUME IInv, NEW k \in Tasks, NEW where \in Places, NEW what, Go(k, where, what),
         Fits(where, what), k \in Sweeps => where \notin {"servers", "airbases"},
         ~Working(k), where \notin {"choosing", "listing", "sweeping", "idle", "gone"},
         where = "waiting" => pc[k] \in {"idle", "servers", "airbases"},
         MemoryGrows \/ UNCHANGED memory,
         UNCHANGED <<client, pinned, seed, files, mission, lock, swept, switches, restarts>>,
         memo'.theatre \in Theatres \cup {NoTheatre}, memo'.listing \subseteq Airbases
  PROVE  IInv'
<1>1. /\ Placed' /\ pc'[k] = where /\ job'[k] = what
      /\ \A j \in Tasks \ {k} : pc'[j] = pc[j] /\ job'[j] = job[j]
  BY GoMoves DEF IInv
<1>2. \A j \in Tasks : Working(j) => pc'[j] = pc[j] /\ job'[j] = job[j]
  BY <1>1
<1>3. \A j \in Tasks : ~Working(j) => pc'[j] \notin {"choosing", "listing", "sweeping"}
  BY <1>1 DEF Working
<1>4. \A s \in Sweeps : pc'[s] \in {"idle", "waiting", "gone"} => pc[s] \in {"idle", "waiting", "gone"}
  BY <1>1 DEF IInv, Placed, Tasks
<1> QED
  BY <1>1, <1>2, <1>3, <1>4, IdleStep

LEMMA IdleDone ==
  ASSUME IInv, NEW k \in Tasks, Done(k), ~Working(k),
         MemoryGrows \/ UNCHANGED memory,
         UNCHANGED <<client, pinned, seed, files, mission, lock, swept, switches, restarts>>,
         memo'.theatre \in Theatres \cup {NoTheatre}, memo'.listing \subseteq Airbases
  PROVE  IInv'
<1>1. Fits("done", [theatre |-> NoTheatre]) /\ "done" \in Places
  BY DEF Fits, Places
<1> QED
  BY <1>1, IdleMove DEF Done

LEMMA WantKeeps ==
  ASSUME IInv, NEW l \in Landings, NEW t \in Theatres \cup {NoTheatre}, Want(l, t),
         pc[l] \in {"servers", "airbases"}, UNCHANGED memory,
         UNCHANGED <<client, pinned, seed, files, mission, lock, swept, switches, restarts>>,
         memo'.theatre \in Theatres \cup {NoTheatre}, memo'.listing \subseteq Airbases
  PROVE  IInv'
<1>1. l \in Tasks /\ ~Working(l) /\ l \notin Sweeps
  BY RunwayAssumption DEF Tasks, Working
<1>2. CASE Done(l)
  BY <1>1, <1>2, IdleDone
<1>3. CASE t # NoTheatre /\ Go(l, "waiting", [theatre |-> t])
  <2>1. Fits("waiting", [theatre |-> t]) /\ "waiting" \in Places
    BY <1>3 DEF Fits, Places
  <2> QED
    BY <1>1, <1>3, <2>1, IdleMove
<1> QED
  BY <1>2, <1>3 DEF Want

LEMMA ResolveKeeps == ASSUME IInv, NEW l \in Landings, NEW b \in Used, Resolve(l, b) PROVE IInv'
<1>1. l \in Tasks /\ ~Working(l) /\ l \notin Sweeps /\ b \in Airbases
  BY RunwayAssumption DEF Tasks, Working, Resolve
<1>2. MemoryGrows
  BY LoadedGrows DEF Resolve
<1>3. /\ UNCHANGED <<client, pinned, seed, files, mission, lock, swept, switches, restarts>>
      /\ memo'.theatre \in Theatres \cup {NoTheatre} /\ memo'.listing \subseteq Airbases
  BY DEF Resolve, IInv, TypeOK
<1>4. CASE Done(l)
  BY <1>1, <1>2, <1>3, <1>4, IdleDone
<1>5. CASE Go(l, "servers", [base |-> b, theatre |-> NoTheatre])
  <2>1. Fits("servers", [base |-> b, theatre |-> NoTheatre]) /\ "servers" \in Places
    BY <1>1 DEF Fits, Places
  <2> QED
    BY <1>1, <1>2, <1>3, <1>5, <2>1, IdleMove
<1> QED
  BY <1>4, <1>5 DEF Resolve

LEMMA InventoryKeeps == ASSUME IInv, Inventory PROVE IInv'
<1>1. MemoryGrows
  BY LoadedGrows DEF Inventory
<1>2. Placed'
  BY DEF Inventory, IInv, Placed
<1>3. \A k \in Tasks : Working(k) => pc'[k] = pc[k] /\ job'[k] = job[k]
  BY DEF Inventory
<1>4. \A k \in Tasks : ~Working(k) => pc'[k] \notin {"choosing", "listing", "sweeping"}
  BY DEF Inventory, Working
<1> QED
  BY <1>1, <1>2, <1>3, <1>4, IdleStep DEF Inventory, IInv, TypeOK

LEMMA ServersKeeps == ASSUME IInv, NEW k \in Tasks, Servers(k) PROVE IInv'
<1>1. /\ pc[k] = "servers" /\ k \in Landings /\ k \notin Sweeps /\ ~Working(k)
      /\ job[k].base \in Airbases
  BY DEF Servers, IInv, Placed, Fits, Tasks, Working
<1>2. /\ UNCHANGED <<client, pinned, seed, files, memory, mission, lock, swept, switches, restarts>>
      /\ memo'.theatre \in Theatres \cup {NoTheatre} /\ memo'.listing \subseteq Airbases
  BY DEF Servers, IInv, TypeOK
<1>3. mission \in Theatres \cup {NoTheatre}
  BY DEF IInv, TypeOK
<1>4. CASE Done(k)
  BY <1>1, <1>2, <1>4, IdleDone
<1>5. CASE Want(k, Nearest(memo.listing, mission, job[k].base))
  <2>1. Nearest(memo.listing, mission, job[k].base) \in Theatres \cup {NoTheatre}
    BY <1>3 DEF Nearest
  <2> QED
    BY <1>1, <1>2, <1>5, <2>1, WantKeeps
<1>6. CASE mission # NoTheatre /\ Go(k, "airbases", [base |-> job[k].base, theatre |-> mission])
  <2>1. Fits("airbases", [base |-> job[k].base, theatre |-> mission]) /\ "airbases" \in Places
    BY <1>1, <1>3, <1>6 DEF Fits, Places
  <2> QED
    BY <1>1, <1>2, <1>6, <2>1, IdleMove
<1> QED
  BY <1>4, <1>5, <1>6 DEF Servers

LEMMA ListBasesKeeps == ASSUME IInv, NEW k \in Tasks, ListBases(k) PROVE IInv'
<1>1. pc[k] = "airbases" /\ k \in Landings /\ job[k].theatre \in Theatres
  BY DEF ListBases, IInv, Placed, Fits, Tasks
<1>2. PICK answered \in BOOLEAN :
        /\ memo' = IF answered THEN [theatre |-> job[k].theatre, listing |-> Of(mission)] ELSE memo
        /\ Want(k, Nearest(IF answered THEN Of(mission) ELSE {}, job[k].theatre, job[k].base))
  BY DEF ListBases
<1>3. memo'.theatre \in Theatres \cup {NoTheatre} /\ memo'.listing \subseteq Airbases
  BY <1>1, <1>2 DEF IInv, TypeOK, Of
<1>4. Nearest(IF answered THEN Of(mission) ELSE {}, job[k].theatre, job[k].base)
        \in Theatres \cup {NoTheatre}
  BY <1>1 DEF Nearest
<1>5. UNCHANGED <<client, pinned, seed, files, memory, mission, lock, swept, switches, restarts>>
  BY DEF ListBases
<1> QED
  BY <1>1, <1>2, <1>3, <1>4, <1>5, WantKeeps

LEMMA AskSweepKeeps ==
  ASSUME IInv, NEW s \in Sweeps, NEW t \in Theatres \cup {NoTheatre}, AskSweep(s, t)
  PROVE  IInv'
<1>1. s \in Tasks /\ pc[s] = "idle" /\ ~Working(s)
  BY DEF Tasks, AskSweep, Working
<1>2. /\ UNCHANGED <<client, pinned, seed, files, memory, mission, lock, swept, switches, restarts>>
      /\ memo'.theatre \in Theatres \cup {NoTheatre} /\ memo'.listing \subseteq Airbases
  BY DEF AskSweep, IInv, TypeOK
<1>3. CASE Done(s)
  BY <1>1, <1>2, <1>3, IdleDone
<1>4. CASE t # NoTheatre /\ Go(s, "waiting", [theatre |-> t])
  <2>1. Fits("waiting", [theatre |-> t]) /\ "waiting" \in Places
    BY <1>4 DEF Fits, Places
  <2> QED
    BY <1>1, <1>2, <1>4, <2>1, IdleMove
<1> QED
  BY <1>3, <1>4 DEF AskSweep

--------------------------------------------------------------------------------
\* A task at work goes on working at the same map.
LEMMA WorkMove ==
  ASSUME IInv, NEW k \in Tasks, Working(k), NEW where \in {"listing", "sweeping"}, NEW what,
         Go(k, where, what), Fits(where, what), what.theatre = job[k].theatre,
         ~what.mixed => /\ mission = job[k].theatre
                        /\ where = "sweeping" => what.got \subseteq Of(job[k].theatre),
         UNCHANGED <<client, pinned, seed, files, memory, memo, mission, lock, swept, switches,
                     restarts>>
  PROVE  IInv'
<1>1. /\ Placed' /\ pc'[k] = where /\ job'[k] = what
      /\ \A j \in Tasks \ {k} : pc'[j] = pc[j] /\ job'[j] = job[j]
  BY GoMoves DEF IInv, Places
<1>2. \A j \in Tasks : (Working(j)' <=> Working(j)) /\ job'[j].theatre = job[j].theatre
  BY <1>1 DEF Working
<1>3. TypeOK'
  BY <1>2 DEF IInv, TypeOK
<1>4. WorkersHoldLocks'
  <2>1. \A j \in Tasks : Working(j)' => lock'[job'[j].theatre] = {j}
    BY <1>2 DEF IInv, WorkersHoldLocks
  <2>2. \A t \in Theatres : \A j \in lock[t] : j \in Tasks
    BY DEF IInv, TypeOK
  <2>3. \A t \in Theatres : \A j \in lock'[t] : Working(j)' /\ job'[j].theatre = t
    BY <1>2, <2>2 DEF IInv, WorkersHoldLocks
  <2> QED
    BY <2>1, <2>3 DEF WorkersHoldLocks
<1>5. LandingsSweepNew'
  BY <1>2 DEF IInv, LandingsSweepNew, Tasks
<1>6. SweepsStayRight'
  <2> SUFFICES ASSUME NEW j \in Tasks, Underway(j)', ~job'[j].mixed
               PROVE  /\ mission' = job'[j].theatre
                      /\ pc'[j] = "sweeping" => job'[j].got \subseteq Of(job'[j].theatre)
    BY DEF SweepsStayRight
  <2>1. CASE j = k
    BY <1>1, <2>1 DEF Of
  <2>2. CASE j # k
    BY <1>1, <2>2 DEF IInv, SweepsStayRight, Underway, Of
  <2> QED
    BY <2>1, <2>2
<1>7. RightTheatre'
  BY DEF IInv, RightTheatre, Of
<1>8. ExactAnswers'
  BY <1>1 DEF IInv, ExactAnswers, Working, Tasks
<1> QED
  BY <1>1, <1>3, <1>4, <1>5, <1>6, <1>7, <1>8 DEF IInv

\* A task at work is done and gives its lock back; nobody else worked there.
LEMMA Released ==
  ASSUME IInv, NEW k \in Tasks, Working(k), Done(k), Release(k)
  PROVE  /\ Placed' /\ WorkersHoldLocks' /\ lock' \in [Theatres -> SUBSET Tasks]
         /\ pc'[k] = "done" /\ job[k].theatre \in Theatres
         /\ \A j \in Tasks : job'[j].theatre \in Theatres \cup {NoTheatre}
         /\ \A j \in Tasks : Working(j)' =>
              /\ j # k /\ Working(j) /\ pc'[j] = pc[j] /\ job'[j] = job[j]
              /\ job[j].theatre # job[k].theatre
<1> DEFINE t == job[k].theatre
<1>1. /\ Placed' /\ pc'[k] = "done"
      /\ \A j \in Tasks \ {k} : pc'[j] = pc[j] /\ job'[j] = job[j]
  BY DoneMoves DEF IInv
<1>2. t \in Theatres /\ lock[t] = {k}
  BY DEF IInv, Placed, Fits, Working, WorkersHoldLocks
<1>3. /\ lock' \in [Theatres -> SUBSET Tasks] /\ lock'[t] = {}
      /\ \A u \in Theatres \ {t} : lock'[u] = lock[u]
  BY <1>2 DEF Release, IInv, TypeOK
<1>4. \A j \in Tasks : Working(j)' => j # k /\ Working(j) /\ pc'[j] = pc[j] /\ job'[j] = job[j]
  BY <1>1 DEF Working
<1>5. \A j \in Tasks : Working(j)' => job[j].theatre # t /\ job[j].theatre \in Theatres
  BY <1>2, <1>4 DEF IInv, WorkersHoldLocks, Placed, Fits, Working
<1>6. \A j \in Tasks : Working(j)' => lock'[job'[j].theatre] = {j}
  BY <1>3, <1>4, <1>5 DEF IInv, WorkersHoldLocks
<1>7. \A u \in Theatres : \A j \in lock'[u] : Working(j)' /\ job'[j].theatre = u
  <2> SUFFICES ASSUME NEW u \in Theatres, NEW j \in lock'[u]
               PROVE  Working(j)' /\ job'[j].theatre = u
    OBVIOUS
  <2>1. u # t /\ j \in lock[u] /\ j \in Tasks
    BY <1>3
  <2>2. Working(j) /\ job[j].theatre = u /\ j # k
    BY <2>1 DEF IInv, WorkersHoldLocks
  <2> QED
    BY <1>1, <2>1, <2>2 DEF Working
<1>8. \A j \in Tasks : job'[j].theatre \in Theatres \cup {NoTheatre}
  BY <1>1 DEF Placed, Fits, Places
<1> QED
  BY <1>1, <1>2, <1>3, <1>4, <1>5, <1>6, <1>7, <1>8 DEF WorkersHoldLocks

\* A task at work gives up.
LEMMA GiveUpKeeps ==
  ASSUME IInv, NEW k \in Tasks, Working(k), Done(k), Release(k),
         UNCHANGED <<client, pinned, seed, files, memory, memo, mission, swept, switches, restarts>>
  PROVE  IInv'
<1>1. /\ Placed' /\ WorkersHoldLocks' /\ lock' \in [Theatres -> SUBSET Tasks]
      /\ pc'[k] = "done"
      /\ \A j \in Tasks : job'[j].theatre \in Theatres \cup {NoTheatre}
      /\ \A j \in Tasks : Working(j)' => Working(j) /\ pc'[j] = pc[j] /\ job'[j] = job[j]
  BY Released
<1>2. TypeOK'
  BY <1>1 DEF IInv, TypeOK
<1>3. LandingsSweepNew'
  BY <1>1 DEF IInv, LandingsSweepNew, Tasks
<1>4. SweepsStayRight'
  BY <1>1 DEF IInv, SweepsStayRight, Underway, Working, Of
<1>5. RightTheatre'
  BY DEF IInv, RightTheatre, Of
<1>6. ExactAnswers'
  <2>1. \A s \in Sweeps : s # k => pc'[s] = pc[s]
    BY DoneMoves DEF IInv, Tasks
  <2> QED
    BY <1>1, <2>1 DEF IInv, ExactAnswers
<1> QED
  BY <1>1, <1>2, <1>3, <1>4, <1>5, <1>6 DEF IInv

LEMMA ChooseKeeps == ASSUME IInv, NEW k \in Tasks, Choose(k) PROVE IInv'
<1>1. pc[k] = "choosing" /\ Working(k) /\ job[k].theatre \in Theatres
  BY DEF Choose, Working, IInv, Placed, Fits
<1>2. PICK known \in BOOLEAN :
        IF Serves(job[k].theatre, known)
        THEN /\ Go(k, "listing", [theatre |-> job[k].theatre,
                                  mixed |-> ~known \/ mission = NoTheatre])
             /\ UNCHANGED lock
        ELSE Done(k) /\ Release(k)
  BY DEF Choose
<1>3. UNCHANGED <<client, pinned, seed, files, memory, memo, mission, swept, switches, restarts>>
  BY DEF Choose
<1>4. CASE ~Serves(job[k].theatre, known)
  BY <1>1, <1>2, <1>3, <1>4, GiveUpKeeps
<1>5. CASE Serves(job[k].theatre, known)
  <2> DEFINE what == [theatre |-> job[k].theatre, mixed |-> ~known \/ mission = NoTheatre]
  <2>1. Fits("listing", what)
    BY <1>1 DEF Fits
  <2>2. ~what.mixed => mission = job[k].theatre
    BY <1>5 DEF Serves
  <2> QED
    BY <1>1, <1>2, <1>3, <1>5, <2>1, <2>2, WorkMove
<1> QED
  BY <1>4, <1>5

LEMMA ListKeeps == ASSUME IInv, NEW k \in Tasks, List(k) PROVE IInv'
<1>1. /\ pc[k] = "listing" /\ Working(k) /\ Underway(k)
      /\ job[k] \in [theatre : Theatres, mixed : BOOLEAN]
  BY DEF List, Working, Underway, IInv, Placed, Fits
<1>2. UNCHANGED <<client, pinned, seed, files, memory, memo, mission, swept, switches, restarts>>
  BY DEF List
<1> DEFINE what == [theatre |-> job[k].theatre, mixed |-> job[k].mixed,
                    todo |-> Of(mission), got |-> {}]
<1>3. CASE Done(k) /\ Release(k)
  BY <1>1, <1>2, <1>3, GiveUpKeeps
<1>4. CASE Go(k, "sweeping", what) /\ UNCHANGED lock
  <2>1. Fits("sweeping", what)
    BY <1>1 DEF Fits, Of
  <2>2. ~what.mixed => mission = job[k].theatre
    BY <1>1 DEF IInv, SweepsStayRight
  <2> QED
    BY <1>1, <1>2, <1>4, <2>1, <2>2, WorkMove
<1> QED
  BY <1>3, <1>4 DEF List

LEMMA FetchKeeps == ASSUME IInv, NEW k \in Tasks, NEW b \in Airbases, Fetch(k, b) PROVE IInv'
<1>1. /\ pc[k] = "sweeping" /\ Working(k) /\ Underway(k)
      /\ job[k] \in [theatre : Theatres, mixed : BOOLEAN, todo : SUBSET Airbases,
                     got : SUBSET Airbases]
  BY DEF Fetch, Working, Underway, IInv, Placed, Fits
<1>2. PICK answered \in BOOLEAN :
        Go(k, "sweeping", [job[k] EXCEPT !.todo = @ \ {b},
                             !.got = IF answered /\ b \in Of(mission) THEN @ \cup {b} ELSE @])
  BY DEF Fetch
<1> DEFINE what == [job[k] EXCEPT !.todo = @ \ {b},
                      !.got = IF answered /\ b \in Of(mission) THEN @ \cup {b} ELSE @]
<1>3. /\ Fits("sweeping", what) /\ what.theatre = job[k].theatre /\ what.mixed = job[k].mixed
      /\ what.got \subseteq job[k].got \cup Of(mission)
  BY <1>1 DEF Fits
<1>4. ~what.mixed => mission = job[k].theatre /\ what.got \subseteq Of(job[k].theatre)
  BY <1>1, <1>3 DEF IInv, SweepsStayRight
<1>5. UNCHANGED <<client, pinned, seed, files, memory, memo, mission, lock, swept, switches, restarts>>
  BY DEF Fetch
<1> HIDE DEF what
<1> QED
  BY <1>1, <1>2, <1>3, <1>4, <1>5, WorkMove DEF what

--------------------------------------------------------------------------------
LEMMA EnterKeeps == ASSUME IInv, NEW k \in Tasks, Enter(k) PROVE IInv'
<1> DEFINE t == job[k].theatre
<1>1. pc[k] = "waiting" /\ ~Working(k) /\ job[k] \in [theatre : Theatres] /\ lock[t] = {}
  BY DEF Enter, Working, IInv, Placed, Fits
<1>2. /\ UNCHANGED <<client, pinned, seed, files, memo, mission, swept, switches, restarts>>
      /\ memo'.theatre \in Theatres \cup {NoTheatre} /\ memo'.listing \subseteq Airbases
  BY DEF Enter, IInv, TypeOK
<1>3. CASE Done(k) /\ UNCHANGED <<lock, memory>>
  BY <1>1, <1>2, <1>3, IdleDone
<1>4. CASE /\ FileOf(t) # {} /\ Done(k) /\ UNCHANGED lock
           /\ memory' = Filed(t, CHOOSE p \in FileOf(t) : TRUE)
  <2>1. MemoryGrows
    BY <1>1, <1>4, FiledGrows
  <2> QED
    BY <1>1, <1>2, <1>4, <2>1, IdleDone
<1>5. CASE /\ k \in Landings => ~LoadedMeanwhile(t) /\ FileOf(t) = {}
           /\ Go(k, "choosing", job[k]) /\ lock' = [lock EXCEPT ![t] = {k}] /\ UNCHANGED memory
  <2>1. Fits("choosing", job[k]) /\ "choosing" \in Places
    BY <1>1 DEF Fits, Places
  <2>2. /\ Placed' /\ pc'[k] = "choosing" /\ job'[k] = job[k]
        /\ \A j \in Tasks \ {k} : pc'[j] = pc[j] /\ job'[j] = job[j]
    BY <1>5, <2>1, GoMoves DEF IInv
  <2>3. \A j \in Tasks : job'[j] = job[j]
    BY <2>2
  <2>4. \A j \in Tasks : Working(j)' <=> j = k \/ Working(j)
    BY <2>2 DEF Working
  <2>5. /\ lock' \in [Theatres -> SUBSET Tasks] /\ lock'[t] = {k}
        /\ \A u \in Theatres \ {t} : lock'[u] = lock[u]
    BY <1>1, <1>5 DEF IInv, TypeOK
  <2>6. TypeOK'
    BY <1>2, <1>5, <2>3, <2>5 DEF IInv, TypeOK
  <2>7. WorkersHoldLocks'
    <3>1. \A j \in Tasks : Working(j) => job[j].theatre \in Theatres \ {t}
      BY <1>1 DEF IInv, WorkersHoldLocks, Placed, Fits, Working
    <3>2. \A j \in Tasks : Working(j)' => lock'[job'[j].theatre] = {j}
      BY <2>3, <2>4, <2>5, <3>1 DEF IInv, WorkersHoldLocks
    <3>3. \A u \in Theatres : \A j \in lock'[u] : Working(j)' /\ job'[j].theatre = u
      <4> SUFFICES ASSUME NEW u \in Theatres, NEW j \in lock'[u]
                   PROVE  Working(j)' /\ job'[j].theatre = u
        OBVIOUS
      <4>1. j \in Tasks
        BY <2>5
      <4>2. CASE u = t
        BY <2>3, <2>4, <2>5, <4>1, <4>2
      <4>3. CASE u # t
        BY <2>3, <2>4, <2>5, <4>1, <4>3 DEF IInv, WorkersHoldLocks
      <4> QED
        BY <4>2, <4>3
    <3> QED
      BY <3>2, <3>3 DEF WorkersHoldLocks
  <2>8. LandingsSweepNew'
    <3>1. k \in Landings => swept[t] = 0 /\ seed[t] # "exact"
      BY <1>1, <1>5 DEF IInv, LandingsSweepNew, LoadedMeanwhile, FileOf, Answering
    <3> QED
      BY <1>2, <1>5, <2>3, <2>4, <3>1 DEF IInv, LandingsSweepNew, Tasks
  <2>9. SweepsStayRight'
    BY <1>2, <2>2 DEF IInv, SweepsStayRight, Underway, Of
  <2>10. RightTheatre'
    BY <1>2, <1>5 DEF IInv, RightTheatre, Of
  <2>11. ExactAnswers'
    BY <1>1, <1>2, <1>5, <2>2 DEF IInv, ExactAnswers, Tasks
  <2> QED
    BY <2>2, <2>6, <2>7, <2>8, <2>9, <2>10, <2>11 DEF IInv
<1> QED
  BY <1>3, <1>4, <1>5 DEF Enter

LEMMA KeepKeeps == ASSUME IInv, NEW k \in Tasks, Keep(k) PROVE IInv'
<1> DEFINE t == job[k].theatre
           pool == [from |-> "sweep", bases |-> job[k].got, mixed |-> job[k].mixed]
<1>1. /\ pc[k] = "sweeping" /\ Working(k) /\ Underway(k)
      /\ job[k] \in [theatre : Theatres, mixed : BOOLEAN, todo : SUBSET Airbases,
                     got : SUBSET Airbases]
      /\ Done(k) /\ Release(k)
      /\ UNCHANGED <<client, pinned, seed, memo, mission, switches, restarts>>
  BY DEF Keep, Working, Underway, IInv, Placed, Fits
<1>2. CASE UNCHANGED <<memory, files, swept>>
  BY <1>1, <1>2, GiveUpKeeps
<1>3. CASE /\ memory' = Filed(t, pool)
           /\ \E written \in BOOLEAN :
                files' = IF written THEN [files EXCEPT ![t] = pool] ELSE files
           /\ swept' = IF k \in Landings THEN [swept EXCEPT ![t] = @ + 1] ELSE swept
  <2>1. /\ Placed' /\ WorkersHoldLocks' /\ lock' \in [Theatres -> SUBSET Tasks]
        /\ pc'[k] = "done" /\ t \in Theatres
        /\ \A j \in Tasks : job'[j].theatre \in Theatres \cup {NoTheatre}
        /\ \A j \in Tasks : Working(j)' =>
             /\ j # k /\ Working(j) /\ pc'[j] = pc[j] /\ job'[j] = job[j]
             /\ job[j].theatre # t
    BY <1>1, Released
  <2>2. pool \in Pool /\ (~pool.mixed => pool.bases \subseteq Of(t))
    BY <1>1 DEF Pool, IInv, SweepsStayRight
  <2> HIDE DEF pool
  <2>3. /\ DOMAIN memory' = DOMAIN memory \cup {t} /\ memory'[t] = pool
        /\ \A u \in DOMAIN memory' : u # t => u \in DOMAIN memory /\ memory'[u] = memory[u]
    BY <1>3 DEF Filed
  <2>4. /\ files' \in [Theatres -> Pool]
        /\ \A u \in Theatres : files'[u] = files[u] \/ (u = t /\ files'[u] = pool)
    BY <1>3, <2>2 DEF IInv, TypeOK
  <2>5. TypeOK'
    BY <1>1, <2>1, <2>2, <2>3, <2>4 DEF IInv, TypeOK
  <2>6. LandingsSweepNew'
    <3>1. CASE k \in Sweeps
      <4>1. k \notin Landings
        BY <3>1, RunwayAssumption
      <4> QED
        BY <1>1, <1>3, <2>1, <2>3, <4>1 DEF IInv, LandingsSweepNew, Tasks
    <3>2. CASE k \in Landings
      <4>1. swept[t] = 0
        BY <1>1, <3>2 DEF IInv, LandingsSweepNew
      <4>2. /\ swept' \in [Theatres -> {0, 1}]
            /\ \A u \in Theatres : u # t => swept'[u] = swept[u]
        BY <1>3, <2>1, <3>2, <4>1 DEF IInv, LandingsSweepNew
      <4>3. \A j \in Tasks : Working(j)' => job'[j].theatre \in Theatres \ {t}
        BY <2>1 DEF Placed, Fits, Working
      <4> QED
        BY <1>1, <2>1, <2>3, <4>2, <4>3 DEF IInv, LandingsSweepNew, Tasks
    <3> QED
      BY <3>1, <3>2 DEF Tasks
  <2>7. SweepsStayRight'
    BY <1>1, <2>1 DEF IInv, SweepsStayRight, Underway, Working, Of
  <2>8. RightTheatre'
    BY <2>2, <2>3, <2>4 DEF IInv, RightTheatre, Of
  <2>9. ExactAnswers'
    <3>1. \A s \in Sweeps : s # k => pc'[s] = pc[s]
      BY <1>1, DoneMoves DEF IInv, Tasks
    <3>2. k \in Landings => seed[t] # "exact"
      BY <1>1 DEF IInv, LandingsSweepNew
    <3> QED
      BY <1>1, <2>1, <2>3, <3>1, <3>2 DEF IInv, ExactAnswers, Tasks
  <2> QED
    BY <2>1, <2>5, <2>6, <2>7, <2>8, <2>9 DEF IInv
<1> QED
  BY <1>2, <1>3 DEF Keep, WorthKeeping

LEMMA SwitchKeeps == ASSUME IInv, NEW t \in Theatres \cup {NoTheatre}, Switch(t) PROVE IInv'
<1>1. /\ UNCHANGED <<client, pinned, seed, files, memory, memo, lock, pc, swept, restarts>>
      /\ mission' = t /\ switches' \in 0 .. MaxSwitches
      /\ job' = [k \in Tasks |-> IF Underway(k) THEN [job[k] EXCEPT !.mixed = TRUE] ELSE job[k]]
  BY RunwayAssumption DEF Switch, IInv, TypeOK
<1>2. \A k \in Tasks : /\ ~Underway(k) => job'[k] = job[k]
                       /\ Underway(k) => job'[k] = [job[k] EXCEPT !.mixed = TRUE]
  BY <1>1
<1>3. \A k \in Tasks : /\ Fits(pc[k], job'[k]) /\ job'[k].theatre = job[k].theatre
                       /\ Underway(k) => job'[k].mixed
  <2> SUFFICES ASSUME NEW k \in Tasks
               PROVE  /\ Fits(pc[k], job'[k]) /\ job'[k].theatre = job[k].theatre
                      /\ Underway(k) => job'[k].mixed
    OBVIOUS
  <2>1. Fits(pc[k], job[k])
    BY DEF IInv, Placed
  <2>2. CASE pc[k] = "listing"
    BY <1>2, <2>1, <2>2 DEF Fits, Underway
  <2>3. CASE pc[k] = "sweeping"
    BY <1>2, <2>1, <2>3 DEF Fits, Underway
  <2>4. CASE ~Underway(k)
    BY <1>2, <2>1, <2>4
  <2> QED
    BY <2>2, <2>3, <2>4 DEF Underway
<1>4. Placed'
  <2>1. \A k \in Tasks : Fits(pc[k], job[k])'
    BY <1>1, <1>3 DEF Fits
  <2>2. job' = [k \in Tasks |-> job'[k]]
    BY <1>1
  <2> QED
    BY <1>1, <2>1, <2>2 DEF IInv, Placed
<1>5. TypeOK'
  BY <1>1, <1>3 DEF IInv, TypeOK
<1>6. WorkersHoldLocks'
  <2>1. \A u \in Theatres : \A k \in lock[u] : k \in Tasks
    BY DEF IInv, TypeOK
  <2> QED
    BY <1>1, <1>3, <2>1 DEF IInv, WorkersHoldLocks, Working
<1>7. LandingsSweepNew'
  BY <1>1, <1>3 DEF IInv, LandingsSweepNew, Working, Tasks
<1>8. SweepsStayRight'
  BY <1>1, <1>3 DEF SweepsStayRight, Underway
<1>9. RightTheatre' /\ ExactAnswers'
  BY <1>1 DEF IInv, RightTheatre, ExactAnswers, Of
<1> QED
  BY <1>4, <1>5, <1>6, <1>7, <1>8, <1>9 DEF IInv

LEMMA RestartKeeps == ASSUME IInv, Restart PROVE IInv'
<1>1. /\ UNCHANGED <<client, pinned, seed, files, mission, switches>>
      /\ restarts' \in 0 .. MaxRestarts
      /\ DOMAIN memory' = {} /\ memo' = [theatre |-> NoTheatre, listing |-> {}]
      /\ lock' = [t \in Theatres |-> {}] /\ swept' = [t \in Theatres |-> 0]
      /\ pc' = [k \in Tasks |-> IF pc[k] = "idle" THEN "idle" ELSE "gone"]
      /\ job' = [k \in Tasks |-> [theatre |-> NoTheatre]]
  BY RunwayAssumption DEF Restart, IInv, TypeOK
<1>2. \A k \in Tasks : pc'[k] \in {"idle", "gone"} /\ job'[k] = [theatre |-> NoTheatre]
  BY <1>1
<1>3. Placed'
  <2>1. \A k \in Tasks : Fits(pc[k], job[k])'
    BY <1>2 DEF Fits
  <2> QED
    BY <1>1, <1>2, <2>1 DEF Placed, Places, Tasks
<1>4. TypeOK'
  BY <1>1, <1>2 DEF IInv, TypeOK
<1>5. WorkersHoldLocks' /\ LandingsSweepNew' /\ SweepsStayRight'
  BY <1>1, <1>2 DEF WorkersHoldLocks, LandingsSweepNew, SweepsStayRight, Working, Underway, Tasks
<1>6. RightTheatre' /\ ExactAnswers'
  BY <1>1 DEF IInv, RightTheatre, ExactAnswers, Of
<1> QED
  BY <1>3, <1>4, <1>5, <1>6 DEF IInv

--------------------------------------------------------------------------------
LEMMA InitHolds == Init => IInv
<1> SUFFICES ASSUME Init PROVE IInv
  OBVIOUS
<1>1. \A k \in Tasks : pc[k] = "idle" /\ job[k] = [theatre |-> NoTheatre]
  BY DEF Init
<1>2. Placed
  <2>1. \A k \in Tasks : Fits(pc[k], job[k])
    BY <1>1 DEF Fits
  <2> QED
    BY <1>1, <2>1 DEF Init, Placed, Places, Tasks
<1>3. /\ files \in [Theatres -> Pool] /\ \A t \in Theatres : files[t].bases = {}
      /\ DOMAIN memory = {}
  <2>1. Unusable("none") \in Pool /\ Unusable("stale") \in Pool
    BY DEF Unusable, Pool
  <2>2. Unusable("none").bases = {} /\ Unusable("stale").bases = {}
    BY DEF Unusable
  <2>3. files \in [Theatres -> {Unusable("none"), Unusable("stale")}]
    BY DEF Init
  <2>4. DOMAIN memory = {}
    BY DEF Init
  <2> QED
    BY <2>1, <2>2, <2>3, <2>4
<1>4. TypeOK
  BY <1>1, <1>3, RunwayAssumption DEF Init, TypeOK
<1>5. WorkersHoldLocks /\ LandingsSweepNew /\ SweepsStayRight
  BY <1>1 DEF Init, WorkersHoldLocks, LandingsSweepNew, SweepsStayRight, Working, Underway, Tasks
<1>6. RightTheatre /\ ExactAnswers
  BY <1>3 DEF RightTheatre, ExactAnswers
<1> QED
  BY <1>2, <1>4, <1>5, <1>6 DEF IInv

LEMMA StutterKeeps == ASSUME IInv, UNCHANGED vars PROVE IInv'
<1>1. Placed'
  BY DEF IInv, Placed, Fits, vars
<1>2. WorkersHoldLocks' /\ LandingsSweepNew' /\ SweepsStayRight'
  BY DEF IInv, WorkersHoldLocks, LandingsSweepNew, SweepsStayRight, Working, Underway, Of, vars
<1> QED
  BY <1>1, <1>2 DEF IInv, TypeOK, RightTheatre, ExactAnswers, Of, vars

LEMMA Inductive == IInv /\ [Next]_vars => IInv'
<1> SUFFICES ASSUME IInv, [Next]_vars PROVE IInv'
  OBVIOUS
<1>1. ASSUME NEW l \in Landings, NEW b \in Used, Resolve(l, b) PROVE IInv'
  BY <1>1, ResolveKeeps
<1>2. ASSUME NEW s \in Sweeps, AskSweep(s, mission) \/ \E t \in Theatres : AskSweep(s, t)
      PROVE  IInv'
  BY <1>2, AskSweepKeeps DEF IInv, TypeOK
<1>3. ASSUME NEW k \in Tasks, Step(k) PROVE IInv'
  BY <1>3, ServersKeeps, ListBasesKeeps, EnterKeeps, ChooseKeeps, ListKeeps, FetchKeeps,
     KeepKeeps DEF Step
<1>4. CASE Inventory
  BY <1>4, InventoryKeeps
<1>5. ASSUME NEW t \in Theatres \cup {NoTheatre}, Switch(t) PROVE IInv'
  BY <1>5, SwitchKeeps
<1>6. CASE Restart
  BY <1>6, RestartKeeps
<1>7. CASE UNCHANGED vars
  BY <1>7, StutterKeeps
<1> QED
  BY <1>1, <1>2, <1>3, <1>4, <1>5, <1>6, <1>7 DEF Next

\* No lock is held by a task that is not at work on its map.
LEMMA LocksFollow == IInv => LocksAreWorked
<1> SUFFICES ASSUME IInv, NEW t \in Theatres, NEW k \in lock[t]
             PROVE  /\ pc[k] \in {"choosing", "listing", "sweeping"} /\ job[k].theatre = t
                    /\ Cardinality(lock[t]) = 1
  BY DEF LocksAreWorked
<1>1. k \in Tasks /\ Working(k) /\ job[k].theatre = t
  BY DEF IInv, WorkersHoldLocks, TypeOK
<1>2. lock[t] = {k}
  BY <1>1 DEF IInv, WorkersHoldLocks
<1>3. Cardinality({k}) = 1
  BY FS_Singleton
<1> QED
  BY <1>1, <1>2, <1>3 DEF Working

LEMMA SweepsFollow == IInv => SweptOnce
<1> SUFFICES ASSUME IInv PROVE SweptOnce
  OBVIOUS
<1>1. \A t \in Theatres : swept[t] <= 1
  BY DEF IInv, LandingsSweepNew
<1>2. \A j, k \in Tasks : j # k /\ Underway(j) /\ Underway(k) => job[j].theatre # job[k].theatre
  BY DEF IInv, WorkersHoldLocks, Working, Underway
<1> QED
  BY <1>1, <1>2 DEF SweptOnce

\* The cache keeps its types in every reachable state (provider.py).
THEOREM TypeCorrect == Spec => []TypeOK
<1>1. IInv => TypeOK
  BY DEF IInv
<1> QED
  BY InitHolds, Inductive, <1>1, PTL DEF Spec

\* No geometry is ever filed under another map, whatever server is pinned,
\* unless the server changed its mission meanwhile (_server_for).
THEOREM RightMaps == Spec => []RightTheatre
<1>1. IInv => RightTheatre
  BY DEF IInv
<1> QED
  BY InitHolds, Inductive, <1>1, PTL DEF Spec

\* Grading sweeps a map at most once, however many landings ask for it at
\* once, and no two sweeps of a map overlap (runways_for).
THEOREM OneSweep == Spec => []SweptOnce
<1> QED
  BY InitHolds, Inductive, SweepsFollow, PTL DEF Spec

\* An exact capture answers for its map unless a sweep by hand went over it
\* (_cached_theatres).
THEOREM ExactFirst == Spec => []ExactAnswers
<1>1. IInv => ExactAnswers
  BY DEF IInv
<1> QED
  BY InitHolds, Inductive, <1>1, PTL DEF Spec

\* Every lock is held by one task, at work on that map: no failure leaves a
\* lock behind (runways_for, sweep).
THEOREM LocksWorked == Spec => []LocksAreWorked
<1> QED
  BY InitHolds, Inductive, LocksFollow, PTL DEF Spec


--------------------------------------------------------------------------------
(* The live source.                                                        *)

\* The last commit precedes the closing of the connection.
ReleasedBeforeShut == HasFlush /\ at \in Away \union {"shut"} => batch = FALSE

\* The next delay is at least the last one.
BackoffCoversDelay == waited <= backoff

\* The inductive invariant.
StreamIInv ==
  /\ StreamTypeOK
  /\ ReleasedBeforeShut
  /\ MonitorEndsWithLoop
  /\ ClosedAfterRun
  /\ BackoffCoversDelay

USE DEF link, timers, ending, streamVars, Away, Reading

\* Doubling stays between its argument and the maximum.
LEMMA DoubledBounds ==
  ASSUME NEW delay \in InitialDelay..MaxDelay
  PROVE  Doubled(delay) \in InitialDelay..MaxDelay /\ delay <= Doubled(delay)
BY StreamAssumption DEF Doubled, StreamAssumption

\* A delay before the next attempt keeps the numbers in order.
LEMMA SleepKeeps ==
  ASSUME backoff \in InitialDelay..MaxDelay, NEW doubles \in BOOLEAN, Sleep(doubles)
  PROVE  /\ at' = "wait"
         /\ backoff' \in InitialDelay..MaxDelay
         /\ waited' \in 0..MaxDelay
         /\ waited' <= backoff'
BY DoubledBounds, StreamAssumption DEF Sleep, StreamAssumption

\* The part of the invariant that is about truth values.
StreamFlags ==
  /\ quiet \in BOOLEAN /\ due \in BOOLEAN /\ batch \in BOOLEAN
  /\ running \in BOOLEAN /\ stopping \in BOOLEAN /\ cancelled \in BOOLEAN

\* The part that is about places and numbers.
StreamPlaces ==
  /\ at \in Away \union Reading \union {"shut"}
  /\ why \in {"end", "lost", "raise", "cancel"}
  /\ backoff \in InitialDelay..MaxDelay
  /\ conn \in {"none", "up", "eof"}
  /\ monitor \in {"none", "watching", "asked"}
  /\ stop \in {"no", "client", "monitor", "task", "close", "done"}
  /\ waited \in 0..MaxDelay
  /\ ReleasedBeforeShut
  /\ MonitorEndsWithLoop
  /\ ClosedAfterRun
  /\ BackoffCoversDelay

LEMMA Parts == StreamIInv <=> StreamFlags /\ StreamPlaces
BY DEF StreamIInv, StreamFlags, StreamPlaces, StreamTypeOK

LEMMA StreamInitHolds == StreamInit => StreamIInv
<1> SUFFICES ASSUME StreamInit PROVE StreamFlags /\ StreamPlaces
  BY Parts
<1>1. StreamFlags
  BY Zenon DEF StreamInit, StreamFlags
<1>2. StreamPlaces
  BY StreamAssumption
     DEF StreamAssumption, StreamInit, StreamPlaces, ReleasedBeforeShut, MonitorEndsWithLoop,
         ClosedAfterRun, BackoffCoversDelay
<1> QED
  BY <1>1, <1>2

--------------------------------------------------------------------------------
\* Every step leaves truth values where there were truth values.
LEMMA NextFlags == StreamFlags /\ [StreamNext]_streamVars => StreamFlags'
<1> SUFFICES ASSUME StreamFlags, [StreamNext]_streamVars PROVE StreamFlags'
  OBVIOUS
<1> USE DEF StreamFlags
<1>1. CASE Start \/ Connect \/ HandshakeDone \/ HandshakeFails \/ HandshakeBreaks \/ Wake
  BY <1>1, Zenon DEF Start, Connect, HandshakeDone, HandshakeFails, HandshakeBreaks, Wake
<1>2. CASE Chunk \/ Lines \/ ReadTimeout \/ Flush \/ ReadEnds \/ Tail
  BY <1>2, Zenon DEF Chunk, Lines, ReadTimeout, Flush, ReadEnds, Tail
<1>3. CASE ReadFails \/ HandlerFails \/ Cleanup \/ Final \/ Shut
  BY <1>3, Zenon DEF ReadFails, HandlerFails, Cleanup, Final, Shut
<1>4. CASE Cancelled
  BY <1>4, Zenon DEF Cancelled, CancelAway, CancelLoop, CancelCleanup, CancelFinal
<1>5. CASE Monitor \/ FlushDue \/ FallsQuiet \/ SourceCloses
  BY <1>5, Zenon DEF Monitor, FlushDue, FallsQuiet, SourceCloses
<1>6. CASE StopManager \/ StopClient \/ StopCancels \/ StopCloses \/ CloseIngestor
  BY <1>6, Zenon DEF StopManager, StopClient, StopCancels, StopCloses, CloseIngestor, Cancel
<1>7. CASE UNCHANGED streamVars
  BY <1>7, Zenon
<1> QED
  BY <1>1, <1>2, <1>3, <1>4, <1>5, <1>6, <1>7 DEF StreamNext, RunStep, StopStep

\* Every step preserves the rest of the invariant.
LEMMA NextPlaces == StreamFlags /\ StreamPlaces /\ [StreamNext]_streamVars => StreamPlaces'
<1> SUFFICES ASSUME StreamFlags, StreamPlaces, [StreamNext]_streamVars PROVE StreamPlaces'
  OBVIOUS
<1> USE DEF StreamFlags, StreamPlaces, ReleasedBeforeShut, MonitorEndsWithLoop, ClosedAfterRun,
            BackoffCoversDelay
<1>1. CASE Start
  BY <1>1, StreamAssumption DEF StreamAssumption, Start, Proceeds
<1>2. CASE Connect
  <2>1. CASE Sleep(FALSE) /\ UNCHANGED conn
    BY <1>2, <2>1, SleepKeeps DEF Connect, Proceeds
  <2>2. CASE at' = "handshake" /\ conn' = "up" /\ UNCHANGED <<backoff, waited>>
    BY <1>2, <2>2 DEF Connect, Proceeds
  <2> QED
    BY <1>2, <2>1, <2>2 DEF Connect
<1>3. CASE HandshakeDone
  BY <1>3, StreamAssumption DEF StreamAssumption, HandshakeDone, Proceeds
<1>4. CASE HandshakeFails
  BY <1>4, SleepKeeps DEF HandshakeFails, Proceeds
<1>5. CASE HandshakeBreaks
  BY <1>5 DEF HandshakeBreaks, Returns, Proceeds
<1>6. CASE Wake
  BY <1>6 DEF Wake, LoopAgain, Returns, Proceeds
<1>7. CASE Chunk \/ Lines \/ ReadTimeout \/ Flush \/ ReadEnds
  BY <1>7 DEF Chunk, Lines, ReadTimeout, Flush, ReadEnds, ReadAgain, Proceeds
<1>8. CASE Tail \/ ReadFails \/ HandlerFails
  BY <1>8 DEF Tail, ReadFails, HandlerFails, Unwind, Proceeds
<1>9. CASE Cleanup
  BY <1>9 DEF Cleanup, Proceeds
<1>10. CASE Final
  BY <1>10 DEF Final, Proceeds
<1>11. CASE Shut
  <2>1. CASE Sleep(TRUE)
    BY <1>11, <2>1, SleepKeeps DEF Shut, Proceeds
  <2>2. CASE at' = "ended" /\ UNCHANGED <<backoff, waited>>
    BY <1>11, <2>2 DEF Shut, Proceeds
  <2>3. CASE Returns /\ UNCHANGED <<backoff, waited>>
    BY <1>11, <2>3 DEF Shut, Returns, Proceeds
  <2> QED
    BY <1>11, <2>1, <2>2, <2>3 DEF Shut
<1>12. CASE Cancelled
  <2>1. CASE CancelAway
    BY <1>12, <2>1 DEF Cancelled, CancelAway
  <2>2. CASE CancelLoop
    BY <1>12, <2>2 DEF Cancelled, CancelLoop, Unwind
  <2>3. CASE CancelCleanup \/ CancelFinal
    BY <1>12, <2>3 DEF Cancelled, CancelCleanup, CancelFinal
  <2> QED
    BY <1>12, <2>1, <2>2, <2>3 DEF Cancelled
<1>13. CASE Monitor \/ FlushDue \/ FallsQuiet \/ SourceCloses
  BY <1>13 DEF Monitor, FlushDue, FallsQuiet, SourceCloses
<1>14. CASE StopManager \/ StopClient \/ StopCancels
  BY <1>14 DEF StopManager, StopClient, StopCancels, Cancel
<1>15. CASE StopCloses \/ CloseIngestor
  BY <1>15 DEF StopCloses, StopWaits, CloseIngestor
<1>16. CASE UNCHANGED streamVars
  BY <1>16
<1> QED
  BY <1>1, <1>2, <1>3, <1>4, <1>5, <1>6, <1>7, <1>8, <1>9, <1>10, <1>11, <1>12,
     <1>13, <1>14, <1>15, <1>16 DEF StreamNext, RunStep, StopStep

\* Every step preserves the invariant.
LEMMA StreamStep == StreamIInv /\ [StreamNext]_streamVars => StreamIInv'
<1> SUFFICES ASSUME StreamIInv, [StreamNext]_streamVars PROVE StreamIInv'
  OBVIOUS
<1>1. StreamFlags' /\ StreamPlaces'
  BY Parts, NextFlags, NextPlaces
<1>2. (StreamFlags /\ StreamPlaces)' => StreamIInv'
  BY DEF StreamIInv, StreamFlags, StreamPlaces, StreamTypeOK
<1> QED
  BY <1>1, <1>2

\* The invariant holds of every behaviour.
THEOREM StreamInductive == StreamSpec => []StreamIInv
BY StreamInitHolds, StreamStep, PTL DEF StreamSpec

\* Every variable keeps its type: the back-off stays within its bounds.
THEOREM StreamTypeCorrect == StreamSpec => []StreamTypeOK
<1>1. StreamIInv => StreamTypeOK
  BY DEF StreamIInv
<1> QED
  BY <1>1, StreamInductive, PTL

\* A source that is away from a connection holds no open batch.
THEOREM NoBatchAway == StreamSpec => []NoBatchWhileAway
<1>1. StreamIInv => NoBatchWhileAway
  BY DEF StreamIInv, ReleasedBeforeShut, NoBatchWhileAway
<1> QED
  BY <1>1, StreamInductive, PTL

\* No idle monitor outlives its read loop.
THEOREM MonitorEnds == StreamSpec => []MonitorEndsWithLoop
<1>1. StreamIInv => MonitorEndsWithLoop
  BY DEF StreamIInv
<1> QED
  BY <1>1, StreamInductive, PTL

\* The manager closes the ingestor of a task that has ended, and that stays so.
THEOREM ClosedLast == StreamSpec => []ClosedAfterRun
<1>1. StreamIInv => ClosedAfterRun
  BY DEF StreamIInv
<1> QED
  BY <1>1, StreamInductive, PTL

--------------------------------------------------------------------------------
\* A step from nowhere else to a delay is a failed connect, a failed handshake or
\* a lost connection, and each sleeps for the back-off.
LEMMA DelayIsBackoff ==
  ASSUME StreamIInv, StreamNext, at' = "wait", at # "wait"
  PROVE  waited' = backoff
<1> USE DEF StreamIInv, StreamTypeOK
<1>1. CASE Start \/ Connect \/ HandshakeDone \/ HandshakeFails \/ HandshakeBreaks \/ Wake
  BY <1>1 DEF Start, Connect, HandshakeDone, HandshakeFails, HandshakeBreaks, Wake,
              Sleep, Returns, LoopAgain, Proceeds
<1>2. CASE Chunk \/ Lines \/ ReadTimeout \/ Flush \/ ReadEnds \/ Tail \/ ReadFails
             \/ HandlerFails \/ Cleanup \/ Final
  BY <1>2 DEF Chunk, Lines, ReadTimeout, Flush, ReadEnds, Tail, ReadFails, HandlerFails,
              Cleanup, Final, ReadAgain, Unwind
<1>3. CASE Shut
  BY <1>3 DEF Shut, Sleep, Returns
<1>4. CASE Cancelled
  BY <1>4 DEF Cancelled, CancelAway, CancelLoop, CancelCleanup, CancelFinal, Unwind
<1>5. CASE Monitor \/ FlushDue \/ FallsQuiet \/ SourceCloses \/ StopManager \/ StopStep
  BY <1>5 DEF Monitor, FlushDue, FallsQuiet, SourceCloses, StopManager, StopStep,
              StopClient, StopCancels, StopCloses, CloseIngestor
<1> QED
  BY <1>1, <1>2, <1>3, <1>4, <1>5 DEF StreamNext, RunStep

\* Until a connection is established the delays do not shrink.
THEOREM DelaysGrow == StreamSpec => DelaysDoNotShrink
<1>1. StreamIInv /\ [StreamNext]_streamVars
        => [at' = "wait" /\ at # "wait" /\ waited # 0 => waited' >= waited]_streamVars
  <2> SUFFICES ASSUME StreamIInv, StreamNext, at' = "wait", at # "wait" PROVE waited' >= waited
    OBVIOUS
  <2> QED
    BY DelayIsBackoff, StreamAssumption DEF StreamAssumption, StreamIInv, StreamTypeOK, BackoffCoversDelay
<1> QED
  BY <1>1, StreamInductive, PTL DEF StreamSpec, DelaysDoNotShrink
================================================================================
