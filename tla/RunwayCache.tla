---------------------------- MODULE RunwayCache ----------------------------
(***************************************************************************)
(* Where the geometry of a runway comes from (runways/provider.py).        *)
(*                                                                         *)
(* A landing is matched by position against every map in memory.  Maps get *)
(* there from files -- captures shipped with the build, some of them exact, *)
(* and the sweeps this machine stored -- or from a sweep of the DCS server *)
(* that runs the map, airbase by airbase and slowly (runways/dcssb.py).    *)
(* Landings being graded and sweeps asked for by hand run at once, under a *)
(* lock per map, while the server may load another map between any two of  *)
(* their calls.                                                            *)
(***************************************************************************)
EXTENDS Integers, FiniteSets

CONSTANTS
  Theatres,     \* maps
  Airbases,     \* airbases of all maps
  On,           \* the map each airbase is on
  NoTheatre,    \* a server without a mission
  Landings,     \* landings being graded
  Sweeps,       \* sweeps asked for through the API
  Used,         \* bound: airbases somebody lands at
  Captured,     \* bound: maps that may have files from the start
  MaxSwitches,  \* bound: how often the server loads another mission
  MaxRestarts   \* bound: restarts of the process

Tasks == Landings \cup Sweeps

ASSUME RunwayAssumption ==
  /\ On \in [Airbases -> Theatres] /\ Used \subseteq Airbases /\ NoTheatre \notin Theatres
  /\ Landings \cap Sweeps = {} /\ {MaxSwitches, MaxRestarts} \subseteq Nat

VARIABLES
  client,    \* is DCSServerBot configured?
  pinned,    \* dcssb_server_name is set
  seed,      \* the capture shipped for a map: none, plain or exact
  files,     \* the cache directory: a stored sweep, a stale one, or none
  memory,    \* _memory: the maps loaded so far, and what of them
  memo,      \* _airbases: the listing of the server, and the map it is filed under
  mission,   \* the map the server runs
  lock,      \* _locks: the task that holds each map's lock
  pc, job,   \* where a task waits, and what it carries
  swept,     \* how often this process swept a map on its own account
  switches, restarts

vars == <<client, pinned, seed, files, memory, memo, mission, lock, pc, job, swept,
          switches, restarts>>

Of(t) == {b \in Airbases : t # NoTheatre /\ On[b] = t}
Pool == [from : {"exact", "plain", "sweep", "stale", "none"}, bases : SUBSET Airbases,
         mixed : BOOLEAN]
Shipped(t) == [from |-> seed[t], bases |-> Of(t), mixed |-> FALSE]
Unusable(from) == [from |-> from, bases |-> {}, mixed |-> FALSE]
Stored(t) == files[t].from = "sweep"

Go(t, where, what) == pc' = [pc EXCEPT ![t] = where] /\ job' = [job EXCEPT ![t] = what]
Done(t) == Go(t, "done", [theatre |-> NoTheatre])

-----------------------------------------------------------------------------
(* Files.                                                                  *)

(* The file that answers for a map: an exact capture outranks a sweep,     *)
(* which was placed by an approximate projection and outranks the rest; a  *)
(* sweep written by an older build is not read.                            *)
(* Mutant: a sweep outranks every capture. *)
MutAnswering(t) ==
  IF Stored(t) THEN {files[t]}
  ELSE IF seed[t] # "none" THEN {Shipped(t)} ELSE {}
Answering(t) ==
  IF seed[t] = "exact" THEN {Shipped(t)}
  ELSE IF Stored(t) THEN {files[t]}
  ELSE IF seed[t] # "none" THEN {Shipped(t)}
  ELSE {}

(* _cached_theatres: maps already in memory stay as they are.              *)
Loaded ==
  [t \in DOMAIN memory \cup {t \in Theatres : Answering(t) # {}} |->
     IF t \in DOMAIN memory THEN memory[t] ELSE CHOOSE p \in Answering(t) : TRUE]

(* _load_cache: unlike the above, a stale sweep hides a capture that is    *)
(* not exact.                                                              *)
FileOf(t) == IF seed[t] # "exact" /\ files[t].from = "stale" THEN {} ELSE Answering(t)

Filed(t, pool) == [u \in DOMAIN memory \cup {t} |-> IF u = t THEN pool ELSE memory[u]]

Covers(pools, b) == \E t \in DOMAIN pools : b \in pools[t].bases

-----------------------------------------------------------------------------
(* resolve: what is in memory or on disk answers at once.                  *)
Resolve(l, b) ==
  /\ l \in Landings /\ pc[l] = "idle"
  /\ memory' = Loaded
  /\ IF Covers(Loaded, b) \/ ~client THEN Done(l)
     ELSE Go(l, "servers", [base |-> b, theatre |-> NoTheatre])
  /\ UNCHANGED <<client, pinned, seed, files, memo, mission, lock, swept, switches, restarts>>

(* inventory and export read the same files.                               *)
Inventory ==
  /\ memory # Loaded
  /\ memory' = Loaded
  /\ UNCHANGED <<client, pinned, seed, files, memo, mission, lock, pc, job, swept,
                 switches, restarts>>

(* runways_for, up to the lock; the answer may have come meanwhile.        *)
Want(l, t) ==
  IF t = NoTheatre \/ t \in DOMAIN memory THEN Done(l)
  ELSE Go(l, "waiting", [theatre |-> t])

(* _theatre_for_position: the map that a listing shows around b, nothing   *)
(* when the listing shows other airbases, the reported map when there is   *)
(* no listing.                                                             *)
Nearest(listing, reported, b) ==
  IF b \in listing \/ listing = {} THEN reported ELSE NoTheatre

(* The servers are listed; the airbases of the map reported are known, or  *)
(* are asked for.                                                          *)
Servers(l) ==
  /\ pc[l] = "servers"
  /\ \E answered \in BOOLEAN :
       IF ~answered \/ mission = NoTheatre THEN Done(l)
       ELSE IF memo.theatre = mission
         THEN Want(l, Nearest(memo.listing, mission, job[l].base))
         ELSE Go(l, "airbases", [base |-> job[l].base, theatre |-> mission])
  /\ UNCHANGED <<client, pinned, seed, files, memory, memo, mission, lock, swept,
                 switches, restarts>>

(* The listing is of the map the server runs by now, and is filed under    *)
(* the map it reported before.                                             *)
ListBases(l) ==
  LET reported == job[l].theatre
  IN  /\ pc[l] = "airbases"
      /\ \E answered \in BOOLEAN :
           /\ memo' = IF answered THEN [theatre |-> reported, listing |-> Of(mission)] ELSE memo
           /\ Want(l, Nearest(IF answered THEN Of(mission) ELSE {}, reported, job[l].base))
      /\ UNCHANGED <<client, pinned, seed, files, memory, mission, lock, swept, switches, restarts>>

-----------------------------------------------------------------------------
(* sweep: a map named by the caller, or the one that is running.           *)
AskSweep(s, t) ==
  /\ s \in Sweeps /\ pc[s] = "idle"
  /\ IF ~client \/ t = NoTheatre THEN Done(s) ELSE Go(s, "waiting", [theatre |-> t])
  /\ UNCHANGED <<client, pinned, seed, files, memory, memo, mission, lock, swept,
                 switches, restarts>>

(* With the lock: a landing looks again for what was loaded while it       *)
(* waited, and then in the files; a sweep by hand ignores both.            *)
(* Mutant: nothing is looked up again. *)
MutLoadedMeanwhile(t) == FALSE
LoadedMeanwhile(t) == t \in DOMAIN memory
Enter(k) ==
  LET t == job[k].theatre
  IN  /\ pc[k] = "waiting" /\ lock[t] = {}
      /\ IF k \in Landings /\ LoadedMeanwhile(t) THEN Done(k) /\ UNCHANGED <<lock, memory>>
         ELSE IF k \in Landings /\ FileOf(t) # {}
         THEN Done(k) /\ memory' = Filed(t, CHOOSE p \in FileOf(t) : TRUE) /\ UNCHANGED lock
         ELSE /\ Go(k, "choosing", job[k])
              /\ lock' = [lock EXCEPT ![t] = {k}] /\ UNCHANGED memory
      /\ UNCHANGED <<client, pinned, seed, files, memo, mission, swept, switches, restarts>>

(* Mutant: only a sweep that got as far as the airbases gives its lock back. *)
MutRelease(k) == lock' = IF pc[k] = "sweeping" THEN [lock EXCEPT ![job[k].theatre] = {}] ELSE lock
Release(k) == lock' = [lock EXCEPT ![job[k].theatre] = {}]

(* _server_for: the server must run the map; a pinned one is trusted when  *)
(* it is not known what it runs.                                           *)
(* Mutant: the pin is trusted whatever its server runs. *)
MutServes(t, known) == pinned \/ (known /\ mission = t)
Serves(t, known) ==
  IF pinned THEN ~known \/ mission \in {t, NoTheatre} ELSE known /\ mission = t
Choose(k) ==
  LET t == job[k].theatre
  IN  /\ pc[k] = "choosing"
      /\ \E known \in BOOLEAN :
           IF Serves(t, known)
           THEN /\ Go(k, "listing", [theatre |-> t, mixed |-> ~known \/ mission = NoTheatre])
                /\ UNCHANGED lock
           ELSE Done(k) /\ Release(k)
      /\ UNCHANGED <<client, pinned, seed, files, memory, memo, mission, swept, switches, restarts>>

(* fetch_runways: the listing, then one airbase after the other; one the   *)
(* server does not have, or does not answer for, is left out.              *)
List(k) ==
  /\ pc[k] = "listing"
  /\ \E answered \in BOOLEAN :
       IF answered THEN /\ Go(k, "sweeping", [theatre |-> job[k].theatre, mixed |-> job[k].mixed,
                                              todo |-> Of(mission), got |-> {}])
                        /\ UNCHANGED lock
       ELSE Done(k) /\ Release(k)
  /\ UNCHANGED <<client, pinned, seed, files, memory, memo, mission, swept, switches, restarts>>
Fetch(k, b) ==
  /\ pc[k] = "sweeping" /\ b \in job[k].todo
  /\ \E answered \in BOOLEAN :
       Go(k, "sweeping", [job[k] EXCEPT !.todo = @ \ {b},
                            !.got = IF answered /\ b \in Of(mission) THEN @ \cup {b} ELSE @])
  /\ UNCHANGED <<client, pinned, seed, files, memory, memo, mission, lock, swept, switches, restarts>>

(* What came back is stored, if anything did; the file may not be written. *)
WorthKeeping(bases) == bases # {}
Keep(k) ==
  LET t == job[k].theatre
      pool == [from |-> "sweep", bases |-> job[k].got, mixed |-> job[k].mixed]
  IN  /\ pc[k] = "sweeping" /\ job[k].todo = {}
      /\ IF WorthKeeping(job[k].got)
         THEN /\ memory' = Filed(t, pool)
              /\ \E written \in BOOLEAN : files' = IF written THEN [files EXCEPT ![t] = pool] ELSE files
              /\ swept' = IF k \in Landings THEN [swept EXCEPT ![t] = @ + 1] ELSE swept
         ELSE UNCHANGED <<memory, files, swept>>
      /\ Done(k) /\ Release(k)
      /\ UNCHANGED <<client, pinned, seed, memo, mission, switches, restarts>>

-----------------------------------------------------------------------------
(* The server loads another mission, whoever is talking to it.             *)
Underway(k) == pc[k] \in {"listing", "sweeping"}
Switch(t) ==
  /\ switches < MaxSwitches /\ t # mission
  /\ switches' = switches + 1 /\ mission' = t
  /\ job' = [k \in Tasks |-> IF Underway(k) THEN [job[k] EXCEPT !.mixed = TRUE] ELSE job[k]]
  /\ UNCHANGED <<client, pinned, seed, files, memory, memo, lock, pc, swept, restarts>>

Restart ==
  /\ restarts < MaxRestarts
  /\ restarts' = restarts + 1
  /\ memory' = <<>> /\ memo' = [theatre |-> NoTheatre, listing |-> {}]
  /\ lock' = [t \in Theatres |-> {}]
  /\ pc' = [k \in Tasks |-> IF pc[k] = "idle" THEN "idle" ELSE "gone"]
  /\ job' = [k \in Tasks |-> [theatre |-> NoTheatre]]
  /\ swept' = [t \in Theatres |-> 0]
  /\ UNCHANGED <<client, pinned, seed, files, mission, switches>>

Init ==
  /\ client \in BOOLEAN /\ pinned \in BOOLEAN
  /\ seed \in {f \in [Theatres -> {"none", "plain", "exact"}] :
                 \A t \in Theatres \ Captured : f[t] = "none"}
  /\ files \in {f \in [Theatres -> {Unusable("none"), Unusable("stale")}] :
                  \A t \in Theatres \ Captured : f[t].from = "none"}
  /\ memory = <<>>
  /\ memo = [theatre |-> NoTheatre, listing |-> {}]
  /\ mission \in Theatres \cup {NoTheatre}
  /\ lock = [t \in Theatres |-> {}]
  /\ pc = [k \in Tasks |-> "idle"]
  /\ job = [k \in Tasks |-> [theatre |-> NoTheatre]]
  /\ swept = [t \in Theatres |-> 0]
  /\ switches = 0 /\ restarts = 0

Step(k) ==
  \/ Servers(k) \/ ListBases(k) \/ Enter(k) \/ Choose(k) \/ List(k)
  \/ \E b \in Airbases : Fetch(k, b)
  \/ Keep(k)
Next ==
  \/ \E l \in Landings, b \in Used : Resolve(l, b)
  \/ \E s \in Sweeps : AskSweep(s, mission) \/ \E t \in Theatres : AskSweep(s, t)
  \/ \E k \in Tasks : Step(k)
  \/ Inventory
  \/ \E t \in Theatres \cup {NoTheatre} : Switch(t)
  \/ Restart

Spec == Init /\ [][Next]_vars

-----------------------------------------------------------------------------
TypeOK ==
  /\ client \in BOOLEAN /\ pinned \in BOOLEAN
  /\ seed \in [Theatres -> {"none", "plain", "exact"}]
  /\ files \in [Theatres -> Pool]
  /\ DOMAIN memory \subseteq Theatres /\ \A t \in DOMAIN memory : memory[t] \in Pool
  /\ memo.theatre \in Theatres \cup {NoTheatre} /\ memo.listing \subseteq Airbases
  /\ mission \in Theatres \cup {NoTheatre}
  /\ lock \in [Theatres -> SUBSET Tasks]
  /\ \A k \in Tasks : job[k].theatre \in Theatres \cup {NoTheatre}
  /\ switches \in 0 .. MaxSwitches /\ restarts \in 0 .. MaxRestarts

(* Geometry is never filed under another map, whichever server is pinned   *)
(* or asked, unless that server loaded a mission while it was being swept  *)
(* or would not say what it runs (_server_for's comment on Caucasus and    *)
(* Nellis).                                                                *)
RightTheatre ==
  \A t \in Theatres :
    /\ t \in DOMAIN memory /\ ~memory[t].mixed => memory[t].bases \subseteq Of(t)
    /\ ~files[t].mixed => files[t].bases \subseteq Of(t)

(* However many landings ask for a map at once, grading sweeps it at most  *)
(* once in the life of the process, and no two sweeps of a map overlap     *)
(* (runways_for: "sweeps DCS at most once per theatre").                   *)
SweptOnce ==
  /\ \A t \in Theatres : swept[t] <= 1
  /\ \A j, k \in Tasks : j # k /\ Underway(j) /\ Underway(k) => job[j].theatre # job[k].theatre

(* Unless somebody swept it by hand in this process, an exact capture      *)
(* answers for its map, also while an older sweep of it lies in the cache  *)
(* and after any restart (_cached_theatres: a sweep "must not displace an  *)
(* exact capture").                                                        *)
ExactAnswers ==
  \A t \in DOMAIN memory :
    seed[t] = "exact"
    /\ (\A s \in Sweeps : pc[s] \in {"idle", "waiting", "gone"})
    => memory[t].from = "exact"

(* A map's lock is only ever held by the one task that talks to the server *)
(* about that map: whichever call fails, and wherever, nobody is left      *)
(* waiting for a task that has gone.                                       *)
LocksAreWorked ==
  \A t \in Theatres : \A k \in lock[t] :
    /\ pc[k] \in {"choosing", "listing", "sweeping"} /\ job[k].theatre = t
    /\ Cardinality(lock[t]) = 1
=============================================================================
