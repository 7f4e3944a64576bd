------------------------------- MODULE Dashboard -------------------------------
(***************************************************************************)
(* How a landing reaches an open dashboard: LandingNotifier (api/          *)
(* notifier.py) with the pipelines that broadcast through it, the          *)
(* WebSocket endpoint and the list endpoint (api/routes.py), and one       *)
(* dashboard with its LandingSocket and its list (ws.ts, useLandings.ts,   *)
(* landings.ts).                                                           *)
(*                                                                         *)
(* The notifier runs on one event loop and its lock is never held across   *)
(* an await, so that a broadcast picks its targets, and a new client is    *)
(* added and its replay copied, in one step; every send is an await.       *)
(***************************************************************************)
EXTENDS Integers, Sequences, SequencesExt, FiniteSets

CONSTANTS
  Writers,     \* who broadcasts: the pipelines of the live sources
  Importer,    \* and the one that imports recordings
  ReplaySize,  \* length of _replay
  PageSize,    \* PAGE_SIZE
  Offsets,     \* the page looked at, by the rows before it: 0 is page one
  MaxSockets,  \* bound: connections of the dashboard
  Scenes,      \* bounds: the messages and requests of a behaviour, and may it leave?
  None

\* A replay never reaches past page one (20 messages, 50 rows to a page).
ASSUME DashboardAssumption ==
  /\ Importer \notin Writers /\ ReplaySize \in Nat /\ PageSize \in Nat
  /\ ReplaySize <= PageSize /\ MaxSockets \in Nat \ {0} /\ None \notin Nat
  /\ Offsets \subseteq Nat

Sockets == 1 .. MaxSockets
Sources == Writers \cup {Importer}

VARIABLES
  scene,    \* the bounds of this behaviour, of Scenes
  rows,     \* the landings table: status and source, by id
  log,      \* every message broadcast; the end of it is _replay
  cast,     \* what each pipeline has to broadcast, and to whom it still sends
  clients,  \* _clients
  link,     \* each connection: none, asked, open, down
  handler,  \* its task on the server: none, accepted, serving, ended
  todo,     \* what that task still has to replay
  sent,     \* every message sent on a connection
  read,     \* how many of them the browser has handled
  since,    \* history: the length of log when the connection was registered
  ws,       \* LandingSocket.ws: the connection in use
  timer,    \* a retry, or the first connect(), is due
  left,     \* closedByUser
  fetch,    \* the request for the list: where it is, and what it has
  offset,   \* the page looked at
  data,     \* the list shown
  unseen,   \* liveCount
  answer    \* history: the last answer taken over

server == <<scene, rows, log, cast, clients>>
channel == <<link, handler, todo, sent, read, since>>
socket == <<ws, timer, left>>
list == <<fetch, offset, data, unseen, answer>>
vars == <<server, channel, socket, list>>

--------------------------------------------------------------------------------
(***************************************************************************)
(* The pipelines and the notifier                                          *)
(***************************************************************************)
Ids == 1 .. Len(rows)
Silent == [at |-> "idle"]
MayCast(src) ==
  /\ cast[src].at = "idle"
  /\ Len(log) + Cardinality({w \in Sources : cast[w].at = "announce"}) < scene.messages
About(type, id, status) == [at |-> "announce", msg |-> [type |-> type, id |-> id, status |-> status]]

\* handle_landing commits the row; the broadcast follows after further awaits.
Store(src, status) ==
  /\ MayCast(src)
  /\ rows' = Append(rows, [status |-> status, by |-> src])
  /\ cast' = [cast EXCEPT ![src] = About("landing", Len(rows) + 1, status)]
  /\ UNCHANGED <<scene, log, clients, channel, socket, list>>

\* finalize_landing.
Finalize(id) ==
  LET src == rows[id].by
  IN  /\ MayCast(src) /\ rows[id].status = "provisional"
      /\ rows' = [rows EXCEPT ![id].status = "final"]
      /\ cast' = [cast EXCEPT ![src] = About("landing_update", id, "final")]
      /\ UNCHANGED <<scene, log, clients, channel, socket, list>>

Notices == Cardinality({i \in DOMAIN log : log[i].type = "import"})

\* ImportJobManager._notify: a job's state goes the same way.
NotifyJob ==
  /\ MayCast(Importer)
  /\ cast' = [cast EXCEPT ![Importer] = About("import", Notices + 1, "final")]
  /\ UNCHANGED <<scene, rows, log, clients, channel, socket, list>>

\* After the last send the clients whose send failed are dropped.
Sent(src, rest, stale) ==
  IF rest = {}
  THEN cast' = [cast EXCEPT ![src] = Silent] /\ clients' = clients \ stale
  ELSE /\ cast' = [cast EXCEPT ![src] = [@ EXCEPT !.todo = rest, !.stale = stale]]
       /\ UNCHANGED clients

\* broadcast_message: into the replay, and to the clients there are.
Announce(src) ==
  /\ cast[src].at = "announce"
  /\ log' = Append(log, cast[src].msg)
  /\ cast' = [cast EXCEPT ![src] =
                IF clients = {} THEN Silent
                ELSE [at |-> "sending", msg |-> @.msg, todo |-> clients, stale |-> {}]]
  /\ UNCHANGED <<scene, rows, clients, channel, socket, list>>

\* One send. On a dead connection it raises, or the message is lost unnoticed.
Send(src, s) ==
  /\ cast[src].at = "sending" /\ s \in cast[src].todo
  /\ \/ /\ link[s] = "open"
        /\ sent' = [sent EXCEPT ![s] = Append(@, cast[src].msg)]
        /\ Sent(src, cast[src].todo \ {s}, cast[src].stale)
     \/ /\ link[s] = "down"
        /\ \E stale \in {cast[src].stale, cast[src].stale \cup {s}} :
             Sent(src, cast[src].todo \ {s}, stale)
        /\ UNCHANGED sent
  /\ UNCHANGED <<scene, rows, log, link, handler, todo, read, since, socket, list>>

--------------------------------------------------------------------------------
(***************************************************************************)
(* The WebSocket endpoint                                                  *)
(***************************************************************************)
Replay == SubSeq(log, Len(log) - ReplaySize + 1, Len(log))
Recent == IF Len(log) <= ReplaySize THEN log ELSE Replay

\* connect: the handshake is answered.
Accept(s) ==
  /\ link[s] = "asked" /\ handler[s] = "none"
  /\ link' = [link EXCEPT ![s] = "open"]
  /\ handler' = [handler EXCEPT ![s] = "accepted"]
  /\ UNCHANGED <<server, todo, sent, read, since, socket, list>>

\* Then the client is added and the replay copied.  As a bug: it is copied
\* before the handshake is answered.
MutRegister(s) ==
  \/ /\ link[s] = "asked" /\ handler[s] = "none" /\ todo[s] = <<>>
     /\ todo' = [todo EXCEPT ![s] = Recent] /\ since' = [since EXCEPT ![s] = Len(log)]
     /\ UNCHANGED <<server, link, handler, sent, read, socket, list>>
  \/ /\ handler[s] = "accepted"
     /\ handler' = [handler EXCEPT ![s] = "serving"]
     /\ clients' = clients \cup {s}
     /\ UNCHANGED <<scene, rows, log, cast, link, todo, sent, read, since, socket, list>>
Register(s) ==
  /\ handler[s] = "accepted"
  /\ handler' = [handler EXCEPT ![s] = "serving"]
  /\ clients' = clients \cup {s}
  /\ todo' = [todo EXCEPT ![s] = Recent] /\ since' = [since EXCEPT ![s] = Len(log)]
  /\ UNCHANGED <<scene, rows, log, cast, link, sent, read, socket, list>>

\* One message of the replay; the replay ends with the first that fails.
SendReplay(s) ==
  /\ handler[s] = "serving" /\ todo[s] # <<>>
  /\ \/ /\ link[s] = "open"
        /\ sent' = [sent EXCEPT ![s] = Append(@, Head(todo[s]))]
        /\ todo' = [todo EXCEPT ![s] = Tail(@)]
     \/ /\ link[s] = "down"
        /\ \E rest \in {Tail(todo[s]), <<>>} : todo' = [todo EXCEPT ![s] = rest]
        /\ UNCHANGED sent
  /\ UNCHANGED <<server, link, handler, read, since, socket, list>>

\* The replay is over and receive_text raises: the endpoint's finally forgets the
\* client.  (connect is outside that try, but what a send raises ends its replay
\* only; nothing but the end of the server, and with it of the notifier, cancels
\* the task there.)  As a bug: the client is left to the next broadcast.
MutHandlerEnds(s) ==
  /\ handler[s] = "serving" /\ todo[s] = <<>> /\ link[s] = "down"
  /\ handler' = [handler EXCEPT ![s] = "ended"]
  /\ UNCHANGED <<server, link, todo, sent, read, since, socket, list>>
HandlerEnds(s) ==
  /\ handler[s] = "serving" /\ todo[s] = <<>> /\ link[s] = "down"
  /\ handler' = [handler EXCEPT ![s] = "ended"]
  /\ clients' = clients \ {s}
  /\ UNCHANGED <<scene, rows, log, cast, link, todo, sent, read, since, socket, list>>

--------------------------------------------------------------------------------
(***************************************************************************)
(* LandingSocket                                                           *)
(***************************************************************************)
Unused == {s \in Sockets : link[s] = "none"}

\* connect(), at first or from the retry timer.
Connect ==
  /\ timer /\ Unused # {}
  /\ timer' = FALSE
  /\ \E s \in Unused : /\ \A r \in Unused : s <= r
                       /\ ws' = s /\ link' = [link EXCEPT ![s] = "asked"]
  /\ UNCHANGED <<server, handler, todo, sent, read, since, left, list>>

\* The connection is refused or lost, while there is another one to try.
Break(s) ==
  /\ link[s] \in {"asked", "open"} /\ Unused # {}
  /\ link' = [link EXCEPT ![s] = "down"]
  /\ UNCHANGED <<server, handler, todo, sent, read, since, socket, list>>

\* onclose: what was on its way is gone.
OnClose ==
  /\ ws # None /\ link[ws] = "down"
  /\ ws' = None /\ timer' = TRUE
  /\ UNCHANGED <<server, channel, left, list>>

\* close(), when the dashboard goes away.
Leave ==
  /\ scene.leaves /\ ~left
  /\ left' = TRUE /\ timer' = FALSE /\ ws' = None
  /\ link' = [s \in Sockets |-> IF s = ws THEN "down" ELSE link[s]]
  /\ UNCHANGED <<server, handler, todo, sent, read, since, list>>

--------------------------------------------------------------------------------
(***************************************************************************)
(* The list                                                                *)
(***************************************************************************)
Shared == {i \in Ids : rows[i].by # Importer}
NewestFirst ==
  {order \in [1 .. Cardinality(Shared) -> Shared] :
     \A a, b \in DOMAIN order : a < b => order[a] > order[b]}
Item(i) == [id |-> i, status |-> rows[i].status]
Shown(m) == IF data = None THEN {} ELSE {i \in DOMAIN data.items : data.items[i].id = m.id}

\* useLandings: a request supersedes the one under way.
Ask ==
  /\ ~left /\ fetch.n < scene.requests
  /\ fetch' = [at |-> "asked", n |-> fetch.n + 1]
  /\ UNCHANGED <<server, channel, socket, offset, data, unseen, answer>>

\* list_landings reads the page, newest first, and how many rows there are.
ReadPage ==
  /\ fetch.at = "asked"
  /\ \E newest \in NewestFirst :
       LET rest == Len(newest) - offset
           size == IF PageSize <= rest THEN PageSize ELSE rest
       IN  fetch' = [at |-> "answered", n |-> fetch.n,
                     list |-> [total |-> Len(newest),
                               items |-> [p \in 1 .. size |-> Item(newest[offset + p])]]]
  /\ UNCHANGED <<server, channel, socket, offset, data, unseen, answer>>
TakeOver ==
  /\ fetch.at = "answered" /\ ~left
  /\ data' = fetch.list /\ answer' = fetch.list /\ unseen' = 0
  /\ fetch' = [at |-> "none", n |-> fetch.n]
  /\ UNCHANGED <<server, channel, socket, offset>>
FetchFails ==
  /\ fetch.at # "none"
  /\ fetch' = [at |-> "none", n |-> fetch.n]
  /\ UNCHANGED <<server, channel, socket, offset, data, unseen, answer>>

\* countsAsUnseen.  As a bug: a replayed landing is counted as well.
MutIsNews(m) == m.type = "landing" /\ rows[m.id].by # Importer
IsNews(m) == m.type = "landing" /\ rows[m.id].by # Importer /\ Shown(m) = {}

\* applyLandingMessage: a row on display takes over what the message says, a
\* new one goes on top of page one, and is only counted further down.
Applied(m) ==
  [items |-> IF Shown(m) # {}
             THEN [i \in DOMAIN data.items |->
                     IF i \in Shown(m) THEN [id |-> m.id, status |-> m.status] ELSE data.items[i]]
             ELSE IF m.type = "landing" /\ offset = 0
             THEN <<[id |-> m.id, status |-> m.status]>> \o data.items
             ELSE data.items,
   total |-> IF Shown(m) = {} /\ m.type = "landing" THEN data.total + 1 ELSE data.total]

\* onmessage: anything but a landing of the shared history is ignored.
Receive ==
  /\ ws # None /\ read[ws] < Len(sent[ws])
  /\ LET m == sent[ws][read[ws] + 1]
         ignored == data = None \/ m.type = "import" \/ rows[m.id].by = Importer
     IN  IF ignored THEN UNCHANGED <<data, unseen>>
         ELSE data' = Applied(m) /\ unseen' = IF IsNews(m) THEN unseen + 1 ELSE unseen
  /\ read' = [read EXCEPT ![ws] = @ + 1]
  /\ UNCHANGED <<server, link, handler, todo, sent, since, socket, fetch, offset, answer>>

--------------------------------------------------------------------------------
Init ==
  /\ scene \in Scenes
  /\ rows = <<>> /\ log = <<>> /\ clients = {}
  /\ cast = [src \in Sources |-> Silent]
  /\ link = [s \in Sockets |-> "none"] /\ handler = [s \in Sockets |-> "none"]
  /\ todo = [s \in Sockets |-> <<>>] /\ sent = [s \in Sockets |-> <<>>]
  /\ read = [s \in Sockets |-> 0] /\ since = [s \in Sockets |-> 0]
  /\ ws = None /\ timer = TRUE /\ left = FALSE
  /\ fetch = [at |-> "none", n |-> 0] /\ offset \in Offsets
  /\ data = None /\ unseen = 0 /\ answer = None

Serve(s) == Accept(s) \/ Register(s) \/ SendReplay(s) \/ HandlerEnds(s)
Browse == Connect \/ OnClose
Next ==
  \/ \E src \in Sources, status \in {"provisional", "final"} : Store(src, status)
  \/ \E id \in Ids : Finalize(id)
  \/ NotifyJob
  \/ \E src \in Sources : Announce(src) \/ \E s \in Sockets : Send(src, s)
  \/ \E s \in Sockets : Serve(s) \/ Break(s)
  \/ Browse \/ Leave \/ Receive
  \/ Ask \/ ReadPage \/ TakeOver \/ FetchFails

\* The tasks of the server go on, and so do the browser's events and timers.
Fairness ==
  /\ \A s \in Sockets : WF_vars(Serve(s))
  /\ \A src \in Sources, s \in Sockets : WF_vars(Send(src, s))
  /\ WF_vars(Browse)
Spec == Init /\ [][Next]_vars /\ Fairness

--------------------------------------------------------------------------------
(* A connection misses nothing and repeats nothing, however broadcasts of  *)
(* several pipelines cross its registration and its replay: everything     *)
(* broadcast since it was registered, and the last messages before, has    *)
(* been sent on it or is being sent, once, and to an older connection that *)
(* died nothing is owed (connect "so clients that connect right after an   *)
(* event still receive it").                                               *)
Underway(s) == [src \in Sources |-> cast[src].at = "sending" /\ s \in cast[src].todo]
NothingMissed ==
  \A s \in clients :
    LET Owed == {log[i] : i \in {j \in DOMAIN log : j > since[s] - ReplaySize}}
        Coming == ToSet(todo[s]) \cup {cast[src].msg : src \in {w \in Sources : Underway(s)[w]}}
    IN  /\ link[s] = "open" => Owed \subseteq ToSet(sent[s]) \cup Coming
        /\ IsInjective(sent[s]) /\ ToSet(sent[s]) \cap Coming = {}

(* The badge and the pager tell the same story: whatever is replayed after *)
(* a lost connection, and however answers and messages cross, the total is *)
(* that of the last answer and the badge, and on page one the badge is the *)
(* number of rows shown that the answer did not have (countsAsUnseen: "it  *)
(* can never claim news the reducer discarded").                           *)
UnseenIsNews ==
  data # None =>
    LET Known == {answer.items[i].id : i \in DOMAIN answer.items}
    IN  /\ data.total = answer.total + unseen
        /\ offset = 0 => unseen = Cardinality({i \in DOMAIN data.items : data.items[i].id \notin Known})
        /\ \A i, j \in DOMAIN data.items : data.items[i].id = data.items[j].id => i = j

(* When connections stop breaking the dashboard is connected for good, and *)
(* the notifier knows no other client; after it has gone it knows none     *)
(* (dead clients are dropped by their task or by a failed send).           *)
Reconnects ==
  <>[](/\ clients = {ws} \ {None}
       /\ left \/ (ws # None /\ link[ws] = "open"))

(* A confirmation is not undone on display: the row of a final landing     *)
(* does not go back to provisional.                                        *)
ConfirmedStays ==
  [][data # None /\ data' # None =>
       \A i \in DOMAIN data.items, j \in DOMAIN data'.items :
         data.items[i].id = data'.items[j].id /\ data.items[i].status = "final"
         => data'.items[j].status = "final"]_vars

(* On pages further down a replayed landing is not news either.            *)
ReplayIsNotNews == data # None /\ fetch.at = "none" => data.total <= Cardinality(Shared)
=============================================================================
