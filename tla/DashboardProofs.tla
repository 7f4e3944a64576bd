---------------------------- MODULE DashboardProofs ----------------------------
(***************************************************************************)
(* The dashboard for any number of pipelines, messages and connections.    *)
(*                                                                         *)
(* A connection misses and repeats nothing because no two broadcasts say   *)
(* the same (MessageInv), and because its place in the log divides what it *)
(* is owed: its replay holds messages up to `since', a broadcast on its    *)
(* way to it a later one (ClientInv).  The badge agrees with the list      *)
(* because the list only grows by what it did not show (ListInv).          *)
(***************************************************************************)
EXTENDS Dashboard, SequenceTheorems, FiniteSetTheorems, TLAPS

Statuses == {"provisional", "final"}
Rows == [status : Statuses, by : Sources]
Message == [type : {"landing", "landing_update", "import"}, id : Nat, status : Statuses]
Announcement == [at : {"announce"}, msg : Message]
Sending == [at : {"sending"}, msg : Message, todo : SUBSET Sockets, stale : SUBSET Sockets]
Items == [id : Nat, status : Statuses]
Lists == [total : Nat, items : Seq(Items)]

ServerType ==
  /\ rows \in Seq(Rows)
  /\ log \in Seq(Message)
  /\ cast \in [Sources -> {Silent} \cup Announcement \cup Sending]
  /\ clients \in SUBSET Sockets
ChannelType ==
  /\ link \in [Sockets -> {"none", "asked", "open", "down"}]
  /\ handler \in [Sockets -> {"none", "accepted", "serving", "ended"}]
  /\ todo \in [Sockets -> Seq(Message)]
  /\ sent \in [Sockets -> Seq(Message)]
  /\ read \in [Sockets -> Nat]
  /\ since \in [Sockets -> Nat]
SocketType ==
  /\ ws \in Sockets \cup {None}
  /\ timer \in BOOLEAN /\ left \in BOOLEAN
ListType ==
  /\ fetch.at \in {"none", "asked", "answered"}
  /\ offset \in Offsets
  /\ data = None \/ data \in Lists
  /\ unseen \in Nat
TypeOK == ServerType /\ ChannelType /\ SocketType /\ ListType

\* What has a message to broadcast; none is broadcast twice.
Active(src) == cast[src].at # "idle"
Announced(src) == cast[src].at = "announce"
Truthful(m) ==
  /\ m.type \in {"landing", "landing_update"} => m.id \in Ids
  /\ m.type = "landing_update" => rows[m.id].status = "final"
MessageInv ==
  /\ \A i \in DOMAIN log : Truthful(log[i]) /\ (log[i].type = "import" => log[i].id <= Notices)
  /\ \A src \in Sources : Announced(src) =>
       /\ Truthful(cast[src].msg)
       /\ cast[src].msg.type = "import" => src = Importer /\ cast[src].msg.id = Notices + 1
       /\ cast[src].msg \notin ToSet(log)
  /\ \A src \in Sources : cast[src].at = "sending" => cast[src].msg \in ToSet(log)
  /\ \A src, w \in Sources : src # w /\ Active(src) /\ Active(w) => cast[src].msg # cast[w].msg
  /\ IsInjective(log)

\* What a client is owed, what is on its way to it, and where in the log.
Owed(s) == {log[i] : i \in {j \in DOMAIN log : j > since[s] - ReplaySize}}
UnderwayTo(s) == {src \in Sources : cast[src].at = "sending" /\ s \in cast[src].todo}
Coming(s) == ToSet(todo[s]) \cup {cast[src].msg : src \in UnderwayTo(s)}
Places(s) ==
  /\ since[s] <= Len(log)
  /\ \A k \in DOMAIN todo[s] : \E i \in DOMAIN log : i <= since[s] /\ todo[s][k] = log[i]
  /\ \A src \in UnderwayTo(s) : \E i \in DOMAIN log : i > since[s] /\ cast[src].msg = log[i]
  /\ ToSet(sent[s]) \subseteq ToSet(log)
Once(s) ==
  /\ IsInjective(todo[s]) /\ IsInjective(sent[s])
  /\ ToSet(sent[s]) \cap Coming(s) = {}
ClientInv(s) ==
  /\ Places(s) /\ Once(s)
  /\ link[s] = "open" => Owed(s) \subseteq ToSet(sent[s]) \cup Coming(s)
SocketInv(s) ==
  /\ handler[s] \in {"none", "accepted"} => sent[s] = <<>> /\ UnderwayTo(s) = {}
  /\ s \in clients => handler[s] = "serving" /\ ClientInv(s)

\* The list shows what the answer had and what has come since.
Distinct(l) == \A i, j \in DOMAIN l.items : l.items[i].id = l.items[j].id => i = j
IdsOf(l) == {l.items[i].id : i \in DOMAIN l.items}
News == {i \in DOMAIN data.items : data.items[i].id \notin IdsOf(answer)}
ListInv ==
  /\ fetch.at = "answered" => fetch.list \in Lists /\ Distinct(fetch.list)
  /\ data # None =>
       /\ answer \in Lists /\ Distinct(data) /\ IdsOf(answer) \subseteq IdsOf(data)
       /\ data.total = answer.total + unseen
       /\ offset = 0 => unseen = Cardinality(News)

\* The inductive invariant.
IInv == TypeOK /\ MessageInv /\ (\A s \in Sockets : SocketInv(s)) /\ ListInv

--------------------------------------------------------------------------------
(* Sequences that grow at their end or lose their head.                    *)

LEMMA Appending ==
  ASSUME NEW S, NEW seq \in Seq(S), NEW x \in S
  PROVE  /\ Append(seq, x) \in Seq(S) /\ Len(Append(seq, x)) = Len(seq) + 1
         /\ DOMAIN Append(seq, x) = DOMAIN seq \cup {Len(seq) + 1}
         /\ DOMAIN seq = 1 .. Len(seq) /\ Len(seq) \in Nat /\ Len(seq) + 1 \notin DOMAIN seq
         /\ \A i \in DOMAIN seq : Append(seq, x)[i] = seq[i]
         /\ Append(seq, x)[Len(seq) + 1] = x
         /\ ToSet(Append(seq, x)) = ToSet(seq) \cup {x}
         /\ IsInjective(seq) /\ x \notin ToSet(seq) => IsInjective(Append(seq, x))
<1> DEFINE longer == Append(seq, x)  n == Len(seq) + 1
<1>1. /\ longer \in Seq(S) /\ Len(longer) = n
      /\ DOMAIN longer = DOMAIN seq \cup {n} /\ DOMAIN seq = 1 .. Len(seq)
      /\ Len(seq) \in Nat /\ n \notin DOMAIN seq
      /\ \A i \in DOMAIN seq : longer[i] = seq[i]
      /\ longer[n] = x
  OBVIOUS
<1> HIDE DEF longer, n
<1>2. ToSet(longer) = ToSet(seq) \cup {x}
  BY <1>1 DEF ToSet
<1>3. IsInjective(seq) /\ x \notin ToSet(seq) => IsInjective(longer)
  BY <1>1 DEF ToSet, IsInjective
<1> QED
  BY <1>1, <1>2, <1>3 DEF longer, n

LEMMA Shrinking ==
  ASSUME NEW S, NEW seq \in Seq(S), seq # <<>>
  PROVE  /\ Head(seq) \in S /\ Tail(seq) \in Seq(S) /\ Head(seq) \in ToSet(seq)
         /\ \A k \in DOMAIN Tail(seq) : k + 1 \in DOMAIN seq /\ Tail(seq)[k] = seq[k + 1]
         /\ ToSet(seq) = ToSet(Tail(seq)) \cup {Head(seq)}
         /\ 1 \in DOMAIN seq /\ Head(seq) = seq[1]
         /\ IsInjective(seq) => IsInjective(Tail(seq)) /\ Head(seq) \notin ToSet(Tail(seq))
<1> DEFINE t == Tail(seq)  n == Len(seq)
<1>1. /\ n \in Nat \ {0} /\ DOMAIN seq = 1 .. n
      /\ t \in Seq(S) /\ Len(t) = n - 1 /\ DOMAIN t = 1 .. (n - 1)
      /\ \A k \in 1 .. (n - 1) : t[k] = seq[k + 1]
      /\ Head(seq) = seq[1] /\ seq[1] \in S
  OBVIOUS
<1> HIDE DEF t, n
<1>2. \A k \in DOMAIN t : k + 1 \in DOMAIN seq /\ t[k] = seq[k + 1] /\ k + 1 # 1 /\ k \in Int
  BY <1>1
<1>3. \A k \in DOMAIN seq : k = 1 \/ (k - 1 \in DOMAIN t /\ t[k - 1] = seq[k])
  BY <1>1
<1>4. 1 \in DOMAIN seq
  BY <1>1
<1>5. ToSet(seq) = ToSet(t) \cup {seq[1]}
  <2>1. ASSUME NEW k \in DOMAIN seq PROVE seq[k] \in ToSet(t) \cup {seq[1]}
    BY <1>3 DEF ToSet
  <2>2. ASSUME NEW k \in DOMAIN t PROVE t[k] \in ToSet(seq)
    BY <1>2 DEF ToSet
  <2>3. seq[1] \in ToSet(seq)
    BY <1>4 DEF ToSet
  <2> QED
    BY <2>1, <2>2, <2>3 DEF ToSet
<1>6. IsInjective(seq) => IsInjective(t) /\ seq[1] \notin ToSet(t)
  BY <1>2, <1>4 DEF IsInjective, ToSet
<1> QED
  BY <1>1, <1>2, <1>4, <1>5, <1>6 DEF t

LEMMA Nothing ==
  /\ <<>> \in Seq(Message) /\ ToSet(<<>>) = {} /\ IsInjective(<<>>) /\ DOMAIN <<>> = {}
  BY DEF ToSet, IsInjective

\* The replay is the end of the log.
LEMMA RecentIsTheEnd ==
  ASSUME log \in Seq(Message), IsInjective(log)
  PROVE  /\ Recent \in Seq(Message) /\ IsInjective(Recent)
         /\ \A k \in DOMAIN Recent : \E i \in DOMAIN log : Recent[k] = log[i]
         /\ \A i \in DOMAIN log : i > Len(log) - ReplaySize => log[i] \in ToSet(Recent)
<1>1. CASE Len(log) <= ReplaySize
  BY <1>1 DEF Recent, ToSet
<1>2. CASE ~(Len(log) <= ReplaySize)
  <2> DEFINE n == Len(log) - ReplaySize  r == SubSeq(log, n + 1, Len(log))
  <2>1. n \in Nat /\ n + ReplaySize = Len(log) /\ ReplaySize \in Nat /\ Len(log) \in Nat
    BY <1>2, DashboardAssumption
  <2>2. /\ r \in Seq(Message) /\ DOMAIN r = 1 .. ReplaySize
        /\ \A k \in 1 .. ReplaySize : n + k \in DOMAIN log /\ r[k] = log[n + k]
    BY <2>1
  <2> HIDE DEF r
  <2>3. \A i \in DOMAIN log : i > n => i - n \in 1 .. ReplaySize /\ i = n + (i - n)
    BY <2>1
  <2>4. \A i \in DOMAIN log : i > n => log[i] \in ToSet(r)
    BY <2>2, <2>3 DEF ToSet
  <2>5. IsInjective(r)
    <3> SUFFICES ASSUME NEW a \in 1 .. ReplaySize, NEW b \in 1 .. ReplaySize, r[a] = r[b]
                 PROVE  a = b
      BY <2>2 DEF IsInjective
    <3>1. n + a = n + b
      BY <2>2 DEF IsInjective
    <3> QED
      BY <2>1, <3>1
  <2> QED
    BY <1>2, <2>1, <2>2, <2>4, <2>5 DEF Recent, Replay, r
<1> QED
  BY <1>1, <1>2

--------------------------------------------------------------------------------
(* What is broadcast.                                                      *)

LEMMA ImporterIsSource == Importer \in Sources
  BY DEF Sources

\* Every message there is tells the truth, and imports are numbered.
LEMMA ActiveMessages ==
  ASSUME ServerType, MessageInv
  PROVE  /\ \A i \in DOMAIN log : log[i] \in Message
         /\ \A w \in Sources : Active(w) =>
              /\ cast[w].msg \in Message /\ Truthful(cast[w].msg)
              /\ w # Importer /\ cast[w].msg.type = "import" => cast[w].msg.id <= Notices
<1>1. \A i \in DOMAIN log : log[i] \in Message
  BY DEF ServerType
<1>2. ASSUME NEW w \in Sources, Active(w)
      PROVE  cast[w].at \in {"announce", "sending"} /\ cast[w].msg \in Message
  <2>1. cast[w] \in {Silent} \cup Announcement \cup Sending /\ cast[w] # Silent
    BY <1>2 DEF Active, ServerType, Silent
  <2> QED
    BY <2>1 DEF Announcement, Sending
<1>3. ASSUME NEW w \in Sources, cast[w].at = "sending"
      PROVE  /\ Truthful(cast[w].msg)
             /\ w # Importer /\ cast[w].msg.type = "import" => cast[w].msg.id <= Notices
  BY <1>3 DEF MessageInv, ToSet
<1>4. ASSUME NEW w \in Sources, Announced(w)
      PROVE  /\ Truthful(cast[w].msg)
             /\ w # Importer /\ cast[w].msg.type = "import" => cast[w].msg.id <= Notices
  BY <1>4 DEF MessageInv
<1> QED
  BY <1>1, <1>2, <1>3, <1>4 DEF Announced

LEMMA RowTypes ==
  ASSUME ServerType
  PROVE  \A i \in Ids : rows[i] \in Rows /\ rows[i].status \in Statuses /\ rows[i].by \in Sources
<1>1. \A i \in Ids : rows[i] \in Rows
  BY DEF ServerType, Ids
<1> QED
  BY <1>1 DEF Rows

\* Rows are added and settled.
RowsGrow ==
  /\ Len(rows') >= Len(rows) /\ rows' \in Seq(Rows)
  /\ \A i \in Ids : rows[i].status = "final" => rows'[i].status = "final"

LEMMA StillTruthful ==
  ASSUME ServerType, RowsGrow, NEW m \in Message, Truthful(m)
  PROVE  Truthful(m)'
<1>1. Len(rows) \in Nat /\ Len(rows') \in Nat
  BY DEF ServerType, RowsGrow
<1> QED
  BY <1>1 DEF RowsGrow, Truthful, Ids, Message

\* A pipeline with nothing on its hands takes up a message of its own.
LEMMA Announces ==
  ASSUME ServerType, MessageInv, RowsGrow, UNCHANGED <<log, clients>>,
         NEW src \in Sources, cast[src].at = "idle",
         NEW m \in Message, cast' = [cast EXCEPT ![src] = [at |-> "announce", msg |-> m]],
         Truthful(m)', m.type = "import" => src = Importer /\ m.id = Notices + 1,
         m \notin ToSet(log), \A w \in Sources \ {src} : Active(w) => cast[w].msg # m
  PROVE  ServerType' /\ MessageInv'
<1>1. /\ cast'[src] = [at |-> "announce", msg |-> m]
      /\ \A w \in Sources \ {src} : cast'[w] = cast[w]
  BY DEF ServerType
<1>2. ServerType'
  BY DEF ServerType, RowsGrow, Announcement
<1>3. Notices' = Notices
  BY DEF Notices
<1>4. \A i \in DOMAIN log : Truthful(log[i])'
  BY ActiveMessages, StillTruthful DEF MessageInv, Truthful
<1>5. \A w \in Sources \ {src} : Active(w) => Truthful(cast[w].msg)'
  BY <1>1, ActiveMessages, StillTruthful DEF Truthful
<1>6. \A i \in DOMAIN log' : Truthful(log[i])' /\ (log'[i].type = "import" => log'[i].id <= Notices')
  BY <1>3, <1>4 DEF MessageInv, Truthful
<1>7. ASSUME NEW w \in Sources, Announced(w)'
      PROVE  /\ Truthful(cast[w].msg)'
             /\ cast'[w].msg.type = "import" => w = Importer /\ cast'[w].msg.id = Notices' + 1
             /\ cast'[w].msg \notin ToSet(log')
  <2>1. CASE w = src
    BY <1>1, <1>3, <2>1 DEF Truthful
  <2>2. CASE w # src
    BY <1>1, <1>3, <1>5, <1>7, <2>2 DEF MessageInv, Announced, Active
  <2> QED
    BY <2>1, <2>2
<1>8. ASSUME NEW w \in Sources, cast'[w].at = "sending"
      PROVE  cast'[w].msg \in ToSet(log')
  BY <1>1, <1>8 DEF MessageInv
<1>9. ASSUME NEW v \in Sources, NEW w \in Sources, v # w, Active(v)', Active(w)'
      PROVE  cast'[v].msg # cast'[w].msg
  BY <1>1, <1>9 DEF MessageInv, Active
<1>10. IsInjective(log')
  BY DEF MessageInv
<1>11. MessageInv'
  BY <1>6, <1>7, <1>8, <1>9, <1>10 DEF MessageInv
<1> QED
  BY <1>2, <1>11

LEMMA StoreMessage ==
  ASSUME ServerType, MessageInv, NEW src \in Sources, NEW status \in Statuses, Store(src, status)
  PROVE  ServerType' /\ MessageInv'
<1>1. PICK m : m = [type |-> "landing", id |-> Len(rows) + 1, status |-> status]
  OBVIOUS
<1>2. Len(rows) \in Nat /\ rows \in Seq(Rows)
  BY DEF ServerType
<1>3. m \in Message /\ m.type = "landing" /\ m.id = Len(rows) + 1 /\ m.id \notin Ids
  BY <1>1, <1>2 DEF Message, Ids
<1>4. /\ rows' = Append(rows, [status |-> status, by |-> src]) /\ UNCHANGED <<log, clients>>
      /\ cast[src].at = "idle" /\ cast' = [cast EXCEPT ![src] = [at |-> "announce", msg |-> m]]
  BY <1>1 DEF Store, MayCast, About
<1>5. RowsGrow /\ m.id \in Ids'
  <2>1. [status |-> status, by |-> src] \in Rows
    BY DEF Rows
  <2>2. /\ Len(rows') = Len(rows) + 1 /\ rows' \in Seq(Rows)
        /\ \A i \in Ids : rows'[i] = rows[i]
    BY <1>2, <1>4, <2>1 DEF Ids
  <2> QED
    BY <1>2, <1>3, <2>2 DEF RowsGrow, Ids
<1>6. Truthful(m)'
  BY <1>3, <1>5 DEF Truthful
<1>7. m \notin ToSet(log)
  BY <1>3, ActiveMessages DEF MessageInv, Truthful, ToSet
<1>8. \A w \in Sources \ {src} : Active(w) => cast[w].msg # m
  BY <1>3, ActiveMessages DEF Truthful
<1> QED
  BY <1>3, <1>4, <1>5, <1>6, <1>7, <1>8, Announces

LEMMA FinalizeMessage ==
  ASSUME ServerType, MessageInv, NEW id \in Ids, Finalize(id)
  PROVE  ServerType' /\ MessageInv'
<1>1. PICK m : m = [type |-> "landing_update", id |-> id, status |-> "final"]
  OBVIOUS
<1>2. PICK src \in Sources : src = rows[id].by
  BY RowTypes
<1>3. /\ rows[id].status = "provisional" /\ rows' = [rows EXCEPT ![id].status = "final"]
      /\ cast[src].at = "idle" /\ UNCHANGED <<log, clients>>
      /\ cast' = [cast EXCEPT ![src] = [at |-> "announce", msg |-> m]]
  BY <1>1, <1>2 DEF Finalize, MayCast, About
<1>4. m \in Message /\ m.type = "landing_update" /\ m.id = id
  BY <1>1 DEF Message, Ids, Statuses
<1>5. RowsGrow /\ Ids' = Ids /\ rows'[id].status = "final"
  <2>1. [rows[id] EXCEPT !.status = "final"] \in Rows
    BY RowTypes DEF Rows, Statuses
  <2>2. /\ rows' \in Seq(Rows) /\ Len(rows') = Len(rows)
        /\ rows'[id].status = "final" /\ \A i \in Ids \ {id} : rows'[i] = rows[i]
    BY <1>3, <2>1, RowTypes DEF ServerType, Ids, Rows
  <2>3. Len(rows) \in Nat
    BY DEF ServerType
  <2> QED
    BY <2>2, <2>3 DEF RowsGrow, Ids
<1>6. Truthful(m)'
  BY <1>4, <1>5 DEF Truthful
<1>7. ~Truthful(m)
  BY <1>3, <1>4 DEF Truthful
<1>8. m \notin ToSet(log)
  BY <1>7 DEF MessageInv, ToSet
<1>9. \A w \in Sources \ {src} : Active(w) => cast[w].msg # m
  BY <1>7, ActiveMessages
<1> QED
  BY <1>3, <1>4, <1>5, <1>6, <1>8, <1>9, Announces

LEMMA NoticesType ==
  ASSUME ServerType
  PROVE  Notices \in Nat /\ IsFiniteSet({i \in DOMAIN log : log[i].type = "import"})
<1>1. DOMAIN log = 1 .. Len(log) /\ Len(log) \in Nat
  BY DEF ServerType
<1>2. IsFiniteSet(DOMAIN log)
  BY <1>1, FS_Interval
<1>3. {i \in DOMAIN log : log[i].type = "import"} \subseteq DOMAIN log
  OBVIOUS
<1> QED
  BY <1>2, <1>3, FS_Subset, FS_CardinalityType DEF Notices

LEMMA NotifyMessage ==
  ASSUME ServerType, MessageInv, NotifyJob
  PROVE  ServerType' /\ MessageInv'
<1>1. PICK m : m = [type |-> "import", id |-> Notices + 1, status |-> "final"]
  OBVIOUS
<1>2. /\ cast[Importer].at = "idle" /\ UNCHANGED <<rows, log, clients>>
      /\ cast' = [cast EXCEPT ![Importer] = [at |-> "announce", msg |-> m]]
  BY <1>1 DEF NotifyJob, MayCast, About
<1>3. m \in Message /\ m.type = "import" /\ m.id = Notices + 1 /\ ~(m.id <= Notices)
  BY <1>1, NoticesType DEF Message, Statuses
<1>4. RowsGrow
  BY <1>2 DEF RowsGrow, ServerType, Ids
<1>5. Truthful(m)'
  BY <1>3 DEF Truthful
<1>6. m \notin ToSet(log)
  BY <1>3 DEF MessageInv, ToSet
<1>7. \A w \in Sources \ {Importer} : Active(w) => cast[w].msg # m
  BY <1>3, ActiveMessages
<1> QED
  BY <1>2, <1>3, <1>4, <1>5, <1>6, <1>7, ImporterIsSource, Announces

\* The announced message enters the log.
LEMMA AnnounceMessage ==
  ASSUME ServerType, MessageInv, NEW src \in Sources, Announce(src)
  PROVE  ServerType' /\ MessageInv'
<1> DEFINE m == cast[src].msg  n == Len(log) + 1
<1>1. /\ Announced(src) /\ Active(src) /\ log' = Append(log, m) /\ UNCHANGED <<rows, clients>>
      /\ cast' = [cast EXCEPT ![src] =
                    IF clients = {} THEN Silent
                    ELSE [at |-> "sending", msg |-> @.msg, todo |-> clients, stale |-> {}]]
  BY DEF Announce, Announced, Active
<1>2. /\ cast'[src] = IF clients = {} THEN Silent
                      ELSE [at |-> "sending", msg |-> m, todo |-> clients, stale |-> {}]
      /\ \A w \in Sources \ {src} : cast'[w] = cast[w]
  BY <1>1 DEF ServerType
<1>3. /\ m \in Message /\ Truthful(m) /\ m \notin ToSet(log)
      /\ m.type = "import" => src = Importer /\ m.id = Notices + 1
  BY <1>1, ActiveMessages DEF MessageInv
<1>4. /\ log' \in Seq(Message) /\ DOMAIN log' = DOMAIN log \cup {n} /\ n \notin DOMAIN log
      /\ \A i \in DOMAIN log : log'[i] = log[i]
      /\ log'[n] = m /\ ToSet(log') = ToSet(log) \cup {m}
      /\ IsInjective(log')
  BY <1>1, <1>3, Appending DEF ServerType, MessageInv
<1>5. ServerType'
  BY <1>1, <1>2, <1>3, <1>4 DEF ServerType, Sending
<1> HIDE DEF m, n
<1>6. Notices' = IF m.type = "import" THEN Notices + 1 ELSE Notices
  <2> DEFINE I == {i \in DOMAIN log : log[i].type = "import"}
             J == {i \in DOMAIN log' : log'[i].type = "import"}
  <2>1. J = IF m.type = "import" THEN I \cup {n} ELSE I
    BY <1>4
  <2>2. IsFiniteSet(I) /\ n \notin I
    BY <1>4, NoticesType
  <2>3. Notices = Cardinality(I) /\ Notices' = Cardinality(J)
    BY DEF Notices
  <2> HIDE DEF I, J
  <2> QED
    BY <2>1, <2>2, <2>3, FS_AddElement
<1>7. Notices \in Nat
  BY NoticesType
<1>8. \A x : Truthful(x)' <=> Truthful(x)
  BY <1>1 DEF Truthful, Ids
<1>9. ASSUME NEW i \in DOMAIN log'
      PROVE  Truthful(log[i])' /\ (log'[i].type = "import" => log'[i].id <= Notices')
  <2>1. CASE i = n
    <3>1. log'[i] = m
      BY <1>4, <2>1
    <3>2. Truthful(log[i])'
      BY <1>1, <1>3, <3>1 DEF Truthful, Ids
    <3> QED
      BY <1>3, <1>6, <1>7, <3>1, <3>2
  <2>2. CASE i \in DOMAIN log
    <3>1. log[i] \in Message
      BY <2>2, ActiveMessages
    <3> QED
      BY <1>1, <1>4, <1>6, <1>7, <2>2, <3>1 DEF MessageInv, Truthful, Ids, Message
  <2> QED
    BY <1>4, <2>1, <2>2
<1>10. ASSUME NEW w \in Sources, Announced(w)'
       PROVE  /\ w # src /\ cast'[w] = cast[w] /\ Announced(w) /\ Active(w)
  BY <1>2, <1>10 DEF Announced, Active, Silent
<1>11. ASSUME NEW w \in Sources, Announced(w)'
       PROVE  /\ Truthful(cast[w].msg)'
              /\ cast'[w].msg.type = "import" => w = Importer /\ cast'[w].msg.id = Notices' + 1
              /\ cast'[w].msg \notin ToSet(log')
  <2>1. /\ Truthful(cast[w].msg) /\ cast[w].msg \notin ToSet(log) /\ cast[w].msg # m
        /\ cast[w].msg.type = "import" => w = Importer /\ cast[w].msg.id = Notices + 1
    BY <1>1, <1>10, <1>11 DEF MessageInv, m
  <2> QED
    BY <1>1, <1>3, <1>4, <1>6, <1>10, <1>11, <2>1 DEF Truthful, Ids
<1>12. \A w \in Sources : cast'[w].at = "sending" => cast'[w].msg \in ToSet(log')
  BY <1>2, <1>4 DEF MessageInv, Silent
<1>13. \A v, w \in Sources : v # w /\ Active(v)' /\ Active(w)' => cast'[v].msg # cast'[w].msg
  BY <1>1, <1>2 DEF MessageInv, Active, Silent, m
<1>14. MessageInv'
  BY <1>4, <1>9, <1>11, <1>12, <1>13 DEF MessageInv
<1> QED
  BY <1>5, <1>14

LEMMA SendMessage ==
  ASSUME ServerType, MessageInv, NEW src \in Sources, NEW s \in Sockets, Send(src, s)
  PROVE  /\ ServerType' /\ MessageInv' /\ clients' \subseteq clients
         /\ UnderwayTo(s)' = UnderwayTo(s) \ {src}
         /\ \A u \in Sockets \ {s} : UnderwayTo(u)' = UnderwayTo(u)
         /\ \A w \in Sources : cast'[w].at = "sending" => cast'[w].msg = cast[w].msg
<1> DEFINE rest == cast[src].todo \ {s}
<1>1. /\ cast[src].at = "sending" /\ s \in cast[src].todo /\ UNCHANGED <<rows, log>>
      /\ cast[src] \in Sending
  BY DEF Send, ServerType, Silent, Announcement, Sending
<1>2. PICK stale \in SUBSET Sockets : Sent(src, rest, stale)
  BY <1>1 DEF Send, Sending
<1>3. clients' \subseteq clients /\ clients' \in SUBSET Sockets
  BY <1>2 DEF Sent, ServerType
<1>4. \A w \in Sources \ {src} : cast'[w] = cast[w]
  BY <1>2 DEF Sent, ServerType
<1>5. /\ cast' = [w \in Sources |-> cast'[w]]
      /\ IF rest = {} THEN cast'[src] = Silent
         ELSE /\ cast'[src] \in Sending /\ cast'[src].msg = cast[src].msg
              /\ cast'[src].at = "sending" /\ cast'[src].todo = rest
  <2>1. CASE rest = {}
    BY <1>2, <2>1 DEF Sent, ServerType
  <2>2. CASE rest # {}
    <3>1. [cast[src] EXCEPT !.todo = rest, !.stale = stale] \in Sending
      BY <1>1 DEF Sending
    <3> QED
      BY <1>1, <1>2, <2>2, <3>1 DEF Sent, ServerType, Sending
  <2> QED
    BY <2>1, <2>2
<1>6. ServerType'
  <2>1. \A w \in Sources : cast'[w] \in {Silent} \cup Announcement \cup Sending
    BY <1>4, <1>5 DEF ServerType
  <2> QED
    BY <1>1, <1>3, <1>5, <2>1 DEF ServerType
<1>7. /\ \A w \in Sources : cast'[w].at = "sending" => cast'[w].msg = cast[w].msg /\ cast[w].at = "sending"
      /\ \A w \in Sources : Announced(w)' => cast'[w] = cast[w]
      /\ \A w \in Sources : Active(w)' => cast'[w].msg = cast[w].msg /\ Active(w)
  BY <1>1, <1>4, <1>5 DEF Announced, Active, Silent
<1>8. MessageInv'
  <2>1. Notices' = Notices /\ \A m : Truthful(m)' <=> Truthful(m)
    BY <1>1 DEF Notices, Truthful, Ids
  <2>2. \A i \in DOMAIN log' : Truthful(log[i])' /\ (log'[i].type = "import" => log'[i].id <= Notices')
    BY <1>1, <2>1 DEF MessageInv, Truthful, Ids
  <2>3. ASSUME NEW w \in Sources, Announced(w)'
        PROVE  /\ Truthful(cast[w].msg)'
               /\ cast'[w].msg.type = "import" => w = Importer /\ cast'[w].msg.id = Notices' + 1
               /\ cast'[w].msg \notin ToSet(log')
    <3>1. cast'[w] = cast[w] /\ Announced(w)
      BY <1>7, <2>3 DEF Announced
    <3> QED
      BY <1>1, <2>1, <3>1 DEF MessageInv, Truthful, Ids
  <2>4. \A w \in Sources : cast'[w].at = "sending" => cast'[w].msg \in ToSet(log')
    BY <1>1, <1>7 DEF MessageInv
  <2>5. \A v, w \in Sources : v # w /\ Active(v)' /\ Active(w)' => cast'[v].msg # cast'[w].msg
    BY <1>7 DEF MessageInv
  <2> QED
    BY <1>1, <2>2, <2>3, <2>4, <2>5 DEF MessageInv
<1>9. UnderwayTo(s)' = UnderwayTo(s) \ {src}
  BY <1>4, <1>5 DEF UnderwayTo, Silent
<1>10. \A u \in Sockets \ {s} : UnderwayTo(u)' = UnderwayTo(u)
  BY <1>1, <1>4, <1>5 DEF UnderwayTo, Silent
<1> QED
  BY <1>3, <1>6, <1>7, <1>8, <1>9, <1>10

--------------------------------------------------------------------------------
(* What reaches a client.                                                  *)

\* A step that takes nothing from a connection and brings it nothing.
LEMMA SocketStill ==
  ASSUME NEW s \in Sockets, SocketInv(s), log' = log,
         todo'[s] = todo[s], sent'[s] = sent[s], since'[s] = since[s], handler'[s] = handler[s],
         UnderwayTo(s)' = UnderwayTo(s), \A src \in UnderwayTo(s) : cast'[src].msg = cast[src].msg,
         link'[s] = "open" => link[s] = "open", s \in clients' => s \in clients
  PROVE  SocketInv(s)'
<1>1. Coming(s)' = Coming(s) /\ Owed(s)' = Owed(s)
  BY DEF Coming, Owed
<1>2. Places(s) => Places(s)'
  BY DEF Places
<1>3. Once(s) => Once(s)'
  BY <1>1 DEF Once
<1> QED
  BY <1>1, <1>2, <1>3 DEF SocketInv, ClientInv

LEMMA AllStill ==
  ASSUME \A s \in Sockets : SocketInv(s),
         UNCHANGED <<log, cast, clients, link, handler, todo, sent, since>>
  PROVE  \A s \in Sockets : SocketInv(s)'
  BY SocketStill DEF UnderwayTo

\* A pipeline takes up a message: nothing is on its way yet.
LEMMA TakesUp ==
  ASSUME ServerType, \A s \in Sockets : SocketInv(s),
         UNCHANGED <<log, clients, link, handler, todo, sent, since>>,
         NEW src \in Sources, NEW m, cast[src].at = "idle",
         cast' = [cast EXCEPT ![src] = [at |-> "announce", msg |-> m]]
  PROVE  \A s \in Sockets : SocketInv(s)'
<1> SUFFICES ASSUME NEW s \in Sockets PROVE SocketInv(s)'
  OBVIOUS
<1>1. cast'[src].at = "announce" /\ \A w \in Sources \ {src} : cast'[w] = cast[w]
  BY DEF ServerType
<1>2. UnderwayTo(s)' = UnderwayTo(s)
  BY <1>1 DEF UnderwayTo
<1>3. \A w \in UnderwayTo(s) : cast'[w].msg = cast[w].msg
  BY <1>1 DEF UnderwayTo
<1> QED
  BY <1>2, <1>3, SocketStill

\* A message enters the log, on its way to every client there is.
LEMMA AnnounceSockets ==
  ASSUME ServerType, ChannelType, MessageInv, \A s \in Sockets : SocketInv(s),
         NEW src \in Sources, Announce(src)
  PROVE  \A s \in Sockets : SocketInv(s)'
<1> DEFINE m == cast[src].msg  n == Len(log) + 1
<1>1. /\ Announced(src) /\ log' = Append(log, m)
      /\ UNCHANGED <<clients, link, handler, todo, sent, since>>
      /\ cast' = [cast EXCEPT ![src] =
                    IF clients = {} THEN Silent
                    ELSE [at |-> "sending", msg |-> @.msg, todo |-> clients, stale |-> {}]]
  BY DEF Announce, Announced, channel
<1>2. /\ cast'[src] = IF clients = {} THEN Silent
                      ELSE [at |-> "sending", msg |-> m, todo |-> clients, stale |-> {}]
      /\ \A w \in Sources \ {src} : cast'[w] = cast[w]
  BY <1>1 DEF ServerType
<1>3. m \in Message /\ m \notin ToSet(log)
  BY <1>1, ActiveMessages DEF MessageInv, Announced, Active
<1>4. /\ DOMAIN log' = DOMAIN log \cup {n} /\ n \notin DOMAIN log /\ Len(log') = n
      /\ \A i \in DOMAIN log : log'[i] = log[i]
      /\ log'[n] = m /\ ToSet(log') = ToSet(log) \cup {m} /\ Len(log) \in Nat
  BY <1>1, <1>3, Appending DEF ServerType
<1> SUFFICES ASSUME NEW s \in Sockets PROVE SocketInv(s)'
  OBVIOUS
<1>5. src \notin UnderwayTo(s) /\ \A w \in UnderwayTo(s) : cast'[w] = cast[w]
  BY <1>1, <1>2 DEF UnderwayTo, Announced
<1>6. UnderwayTo(s)' = IF s \in clients THEN UnderwayTo(s) \cup {src} ELSE UnderwayTo(s)
  BY <1>1, <1>2 DEF UnderwayTo, Silent, Announced
<1>7. CASE s \notin clients
  BY <1>1, <1>6, <1>7 DEF SocketInv
<1>8. CASE s \in clients
  <2>1. handler[s] = "serving" /\ Places(s) /\ Once(s) /\ since[s] \in Nat
        /\ (link[s] = "open" => Owed(s) \subseteq ToSet(sent[s]) \cup Coming(s))
    BY <1>8 DEF SocketInv, ClientInv, ChannelType
  <2>2. cast'[src].msg = m
    BY <1>2, <1>8
  <2> HIDE DEF m, n
  <2>3. Coming(s)' = Coming(s) \cup {m}
    <3>1. {cast'[w].msg : w \in UnderwayTo(s)'} = {cast[w].msg : w \in UnderwayTo(s)} \cup {m}
      BY <1>5, <1>6, <1>8, <2>2
    <3> QED
      BY <1>1, <3>1 DEF Coming
  <2>4. Owed(s)' \subseteq Owed(s) \cup {m}
    BY <1>1, <1>4 DEF Owed
  <2>5. Places(s)'
    <3>1. since'[s] <= Len(log') /\ since[s] < n
      BY <1>1, <1>4, <2>1 DEF Places, n
    <3>2. \A k \in DOMAIN todo'[s] : \E i \in DOMAIN log' : i <= since'[s] /\ todo'[s][k] = log'[i]
      BY <1>1, <1>4, <2>1 DEF Places
    <3>3. \A w \in UnderwayTo(s) : \E i \in DOMAIN log' : i > since[s] /\ cast'[w].msg = log'[i]
      BY <1>4, <1>5, <2>1 DEF Places
    <3>4. \E i \in DOMAIN log' : i > since[s] /\ cast'[src].msg = log'[i]
      BY <1>4, <2>1, <2>2, <3>1 DEF n
    <3>5. ToSet(sent'[s]) \subseteq ToSet(log')
      BY <1>1, <1>4, <2>1 DEF Places
    <3> QED
      BY <1>1, <1>6, <1>8, <3>1, <3>2, <3>3, <3>4, <3>5 DEF Places
  <2>6. Once(s)'
    <3>1. m \notin ToSet(sent[s])
      BY <1>3, <2>1 DEF Places, m
    <3> QED
      BY <1>1, <2>1, <2>3, <3>1 DEF Once
  <2>7. link'[s] = "open" => Owed(s)' \subseteq ToSet(sent'[s]) \cup Coming(s)'
    BY <1>1, <2>1, <2>3, <2>4
  <2> QED
    BY <1>1, <2>1, <2>5, <2>6, <2>7 DEF SocketInv, ClientInv
<1> QED
  BY <1>7, <1>8

\* What is owed to a client is owed once: replay and broadcasts lie apart.
LEMMA Apart ==
  ASSUME ServerType, MessageInv, NEW s \in Sockets, Places(s), since[s] \in Nat,
         NEW src \in UnderwayTo(s)
  PROVE  /\ cast[src].msg \notin ToSet(todo[s])
         /\ \A w \in UnderwayTo(s) \ {src} : cast[w].msg # cast[src].msg
<1>1. PICK i \in DOMAIN log : i > since[s] /\ cast[src].msg = log[i]
  BY DEF Places
<1>2. ASSUME NEW k \in DOMAIN todo[s], todo[s][k] = cast[src].msg
      PROVE  FALSE
  <2>1. PICK j \in DOMAIN log : j <= since[s] /\ todo[s][k] = log[j]
    BY DEF Places
  <2>2. i = j
    BY <1>1, <1>2, <2>1 DEF MessageInv, IsInjective
  <2>3. i \in Int
    BY DEF ServerType
  <2> QED
    BY <1>1, <2>1, <2>2, <2>3
<1>3. cast[src].msg \notin ToSet(todo[s])
  BY <1>2 DEF ToSet
<1>4. \A w \in UnderwayTo(s) \ {src} : cast[w].msg # cast[src].msg
  BY DEF MessageInv, UnderwayTo, Active
<1> QED
  BY <1>3, <1>4

LEMMA SendSockets ==
  ASSUME ServerType, ChannelType, MessageInv, \A u \in Sockets : SocketInv(u),
         NEW src \in Sources, NEW s \in Sockets, Send(src, s)
  PROVE  \A u \in Sockets : SocketInv(u)'
<1> DEFINE m == cast[src].msg
<1>1. /\ clients' \subseteq clients /\ src \in UnderwayTo(s)
      /\ UnderwayTo(s)' = UnderwayTo(s) \ {src}
      /\ \A u \in Sockets \ {s} : UnderwayTo(u)' = UnderwayTo(u)
      /\ \A u \in Sockets : \A w \in UnderwayTo(u)' : cast'[w].msg = cast[w].msg
  BY SendMessage DEF Send, UnderwayTo
<1>2. UNCHANGED <<log, link, handler, todo, since>>
  BY DEF Send
<1>3. /\ link[s] = "open" => sent' = [sent EXCEPT ![s] = Append(@, m)]
      /\ link[s] # "open" => sent' = sent
  BY DEF Send
<1>4. \A u \in Sockets \ {s} : SocketInv(u)'
  <2> SUFFICES ASSUME NEW u \in Sockets \ {s} PROVE SocketInv(u)'
    OBVIOUS
  <2>1. sent'[u] = sent[u]
    BY <1>3 DEF ChannelType
  <2> QED
    BY <1>1, <1>2, <2>1, SocketStill
<1>5. handler[s] \notin {"none", "accepted"}
  BY <1>1 DEF SocketInv
<1>6. ASSUME s \in clients'
      PROVE  ClientInv(s)'
  <2>1. /\ Places(s) /\ Once(s) /\ since[s] \in Nat /\ sent[s] \in Seq(Message)
        /\ (link[s] = "open" => Owed(s) \subseteq ToSet(sent[s]) \cup Coming(s))
    BY <1>1, <1>6 DEF SocketInv, ClientInv, ChannelType
  <2>2. /\ m \in Message /\ m \in ToSet(log) /\ m \in Coming(s)
    BY <1>1, ActiveMessages DEF MessageInv, UnderwayTo, Active, Coming
  <2>3. m \notin ToSet(todo[s]) /\ \A w \in UnderwayTo(s) \ {src} : cast[w].msg # m
    BY <1>1, <2>1, Apart
  <2> HIDE DEF m
  <2>4. Coming(s) = Coming(s)' \cup {m} /\ m \notin Coming(s)'
    <3>1. {cast'[w].msg : w \in UnderwayTo(s)'} = {cast[w].msg : w \in UnderwayTo(s) \ {src}}
      BY <1>1
    <3>2. {cast[w].msg : w \in UnderwayTo(s)} = {cast[w].msg : w \in UnderwayTo(s) \ {src}} \cup {m}
      BY <1>1 DEF m
    <3> QED
      BY <1>2, <2>3, <3>1, <3>2 DEF Coming
  <2>5. Owed(s)' = Owed(s)
    BY <1>2 DEF Owed
  <2>6. CASE link[s] = "open"
    <3>1. sent'[s] = Append(sent[s], m)
      BY <1>3, <2>6 DEF ChannelType
    <3>2. m \notin ToSet(sent[s])
      BY <2>1, <2>2 DEF Once
    <3>3. ToSet(sent'[s]) = ToSet(sent[s]) \cup {m} /\ IsInjective(sent'[s])
      BY <2>1, <2>2, <3>1, <3>2, Appending DEF Once
    <3>4. Places(s)'
      BY <1>1, <1>2, <2>1, <2>2, <3>3 DEF Places
    <3>5. Once(s)'
      BY <1>2, <2>1, <2>4, <3>2, <3>3 DEF Once
    <3> QED
      BY <2>1, <2>4, <2>5, <2>6, <3>3, <3>4, <3>5 DEF ClientInv
  <2>7. CASE link[s] # "open"
    <3>1. Places(s)'
      BY <1>1, <1>2, <1>3, <2>1, <2>7 DEF Places
    <3>2. Once(s)'
      BY <1>2, <1>3, <2>1, <2>4, <2>7 DEF Once
    <3> QED
      BY <1>2, <2>7, <3>1, <3>2 DEF ClientInv
  <2> QED
    BY <2>6, <2>7
<1>7. SocketInv(s)'
  BY <1>1, <1>2, <1>5, <1>6 DEF SocketInv
<1> QED
  BY <1>4, <1>7

\* A connection becomes a client, and is owed the end of the log.
LEMMA RegisterSockets ==
  ASSUME ServerType, ChannelType, MessageInv, \A u \in Sockets : SocketInv(u),
         NEW s \in Sockets, Register(s)
  PROVE  (\A u \in Sockets : SocketInv(u)') /\ ServerType' /\ ChannelType' /\ MessageInv'
<1>1. /\ handler[s] = "accepted" /\ handler' = [handler EXCEPT ![s] = "serving"]
      /\ clients' = clients \cup {s} /\ todo' = [todo EXCEPT ![s] = Recent]
      /\ since' = [since EXCEPT ![s] = Len(log)]
      /\ UNCHANGED <<rows, log, cast, link, sent, read>>
  BY DEF Register
<1>2. /\ Recent \in Seq(Message) /\ IsInjective(Recent)
      /\ \A k \in DOMAIN Recent : \E i \in DOMAIN log : Recent[k] = log[i]
      /\ \A i \in DOMAIN log : i > Len(log) - ReplaySize => log[i] \in ToSet(Recent)
  BY RecentIsTheEnd DEF ServerType, MessageInv
<1>3. /\ todo'[s] = Recent /\ since'[s] = Len(log) /\ handler'[s] = "serving"
      /\ \A u \in Sockets \ {s} : /\ todo'[u] = todo[u] /\ since'[u] = since[u]
                                  /\ handler'[u] = handler[u]
  BY <1>1 DEF ChannelType
<1>4. \A u \in Sockets : UnderwayTo(u)' = UnderwayTo(u)
  BY <1>1 DEF UnderwayTo
<1>5. \A u \in Sockets \ {s} : SocketInv(u)'
  BY <1>1, <1>3, <1>4, SocketStill
<1>6. sent'[s] = <<>> /\ UnderwayTo(s)' = {}
  BY <1>1, <1>4 DEF SocketInv
<1>7. ToSet(sent'[s]) = {} /\ IsInjective(sent'[s])
  BY <1>6, Nothing
<1>8. Places(s)'
  <2>1. \A i \in DOMAIN log : i <= Len(log)
    BY DEF ServerType
  <2>2. Len(log) \in Nat
    BY DEF ServerType
  <2> HIDE DEF Recent
  <2> QED
    BY <1>1, <1>2, <1>3, <1>6, <1>7, <2>1, <2>2 DEF Places
<1>9. Once(s)'
  BY <1>2, <1>3, <1>7 DEF Once
<1>10. Owed(s)' \subseteq Coming(s)'
  BY <1>1, <1>2, <1>3 DEF Owed, Coming
<1>11. SocketInv(s)'
  BY <1>3, <1>8, <1>9, <1>10 DEF SocketInv, ClientInv
<1>12. ServerType' /\ ChannelType'
  BY <1>1, <1>2 DEF ServerType, ChannelType
<1>13. MessageInv'
  BY <1>1 DEF MessageInv, Truthful, Announced, Active, Notices, Ids
<1> QED
  BY <1>5, <1>11, <1>12, <1>13

\* One message of the replay is sent, or the replay breaks off.
LEMMA ReplaySockets ==
  ASSUME ServerType, ChannelType, MessageInv, \A u \in Sockets : SocketInv(u),
         NEW s \in Sockets, SendReplay(s)
  PROVE  (\A u \in Sockets : SocketInv(u)') /\ ChannelType'
<1> DEFINE m == Head(todo[s])
<1>1. /\ handler[s] = "serving" /\ todo[s] # <<>>
      /\ UNCHANGED <<rows, log, cast, clients, link, handler, read, since>>
  BY DEF SendReplay, server
<1>2. /\ todo[s] \in Seq(Message) /\ sent[s] \in Seq(Message)
      /\ m \in Message /\ Tail(todo[s]) \in Seq(Message) /\ m \in ToSet(todo[s])
      /\ \A k \in DOMAIN Tail(todo[s]) : k + 1 \in DOMAIN todo[s] /\ Tail(todo[s])[k] = todo[s][k + 1]
      /\ ToSet(todo[s]) = ToSet(Tail(todo[s])) \cup {m}
      /\ IsInjective(todo[s]) => IsInjective(Tail(todo[s])) /\ m \notin ToSet(Tail(todo[s]))
  BY <1>1, Shrinking DEF ChannelType
<1> HIDE DEF m
<1>3. PICK rest \in {Tail(todo[s]), <<>>} :
        /\ todo' = [todo EXCEPT ![s] = rest]
        /\ \/ link[s] = "open" /\ sent' = [sent EXCEPT ![s] = Append(@, m)] /\ rest = Tail(todo[s])
           \/ link[s] # "open" /\ sent' = sent
  BY DEF SendReplay, m
<1>4. todo'[s] = rest /\ \A u \in Sockets \ {s} : todo'[u] = todo[u] /\ sent'[u] = sent[u]
  BY <1>3 DEF ChannelType
<1>5. \A u \in Sockets : UnderwayTo(u)' = UnderwayTo(u)
  BY <1>1 DEF UnderwayTo
<1>6. \A u \in Sockets \ {s} : SocketInv(u)'
  BY <1>1, <1>4, <1>5, SocketStill
<1>7. rest \in Seq(Message) /\ ToSet(rest) \subseteq ToSet(todo[s])
  BY <1>2, <1>3, Nothing
<1>8. ChannelType'
  <2>1. Append(sent[s], m) \in Seq(Message)
    BY <1>2
  <2> QED
    BY <1>1, <1>3, <1>7, <2>1 DEF ChannelType
<1>9. ASSUME s \in clients
      PROVE  ClientInv(s)'
  <2>1. /\ Places(s) /\ Once(s) /\ since[s] \in Nat
        /\ (link[s] = "open" => Owed(s) \subseteq ToSet(sent[s]) \cup Coming(s))
    BY <1>9 DEF SocketInv, ClientInv, ChannelType
  <2>2. Owed(s)' = Owed(s)
    BY <1>1 DEF Owed
  <2>3. \A k \in DOMAIN rest : \E i \in DOMAIN log : i <= since[s] /\ rest[k] = log[i]
    BY <1>2, <1>3, <2>1, Nothing DEF Places
  <2>4. m \in ToSet(log)
    BY <1>2, <2>1 DEF Places, ToSet
  <2>5. IsInjective(rest) /\ m \notin ToSet(rest)
    BY <1>2, <1>3, <2>1, Nothing DEF Once
  <2>6. m \notin ToSet(sent[s])
    BY <1>2, <2>1 DEF Once, Coming
  <2>7. \A w \in UnderwayTo(s) : cast[w].msg # m
    BY <1>2, <2>1, Apart
  <2>8. Coming(s)' \subseteq Coming(s) /\ m \notin Coming(s)'
    BY <1>1, <1>4, <1>5, <1>7, <2>5, <2>7 DEF Coming
  <2>9. CASE link[s] = "open"
    <3>1. sent'[s] = Append(sent[s], m) /\ rest = Tail(todo[s])
      BY <1>3, <2>9 DEF ChannelType
    <3>2. ToSet(sent'[s]) = ToSet(sent[s]) \cup {m} /\ IsInjective(sent'[s])
      BY <1>2, <2>1, <2>6, <3>1, Appending DEF Once
    <3>3. Places(s)'
      BY <1>1, <1>4, <1>5, <2>1, <2>3, <2>4, <3>2 DEF Places
    <3>4. Once(s)'
      BY <1>4, <2>1, <2>5, <2>6, <2>8, <3>2 DEF Once
    <3>5. Coming(s) \subseteq Coming(s)' \cup {m}
      BY <1>1, <1>2, <1>4, <1>5, <3>1 DEF Coming
    <3> QED
      BY <2>1, <2>2, <2>9, <3>2, <3>3, <3>4, <3>5 DEF ClientInv
  <2>10. CASE link[s] # "open"
    <3>1. sent'[s] = sent[s]
      BY <1>3, <2>10
    <3>2. Places(s)'
      BY <1>1, <1>4, <1>5, <2>1, <2>3, <3>1 DEF Places
    <3>3. Once(s)'
      BY <1>4, <2>1, <2>5, <2>8, <3>1 DEF Once
    <3> QED
      BY <1>1, <2>10, <3>2, <3>3 DEF ClientInv
  <2> QED
    BY <2>9, <2>10
<1>10. SocketInv(s)'
  BY <1>1, <1>9 DEF SocketInv
<1> QED
  BY <1>6, <1>8, <1>10

\* Connections come and go; none opens that is a client already.
LEMMA LinkSockets ==
  ASSUME ServerType, ChannelType, \A u \in Sockets : SocketInv(u),
         UNCHANGED <<log, cast, todo, sent, since>>, clients' \subseteq clients,
         \A u \in Sockets :
           \/ handler'[u] = handler[u] /\ (link'[u] = "open" => link[u] = "open")
           \/ handler[u] = "none" /\ handler'[u] = "accepted"
           \/ u \notin clients' /\ handler'[u] = "ended"
  PROVE  \A u \in Sockets : SocketInv(u)'
<1> SUFFICES ASSUME NEW u \in Sockets PROVE SocketInv(u)'
  OBVIOUS
<1>1. UnderwayTo(u)' = UnderwayTo(u)
  BY DEF UnderwayTo
<1>2. CASE handler'[u] = handler[u] /\ (link'[u] = "open" => link[u] = "open")
  BY <1>1, <1>2, SocketStill
<1>3. CASE handler[u] = "none" /\ handler'[u] = "accepted"
  BY <1>1, <1>3 DEF SocketInv
<1>4. CASE u \notin clients' /\ handler'[u] = "ended"
  BY <1>4 DEF SocketInv
<1> QED
  BY <1>2, <1>3, <1>4

--------------------------------------------------------------------------------
(* Every step keeps the server's part of the invariant.                    *)

ServerInv ==
  /\ ServerType /\ ChannelType /\ SocketType
  /\ MessageInv /\ \A s \in Sockets : SocketInv(s)

LEMMA MessageStill ==
  ASSUME ServerType, MessageInv, UNCHANGED <<rows, log, cast>>, clients' \in SUBSET Sockets
  PROVE  ServerType' /\ MessageInv'
  BY DEF ServerType, MessageInv, Truthful, Announced, Active, Notices, Ids

LEMMA Writing ==
  ASSUME ServerInv, UNCHANGED <<channel, socket>>, UNCHANGED <<log, clients>>,
         ServerType' /\ MessageInv',
         NEW src \in Sources, NEW m, cast[src].at = "idle",
         cast' = [cast EXCEPT ![src] = [at |-> "announce", msg |-> m]]
  PROVE  ServerInv'
  BY TakesUp DEF ServerInv, ChannelType, SocketType, channel, socket

LEMMA StoreServer ==
  ASSUME ServerInv, NEW src \in Sources, NEW status \in Statuses, Store(src, status)
  PROVE  ServerInv'
  BY StoreMessage, Writing DEF ServerInv, Store, MayCast, About

LEMMA FinalizeServer ==
  ASSUME ServerInv, NEW id \in Ids, Finalize(id)
  PROVE  ServerInv'
<1>1. PICK src \in Sources : src = rows[id].by
  BY RowTypes DEF ServerInv
<1>2. PICK m : m = [type |-> "landing_update", id |-> id, status |-> "final"]
  OBVIOUS
<1>3. /\ cast[src].at = "idle" /\ cast' = [cast EXCEPT ![src] = [at |-> "announce", msg |-> m]]
      /\ UNCHANGED <<channel, socket>> /\ UNCHANGED <<log, clients>>
  BY <1>1, <1>2 DEF Finalize, MayCast, About
<1>4. ServerType' /\ MessageInv'
  BY FinalizeMessage DEF ServerInv
<1> QED
  BY <1>3, <1>4, Writing

LEMMA NotifyServer ==
  ASSUME ServerInv, NotifyJob
  PROVE  ServerInv'
  BY NotifyMessage, ImporterIsSource, Writing DEF ServerInv, NotifyJob, MayCast, About

LEMMA AnnounceServer ==
  ASSUME ServerInv, NEW src \in Sources, Announce(src)
  PROVE  ServerInv'
<1>1. ServerType' /\ MessageInv' /\ \A s \in Sockets : SocketInv(s)'
  BY AnnounceMessage, AnnounceSockets DEF ServerInv
<1> QED
  BY <1>1 DEF ServerInv, ChannelType, SocketType, channel, socket, Announce

LEMMA SendServer ==
  ASSUME ServerInv, NEW src \in Sources, NEW s \in Sockets, Send(src, s)
  PROVE  ServerInv'
<1>1. ServerType' /\ MessageInv' /\ \A u \in Sockets : SocketInv(u)'
  BY SendMessage, SendSockets DEF ServerInv
<1>2. cast[src].msg \in Message
  BY ActiveMessages DEF ServerInv, Send, Active
<1>3. sent' \in [Sockets -> Seq(Message)]
  <2>1. Append(sent[s], cast[src].msg) \in Seq(Message)
    BY <1>2 DEF ServerInv, ChannelType
  <2> QED
    BY <2>1 DEF ServerInv, ChannelType, Send
<1> QED
  BY <1>1, <1>3 DEF ServerInv, ChannelType, SocketType, socket, Send

LEMMA ServeServer ==
  ASSUME ServerInv, NEW s \in Sockets, Serve(s)
  PROVE  ServerInv'
<1>1. CASE Accept(s)
  <2>1. /\ handler[s] = "none" /\ UNCHANGED <<rows, log, cast, clients, todo, sent, since>>
        /\ ChannelType' /\ handler'[s] = "accepted"
        /\ \A u \in Sockets \ {s} : handler'[u] = handler[u] /\ link'[u] = link[u]
    BY <1>1 DEF Accept, server, ServerInv, ChannelType
  <2> QED
    BY <1>1, <2>1, LinkSockets, MessageStill DEF ServerInv, ServerType, SocketType, socket, Accept
<1>2. CASE Register(s)
  BY <1>2, RegisterSockets DEF ServerInv, SocketType, socket, Register
<1>3. CASE SendReplay(s)
  BY <1>3, ReplaySockets, MessageStill DEF ServerInv, ServerType, SocketType, socket, server, SendReplay
<1>4. CASE HandlerEnds(s)
  <2>1. /\ UNCHANGED <<rows, log, cast, todo, sent, since, link>> /\ clients' = clients \ {s}
        /\ ChannelType' /\ handler'[s] = "ended"
        /\ \A u \in Sockets \ {s} : handler'[u] = handler[u]
    BY <1>4 DEF HandlerEnds, ServerInv, ChannelType
  <2> QED
    BY <1>4, <2>1, LinkSockets, MessageStill DEF ServerInv, ServerType, SocketType, socket, HandlerEnds
<1> QED
  BY <1>1, <1>2, <1>3, <1>4 DEF Serve

LEMMA LinkServer ==
  ASSUME ServerInv, UNCHANGED <<rows, log, cast, clients, handler, todo, sent, since>>,
         ChannelType', SocketType', \A u \in Sockets : link'[u] = "open" => link[u] = "open"
  PROVE  ServerInv'
  BY LinkSockets, MessageStill DEF ServerInv, ServerType

LEMMA BrowserServer ==
  ASSUME ServerInv, (\E s \in Sockets : Break(s)) \/ Browse \/ Leave
  PROVE  ServerInv'
<1>1. ASSUME NEW s \in Sockets, Break(s) PROVE ServerInv'
  BY <1>1, LinkServer DEF Break, ServerInv, ChannelType, SocketType, server, socket
<1>2. CASE Connect
  <2>1. PICK s \in Sockets : ws' = s /\ link' = [link EXCEPT ![s] = "asked"]
    BY <1>2 DEF Connect, Unused
  <2>2. ChannelType' /\ SocketType' /\ \A u \in Sockets : link'[u] = "open" => link[u] = "open"
    BY <1>2, <2>1 DEF Connect, ServerInv, ChannelType, SocketType
  <2> QED
    BY <1>2, <2>2, LinkServer DEF Connect, server
<1>3. CASE OnClose
  BY <1>3, LinkServer DEF OnClose, ServerInv, ChannelType, SocketType, server, channel
<1>4. CASE Leave
  BY <1>4, LinkServer DEF Leave, ServerInv, ChannelType, SocketType, server
<1> QED
  BY <1>1, <1>2, <1>3, <1>4 DEF Browse

--------------------------------------------------------------------------------
(* Every step keeps the list's part.                                       *)

LEMMA ListStill ==
  ASSUME ListType, ListInv, UNCHANGED <<offset, data, unseen, answer>>,
         fetch'.at \in {"none", "asked", "answered"},
         fetch'.at = "answered" => fetch'.list \in Lists /\ Distinct(fetch'.list)
  PROVE  ListType' /\ ListInv'
<1>1. ListType'
  BY DEF ListType
<1>2. fetch'.at = "answered" => fetch'.list \in Lists /\ Distinct(fetch.list)'
  BY DEF Distinct
<1>3. /\ Distinct(data)' <=> Distinct(data)
      /\ IdsOf(answer)' = IdsOf(answer) /\ IdsOf(data)' = IdsOf(data)
      /\ News' = News
  BY DEF Distinct, IdsOf, News
<1>4. data' # None =>
        /\ answer' \in Lists /\ Distinct(data)' /\ IdsOf(answer)' \subseteq IdsOf(data)'
        /\ data'.total = answer'.total + unseen'
        /\ offset' = 0 => unseen' = Cardinality(News)'
  BY <1>3 DEF ListInv
<1> QED
  BY <1>1, <1>2, <1>4 DEF ListInv

LEMMA SharedFinite ==
  ASSUME ServerType
  PROVE  Cardinality(Shared) \in Nat /\ Shared \subseteq Ids
<1>1. Ids = 1 .. Len(rows) /\ Len(rows) \in Nat
  BY DEF ServerType, Ids
<1>2. IsFiniteSet(Ids)
  BY <1>1, FS_Interval
<1> QED
  BY <1>2, FS_Subset, FS_CardinalityType DEF Shared

LEMMA ReadPageList ==
  ASSUME ServerType, ListType, ListInv, ReadPage
  PROVE  ListType' /\ ListInv'
<1> DEFINE c == Cardinality(Shared)
<1>1. PICK newest \in NewestFirst :
        LET rest == Len(newest) - offset
            size == IF PageSize <= rest THEN PageSize ELSE rest
        IN  fetch' = [at |-> "answered", n |-> fetch.n,
                      list |-> [total |-> Len(newest),
                                items |-> [p \in 1 .. size |-> Item(newest[offset + p])]]]
  BY DEF ReadPage
<1>2. /\ c \in Nat /\ newest \in [1 .. c -> Shared] /\ Shared \subseteq Nat
      /\ \A a, b \in 1 .. c : a < b => newest[a] > newest[b]
      /\ \A i \in Shared : rows[i].status \in Statuses
  BY SharedFinite, RowTypes DEF NewestFirst, Ids
<1> HIDE DEF c
<1>3. Len(newest) = c
  BY <1>2
<1>4. offset \in Nat /\ PageSize \in Nat
  BY DashboardAssumption DEF ListType
<1> DEFINE rest == c - offset
           size == IF PageSize <= rest THEN PageSize ELSE rest
           items == [p \in 1 .. size |-> Item(newest[offset + p])]
<1>5. fetch' = [at |-> "answered", n |-> fetch.n, list |-> [total |-> c, items |-> items]]
  BY <1>1, <1>3
<1>6. size \in Int /\ size <= rest /\ rest \in Int
  BY <1>2, <1>4
<1>7. \A p \in 1 .. size : offset + p \in 1 .. c
  BY <1>2, <1>4, <1>6
<1> HIDE DEF size
<1>8. \A p \in 1 .. size : items[p] \in Items /\ items[p].id = newest[offset + p]
  BY <1>2, <1>7 DEF Item, Items
<1>9. items \in Seq(Items) /\ DOMAIN items = 1 .. size
  <2>1. CASE size \in Nat
    BY <1>8, <2>1
  <2>2. CASE size \notin Nat
    <3>1. 1 .. size = {} /\ 1 .. 0 = {} /\ 0 \in Nat
      BY <1>6, <2>2
    <3>2. items \in [1 .. 0 -> Items] /\ DOMAIN items = 1 .. size
      BY <3>1
    <3> HIDE DEF items
    <3> QED
      BY <3>1, <3>2, SeqDef
  <2> QED
    BY <2>1, <2>2
<1>10. \A p, q \in 1 .. size : items[p].id = items[q].id => p = q
  <2> SUFFICES ASSUME NEW p \in 1 .. size, NEW q \in 1 .. size, newest[offset + p] = newest[offset + q]
               PROVE  p = q
    BY <1>8
  <2>1. offset + p \in 1 .. c /\ offset + q \in 1 .. c
    BY <1>7
  <2>2. newest[offset + p] \in Nat /\ newest[offset + q] \in Nat
    BY <1>2, <2>1
  <2>3. ~(offset + p < offset + q) /\ ~(offset + q < offset + p)
    BY <1>2, <2>1, <2>2
  <2> QED
    BY <1>4, <1>6, <2>3
<1> HIDE DEF items
<1>11. fetch'.list \in Lists /\ Distinct(fetch'.list) /\ fetch'.at = "answered"
  BY <1>2, <1>5, <1>9, <1>10 DEF Lists, Distinct
<1> QED
  BY <1>11, ListStill DEF ReadPage

LEMMA TakeOverList ==
  ASSUME ListType, ListInv, TakeOver
  PROVE  ListType' /\ ListInv'
<1> DEFINE l == fetch.list
<1>1. /\ data' = l /\ answer' = l /\ unseen' = 0 /\ fetch'.at = "none" /\ offset' = offset
      /\ l \in Lists /\ Distinct(l)
  BY DEF TakeOver, ListInv
<1> HIDE DEF l
<1>2. ListType'
  BY <1>1 DEF ListType
<1>3. Distinct(data)' /\ IdsOf(answer)' = IdsOf(data)'
  BY <1>1 DEF Distinct, IdsOf
<1>4. data'.total = answer'.total + unseen'
  BY <1>1 DEF Lists
<1>5. News' = {}
  BY <1>1 DEF IdsOf, News
<1> QED
  BY <1>1, <1>2, <1>3, <1>4, <1>5, FS_EmptySet DEF ListInv

\* A row that goes on top of a list that does not show it.
\* The rows of a list with none of the known ids, the ids of its rows.
Fresh(items, known) == {i \in DOMAIN items : items[i].id \notin known}
Labels(items) == {items[i].id : i \in DOMAIN items}
NoTwoAlike(items) == \A i, j \in DOMAIN items : items[i].id = items[j].id => i = j

LEMMA OnTop ==
  ASSUME NEW l \in Lists, NEW x \in Items, Distinct(l), x.id \notin IdsOf(l),
         NEW known, x.id \notin known, NEW items, items = <<x>> \o l.items
  PROVE  /\ items \in Seq(Items) /\ NoTwoAlike(items)
         /\ Labels(items) = IdsOf(l) \cup {x.id}
         /\ Cardinality(Fresh(items, known)) = Cardinality(Fresh(l.items, known)) + 1
<1> DEFINE n == Len(l.items)
           Before == {i \in DOMAIN l.items : l.items[i].id \notin known}
           After == {i \in DOMAIN items : items[i].id \notin known}
           Moved == {i + 1 : i \in Before}
<1>1. l.items \in Seq(Items) /\ n \in Nat /\ DOMAIN l.items = 1 .. n
  BY DEF Lists
<1>2. /\ items \in Seq(Items) /\ DOMAIN items = 1 .. (n + 1) /\ items[1] = x
      /\ \A i \in 1 .. n : items[i + 1] = l.items[i]
  BY <1>1
<1> HIDE DEF n
<1>3. \A i \in 1 .. (n + 1) : i = 1 \/ (i - 1 \in 1 .. n /\ i = (i - 1) + 1)
  BY <1>1
<1>4. \A i \in 1 .. (n + 1) : i = 1 \/ (i - 1 \in 1 .. n /\ items[i] = l.items[i - 1])
  BY <1>2, <1>3
<1>5. \A i \in 1 .. n : l.items[i].id # x.id
  BY <1>1 DEF IdsOf
<1>6. \A i, j \in DOMAIN items : items[i].id = items[j].id => i = j
  <2> SUFFICES ASSUME NEW i \in 1 .. (n + 1), NEW j \in 1 .. (n + 1), items[i].id = items[j].id
               PROVE  i = j
    BY <1>2
  <2>1. CASE i = 1 \/ j = 1
    BY <1>2, <1>4, <1>5, <2>1
  <2>2. CASE i # 1 /\ j # 1
    <3>1. i - 1 \in 1 .. n /\ j - 1 \in 1 .. n /\ l.items[i - 1].id = l.items[j - 1].id
      BY <1>4, <2>2
    <3>2. i - 1 = j - 1
      BY <1>1, <3>1 DEF Distinct
    <3> QED
      BY <1>1, <3>2
  <2> QED
    BY <2>1, <2>2
<1>7. {items[i].id : i \in DOMAIN items} = IdsOf(l) \cup {x.id}
  <2>1. ASSUME NEW i \in DOMAIN items PROVE items[i].id \in IdsOf(l) \cup {x.id}
    BY <1>1, <1>2, <1>4 DEF IdsOf
  <2>2. ASSUME NEW i \in DOMAIN l.items PROVE i + 1 \in DOMAIN items /\ items[i + 1].id = l.items[i].id
    BY <1>1, <1>2
  <2>3. 1 \in DOMAIN items
    BY <1>1, <1>2
  <2>4. IdsOf(l) \subseteq {items[i].id : i \in DOMAIN items}
    BY <2>2 DEF IdsOf
  <2>5. x.id \in {items[i].id : i \in DOMAIN items}
    BY <1>2, <2>3
  <2> QED
    BY <2>1, <2>4, <2>5
<1>8. After = Moved \cup {1}
  <2>1. ASSUME NEW i \in After PROVE i \in Moved \cup {1}
    <3>1. CASE i # 1
      <4>1. i - 1 \in Before /\ i = (i - 1) + 1
        BY <1>1, <1>2, <1>3, <1>4, <3>1
      <4> QED
        BY <4>1
    <3> QED
      BY <3>1
  <2>2. ASSUME NEW i \in Before PROVE i + 1 \in After
    BY <1>1, <1>2
  <2>3. 1 \in After
    BY <1>1, <1>2
  <2> QED
    BY <2>1, <2>2, <2>3
<1>9. IsFiniteSet(Before) /\ Before \subseteq 1 .. n
  <2>1. IsFiniteSet(1 .. n)
    BY <1>1, FS_Interval
  <2> QED
    BY <1>1, <2>1, FS_Subset
<1>10. IsFiniteSet(Moved) /\ Cardinality(Moved) = Cardinality(Before) /\ 1 \notin Moved
  <2> DEFINE f == [i \in Before |-> i + 1]
  <2>1. f \in Bijection(Before, Moved)
    BY <1>1, <1>9 DEF Bijection, Injection, Surjection, IsInjective
  <2>2. 1 \notin Moved
    BY <1>1, <1>9
  <2> QED
    BY <1>9, <2>1, <2>2, FS_Bijection DEF ExistsBijection
<1>11. Cardinality(After) = Cardinality(Before) + 1
  <2> HIDE DEF After, Before, Moved
  <2> QED
    BY <1>8, <1>9, <1>10, FS_AddElement
<1> QED
  BY <1>2, <1>6, <1>7, <1>11 DEF Fresh, Labels, NoTwoAlike

LEMMA ReceiveList ==
  ASSUME ServerInv, ListType, ListInv, Receive
  PROVE  ListType' /\ ListInv'
<1>1. CASE UNCHANGED <<data, unseen>>
  BY <1>1, ListStill DEF Receive, ListType, ListInv
<1>2. CASE ~UNCHANGED <<data, unseen>>
  <2>1. ws \in Sockets /\ sent[ws] \in Seq(Message) /\ read[ws] \in Nat /\ read[ws] < Len(sent[ws])
    BY DEF ServerInv, SocketType, ChannelType, Receive
  <2>2. PICK m \in Message : m = sent[ws][read[ws] + 1]
    BY <2>1
  <2>3. /\ data # None /\ m.type \in {"landing", "landing_update"} /\ rows[m.id].by # Importer
        /\ data' = Applied(m) /\ unseen' = IF IsNews(m) THEN unseen + 1 ELSE unseen
        /\ UNCHANGED <<offset, answer, fetch>>
    BY <1>2, <2>2 DEF Receive, Message
  <2>4. /\ data \in Lists /\ unseen \in Nat /\ answer \in Lists /\ Distinct(data)
        /\ IdsOf(answer) \subseteq IdsOf(data) /\ data.total = answer.total + unseen
        /\ offset = 0 => unseen = Cardinality(News)
    BY <2>3 DEF ListType, ListInv
  <2>5. data.items \in Seq(Items) /\ data.total \in Nat /\ answer.total \in Nat
    BY <2>4 DEF Lists
  <2> DEFINE x == [id |-> m.id, status |-> m.status]
  <2>6. x \in Items /\ x.id = m.id
    BY DEF Items, Message
  <2>8. fetch'.at = "answered" => fetch'.list \in Lists /\ Distinct(fetch.list)'
    BY <2>3 DEF ListInv, Distinct
  <2>9. IdsOf(answer)' = IdsOf(answer)
    BY <2>3 DEF IdsOf
  <2>10. ASSUME /\ data'.items \in Seq(Items) /\ data' = [items |-> data'.items, total |-> data'.total]
                /\ data'.total \in Nat /\ unseen' \in Nat /\ data'.total = answer.total + unseen'
                /\ Distinct(data)' /\ IdsOf(data) \subseteq IdsOf(data)'
                /\ offset = 0 => unseen' = Cardinality(News')
         PROVE  ListType' /\ ListInv'
    <3>1. data' \in Lists
      BY <2>10 DEF Lists
    <3>2. ListType'
      BY <2>3, <2>10, <3>1 DEF ListType
    <3> QED
      BY <2>3, <2>4, <2>8, <2>9, <2>10, <3>2 DEF ListInv
  <2>11. CASE Shown(m) # {}
    <3>1. /\ unseen' = unseen /\ data'.total = data.total
          /\ data' = [items |-> data'.items, total |-> data'.total]
          /\ data'.items = [i \in DOMAIN data.items |-> IF i \in Shown(m) THEN x ELSE data.items[i]]
      BY <2>3, <2>11 DEF Applied, IsNews
    <3>2. data'.items \in Seq(Items) /\ DOMAIN data'.items = DOMAIN data.items
      BY <2>5, <2>6, <3>1
    <3>3. \A i \in DOMAIN data.items : data'.items[i].id = data.items[i].id
      BY <2>3, <2>6, <3>1 DEF Shown
    <3>4. Distinct(data)' /\ IdsOf(data)' = IdsOf(data)
      BY <2>4, <3>2, <3>3 DEF Distinct, IdsOf
    <3>5. News' = News
      BY <2>9, <3>2, <3>3 DEF News
    <3> QED
      BY <2>4, <2>5, <2>10, <3>1, <3>2, <3>4, <3>5
  <2>12. CASE Shown(m) = {} /\ ~(m.type = "landing" /\ offset = 0)
    <3>1. /\ data'.items = data.items /\ data' = [items |-> data'.items, total |-> data'.total]
          /\ \/ m.type = "landing" /\ unseen' = unseen + 1 /\ data'.total = data.total + 1 /\ offset # 0
             \/ m.type # "landing" /\ unseen' = unseen /\ data'.total = data.total
      BY <2>3, <2>12 DEF Applied, IsNews
    <3>2. Distinct(data)' /\ IdsOf(data)' = IdsOf(data) /\ News' = News
      BY <2>4, <2>9, <3>1 DEF Distinct, IdsOf, News
    <3> QED
      BY <2>4, <2>5, <2>10, <3>1, <3>2
  <2>13. CASE Shown(m) = {} /\ m.type = "landing" /\ offset = 0
    <3>1. /\ data'.items = <<x>> \o data.items /\ data'.total = data.total + 1
          /\ data' = [items |-> data'.items, total |-> data'.total] /\ unseen' = unseen + 1
      BY <2>3, <2>13 DEF Applied, IsNews
    <3>2. m.id \notin IdsOf(data) /\ m.id \notin IdsOf(answer)
      BY <2>3, <2>4, <2>13 DEF Shown, IdsOf
    <3>3. PICK l, y, known : l = data /\ y = x /\ known = IdsOf(answer)
      OBVIOUS
    <3> HIDE DEF x
    <3>4. PICK items : items = <<y>> \o l.items
      OBVIOUS
    <3>7. y \in Items /\ l \in Lists /\ Distinct(l) /\ y.id \notin IdsOf(l) /\ y.id \notin known
      BY <2>4, <2>6, <3>2, <3>3
    <3>8. /\ items \in Seq(Items) /\ NoTwoAlike(items)
          /\ Labels(items) = IdsOf(l) \cup {y.id}
          /\ Cardinality(Fresh(items, known)) = Cardinality(Fresh(l.items, known)) + 1
      BY <3>4, <3>7, OnTop
    <3>9. data'.items = items
      BY <3>1, <3>3, <3>4
    <3>5. Distinct(data)' /\ IdsOf(data) \subseteq IdsOf(data)'
      <4>1. Distinct(data)'
        BY <3>8, <3>9 DEF Distinct, NoTwoAlike
      <4>2. IdsOf(data)' = IdsOf(l) \cup {y.id}
        BY <3>8, <3>9 DEF IdsOf, Labels
      <4> QED
        BY <3>3, <4>1, <4>2
    <3>6. Cardinality(News') = Cardinality(News) + 1
      <4>1. News' = Fresh(items, known)
        BY <2>9, <3>3, <3>9 DEF News, Fresh
      <4>2. News = Fresh(l.items, known)
        BY <3>3 DEF News, Fresh
      <4> QED
        BY <3>8, <4>1, <4>2
    <3> QED
      <4>1. data'.total = answer.total + unseen' /\ data'.total \in Nat /\ unseen' \in Nat
        BY <2>4, <2>5, <3>1
      <4> QED
        BY <2>4, <2>10, <2>13, <3>1, <3>5, <3>6, <3>8, <3>9, <4>1
  <2> QED
    BY <2>11, <2>12, <2>13
<1> QED
  BY <1>1, <1>2

--------------------------------------------------------------------------------
LEMMA InitInv == Init => IInv
<1> SUFFICES ASSUME Init PROVE IInv
  OBVIOUS
<1>1. log = <<>> /\ DOMAIN log = {} /\ Len(log) = 0 /\ rows \in Seq(Rows) /\ log \in Seq(Message)
  BY DEF Init
<1>2. TypeOK
  BY <1>1, Nothing DEF Init, TypeOK, ServerType, ChannelType, SocketType, ListType
<1>3. \A src \in Sources : cast[src].at = "idle"
  BY DEF Init, Silent
<1>4. MessageInv
  BY <1>1, <1>3, Nothing DEF Init, MessageInv, Active, Announced
<1>5. \A s \in Sockets : SocketInv(s)
  BY <1>3 DEF Init, SocketInv, UnderwayTo
<1>6. ListInv
  BY DEF Init, ListInv
<1> QED
  BY <1>2, <1>4, <1>5, <1>6 DEF IInv

LEMMA NextInv == IInv /\ [Next]_vars => IInv'
<1> SUFFICES ASSUME IInv, [Next]_vars PROVE IInv'
  OBVIOUS
<1>1. ServerInv /\ ListType /\ ListInv
  BY DEF IInv, TypeOK, ServerInv
<1>2. ASSUME UNCHANGED list
      PROVE  ListType' /\ ListInv'
  <2>1. UNCHANGED <<fetch, offset, data, unseen, answer>>
    BY <1>2 DEF list
  <2> QED
    BY <1>1, <2>1, ListStill DEF ListType, ListInv
<1>3. ASSUME UNCHANGED <<rows, log, cast, clients, link, handler, todo, sent, since>>,
             UNCHANGED socket, read' \in [Sockets -> Nat]
      PROVE  ServerInv'
  BY <1>1, <1>3, LinkServer DEF ServerInv, ChannelType, SocketType, socket
<1>4. ASSUME NEW src \in Sources, NEW status \in Statuses, Store(src, status)
      PROVE  ServerInv' /\ UNCHANGED list
  BY <1>1, <1>4, StoreServer DEF Store
<1>5. ASSUME NEW id \in Ids, Finalize(id)
      PROVE  ServerInv' /\ UNCHANGED list
  BY <1>1, <1>5, FinalizeServer DEF Finalize
<1>6. CASE NotifyJob
  BY <1>1, <1>2, <1>6, NotifyServer DEF NotifyJob, IInv, TypeOK, ServerInv
<1>7. ASSUME NEW src \in Sources, Announce(src) \/ \E s \in Sockets : Send(src, s)
      PROVE  ServerInv' /\ UNCHANGED list
  BY <1>1, <1>7, AnnounceServer, SendServer DEF Announce, Send
<1>8. ASSUME NEW s \in Sockets, Serve(s)
      PROVE  ServerInv' /\ UNCHANGED list
  BY <1>1, <1>8, ServeServer DEF Serve, Accept, Register, SendReplay, HandlerEnds
<1>9. ASSUME (\E s \in Sockets : Break(s)) \/ Browse \/ Leave
      PROVE  ServerInv' /\ UNCHANGED list
  BY <1>1, <1>9, BrowserServer DEF Break, Browse, Connect, OnClose, Leave
<1>10. ASSUME Receive
       PROVE  ServerInv' /\ ListType' /\ ListInv'
  <2>1. read' \in [Sockets -> Nat]
    BY <1>1, <1>10 DEF Receive, ServerInv, ChannelType, SocketType
  <2>2. ServerInv'
    BY <1>3, <1>10, <2>1 DEF Receive, server
  <2> QED
    BY <1>1, <1>10, <2>2, ReceiveList
<1>11. ASSUME Ask \/ ReadPage \/ TakeOver \/ FetchFails
       PROVE  ServerInv' /\ ListType' /\ ListInv'
  <2>1. ServerInv'
    BY <1>1, <1>3, <1>11 DEF Ask, ReadPage, TakeOver, FetchFails, server, channel, ServerInv, ChannelType
  <2>2. CASE Ask \/ FetchFails
    <3>1. UNCHANGED <<offset, data, unseen, answer>> /\ fetch'.at \in {"none", "asked"}
      BY <2>2 DEF Ask, FetchFails
    <3> QED
      BY <1>1, <2>1, <3>1, ListStill
  <2> QED
    BY <1>1, <1>11, <2>1, <2>2, ReadPageList, TakeOverList DEF ServerInv
<1>12. ASSUME UNCHANGED vars
       PROVE  ServerInv' /\ UNCHANGED list
  BY <1>1, <1>3, <1>12 DEF vars, server, channel, ServerInv, ChannelType
<1>13. ServerInv' /\ ListType' /\ ListInv'
  BY <1>2, <1>4, <1>5, <1>6, <1>7, <1>8, <1>9, <1>10, <1>11, <1>12, NotifyServer, <1>1
  DEF Next, Statuses, NotifyJob
<1> QED
  BY <1>13 DEF IInv, TypeOK, ServerInv

\* The invariant holds of every behaviour.
THEOREM Inductive == Spec => []IInv
BY InitInv, NextInv, PTL DEF Spec

\* Every variable keeps its type.
THEOREM TypeCorrect == Spec => []TypeOK
<1>1. IInv => TypeOK
  BY DEF IInv
<1> QED
  BY <1>1, Inductive, PTL

\* A client is sent everything it is owed, and nothing twice.
THEOREM NothingIsMissed == Spec => []NothingMissed
<1>1. IInv => NothingMissed
  <2> SUFFICES ASSUME IInv, NEW s \in clients
               PROVE  /\ link[s] = "open" => Owed(s) \subseteq ToSet(sent[s]) \cup Coming(s)
                      /\ IsInjective(sent[s]) /\ ToSet(sent[s]) \cap Coming(s) = {}
    <3>1. \A s \in clients : {w \in Sources : Underway(s)[w]} = UnderwayTo(s)
      BY DEF Underway, UnderwayTo
    <3> QED
      BY <3>1 DEF NothingMissed, Owed, Coming
  <2> QED
    BY DEF IInv, TypeOK, ServerType, SocketInv, ClientInv, Once
<1> QED
  BY <1>1, Inductive, PTL

\* Badge and pager agree with the last answer and the list shown.
THEOREM BadgeIsNews == Spec => []UnseenIsNews
<1>1. IInv => UnseenIsNews
  BY DEF IInv, ListInv, UnseenIsNews, Distinct, IdsOf, News
<1> QED
  BY <1>1, Inductive, PTL
================================================================================
