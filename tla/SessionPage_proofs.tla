------------------------- MODULE SessionPage_proofs -------------------------
(***************************************************************************)
(* What the session page shows, once everything published has reached it:  *)
(* the session's transcript and every request that is still pending.       *)
(*                                                                         *)
(* For one fact of the session, the text of a message or a request that    *)
(* waits, only some events tell the page anything: its setters.  What has  *)
(* to hold is that the last thing that tells the page about the fact tells *)
(* it right, be it the last setter the channel keeps, or else the snapshot *)
(* that is held, or else what the page shows already.  Right may be put    *)
(* off: a prompt's task that has changed the session owes the event that   *)
(* says so, and while it does the others may be behind.                    *)
(***************************************************************************)
EXTENDS WebChat, TLAPS

(* The types, with the events in sequences and none of the channel's a     *)
(* Take.                                                                   *)
StreamTypes ==
  /\ session \in Sessions
  /\ stage \in [Prompts -> {"new", "queued", "running", "done"}]
  /\ asked \in Nat
  /\ outbox \in [Writers -> Seq(Events)]
  /\ stream \in {"off", "down", "snapped", "open", "ended"}
  /\ held \in Snapshots \cup {Nothing}
  /\ queue \in Seq(Events)
  /\ Len(queue) <= Capacity
  /\ \A i \in 1 .. Len(queue) : queue[i].kind # "take"
  /\ lagged \in BOOLEAN
  /\ others \in 0 .. MaxOthers

PageTypes ==
  /\ StreamTypes
  /\ page \in {"blank", "syncing", "live", "readOnly", "failed"}
  /\ web \in Views
  /\ submission \in {"none", "sent", "accepted"}
  /\ action \in Actions
  /\ requests \in 0 .. MaxRequests

(* What waits to be broadcast: a task's message or request, a status last; *)
(* a client's snapshot, or that it closed the session.                     *)
OutboxShape ==
  /\ \A i \in 1 .. Len(outbox["agent"]) :
       /\ outbox["agent"][i].kind \in {"message", "permission", "status"}
       /\ i # 1 => outbox["agent"][i].kind = "status"
       /\ outbox["agent"][i].kind = "message"
            => outbox["agent"][i].length = session.text[outbox["agent"][i].message]
  /\ \A w \in {"action", "other"} : \A i \in 1 .. Len(outbox[w]) :
       /\ outbox[w][i].kind \in {"take", "snapshot", "closed"}
       /\ outbox[w][i].kind = "closed" => session.closed

(* Only a subscribed stream has anything to deliver.                       *)
StreamShape ==
  /\ stream \notin {"snapped", "open"} => held = Nothing /\ queue = <<>> /\ ~lagged
  /\ stream = "snapped" => held # Nothing /\ queue = <<>> /\ ~lagged

(* Requests are numbered as they come; none of them outlives the session.  *)
PendingShape ==
  /\ \A r \in session.pending : r <= asked
  /\ session.closed => session.pending = {}

(* Only a page that was loaded has a stream.                               *)
PageShape ==
  page \in {"blank", "syncing"} => stream = "off"

(* No request that this page has decided is pending again.                 *)
RequestShape ==
  /\ PendingShape
  /\ \A i \in 1 .. Len(queue) : queue[i].kind = "closed" => session.closed
  /\ action.kind \in {"approve", "deny"} /\ action.answer = "done"
       => action.request \notin session.pending /\ action.request <= asked

-----------------------------------------------------------------------------
(* The last of q that is in S is in G.                                     *)
LastIsGood(q, S, G) ==
  \A i \in 1 .. Len(q) :
    q[i] \in S /\ (\A j \in i + 1 .. Len(q) : q[j] \notin S) => q[i] \in G

NoneOf(q, S) == \A i \in 1 .. Len(q) : q[i] \notin S

(* A stream st with the snapshot h held and the queue q, of a receiver     *)
(* that lags or does not, leads a page that shows v to know a fact that is *)
(* set by S and told right by G; K are the views that show it.             *)
Leads(st, h, q, l, S, G, v, K) ==
  /\ LastIsGood(q, S, G)
  /\ h # Nothing /\ ~l /\ NoneOf(q, S) => h \in G
  /\ st = "open" /\ h = Nothing /\ ~l /\ NoneOf(q, S) => v \in K

(* The snapshots that wait to be broadcast tell a fact right.              *)
SnapshotsIn(G) ==
  \A w \in {"action", "other"} : \A i \in 1 .. Len(outbox[w]) :
    outbox[w][i].kind = "snapshot" => outbox[w][i] \in G

(* The text of message m.                                                  *)
OwesText(m) ==
  \E i \in 1 .. Len(outbox["agent"]) :
    outbox["agent"][i].kind = "message" /\ outbox["agent"][i].message = m

TextSetters(m) ==
  {e \in Events : \/ e.kind = "snapshot"
                  \/ e.kind = "message" /\ e.message = m}

TextEvents(m) ==
  {e \in Events :
     \/ OwesText(m)
     \/ e.kind = "snapshot" /\ (e.missed \/ e.text[m] = session.text[m])
     \/ e.kind = "message" /\ e.length = session.text[m]}

TextViews(m) ==
  {v \in Views : OwesText(m) \/ v.missed \/ v.text[m] = session.text[m]}

TextReaches(m) ==
  /\ Leads(stream, held, queue, lagged, TextSetters(m), TextEvents(m), web, TextViews(m))
  /\ SnapshotsIn(TextEvents(m))

(* The request r.                                                          *)
OwesRequest(r) ==
  \E i \in 1 .. Len(outbox["agent"]) :
    outbox["agent"][i].kind = "permission" /\ outbox["agent"][i].request = r

RequestSetters(r) ==
  {e \in Events : \/ e.kind \in {"snapshot", "closed"}
                  \/ e.kind = "permission" /\ e.request = r}

RequestEvents(r) ==
  {e \in Events :
     \/ OwesRequest(r)
     \/ e.kind = "snapshot" /\ (e.missed \/ r \in e.pending)
     \/ e.kind = "permission"}

RequestViews(r) ==
  {v \in Views : OwesRequest(r) \/ v.missed \/ v.late \/ r \in v.pending}

RequestReaches(r) ==
  /\ Leads(stream, held, queue, lagged, RequestSetters(r), RequestEvents(r), web,
           RequestViews(r))
  /\ SnapshotsIn(RequestEvents(r))

(* A cancellation that was answered, with no event since: of the requests  *)
(* that are pending again the page has not been told yet.                  *)
CancelIsNewest ==
  action.kind = "cancel" /\ action.answer = "done" /\ ~action.overtaken /\ stream = "open"
  /\ held = Nothing /\ ~lagged
    => \A r \in session.pending : OwesRequest(r) \/ ~NoneOf(queue, RequestSetters(r))

PageInv ==
  /\ PageTypes
  /\ OutboxShape
  /\ StreamShape
  /\ PageShape
  /\ RequestShape
  /\ \A m \in Messages : TextReaches(m)
  /\ \A r \in session.pending : RequestReaches(r)
  /\ CancelIsNewest

-----------------------------------------------------------------------------
(* Lemmas about Leads: each way the stream moves keeps it.                 *)

(* What tells a fact right may grow, and what shows it.                    *)
LEMMA LeadsGrows ==
  ASSUME NEW st, NEW h, NEW q, NEW l, NEW S, NEW G, NEW v, NEW K,
         NEW G2, NEW v2, NEW K2,
         Leads(st, h, q, l, S, G, v, K), G \subseteq G2, v \in K => v2 \in K2
  PROVE  Leads(st, h, q, l, S, G2, v2, K2)
BY DEF Leads, LastIsGood

(* A stream that has nothing to deliver, or is none.                       *)
LEMMA LeadsNowhere ==
  ASSUME NEW st, NEW S, NEW G, NEW v, NEW K, st # "open"
  PROVE  Leads(st, Nothing, <<>>, FALSE, S, G, v, K)
BY DEF Leads, LastIsGood

(* A snapshot of now is held: the rest is what the channel keeps.          *)
LEMMA LeadsAnew ==
  ASSUME NEW E, NEW st, NEW h, NEW q \in Seq(E), NEW S, NEW G, NEW v, NEW K,
         h # Nothing, h \in G, LastIsGood(q, S, G)
  PROVE  Leads(st, h, q, FALSE, S, G, v, K)
BY DEF Leads

(* The event e is broadcast to a subscriber, whose channel overflows or    *)
(* does not.                                                               *)
LEMMA LeadsAfterPublish ==
  ASSUME NEW E, NEW h, NEW q \in Seq(E), NEW l, NEW S, NEW G, NEW v, NEW K,
         NEW e \in E, NEW G2, NEW K2,
         Leads("open", h, q, l, S, G, v, K),
         e \in S => e \in G2,
         e \notin S => G \subseteq G2 /\ K \subseteq K2
  PROVE  /\ Leads("open", h, Append(q, e), l, S, G2, v, K2)
         /\ Leads("open", h, Tail(Append(q, e)), TRUE, S, G2, v, K2)
<1> DEFINE a == Append(q, e)
<1>1. /\ a \in Seq(E) /\ Len(a) = Len(q) + 1 /\ Len(q) \in Nat
      /\ \A i \in 1 .. Len(q) : a[i] = q[i]
      /\ a[Len(a)] = e
  OBVIOUS
<1>2. /\ Tail(a) \in Seq(E) /\ Len(Tail(a)) = Len(q)
      /\ \A i \in 1 .. Len(q) : Tail(a)[i] = a[i + 1]
  BY <1>1
<1>3. LastIsGood(a, S, G2)
  <2> SUFFICES ASSUME NEW i \in 1 .. Len(a), a[i] \in S,
                      \A j \in i + 1 .. Len(a) : a[j] \notin S
               PROVE  a[i] \in G2
    BY DEF LastIsGood
  <2>1. CASE i = Len(a)
    BY <2>1, <1>1
  <2>2. CASE i # Len(a)
    <3>1. i \in 1 .. Len(q) /\ Len(a) \in i + 1 .. Len(a)
      BY <2>2, <1>1
    <3>2. e \notin S
      BY <3>1, <1>1
    <3>3. \A j \in i + 1 .. Len(q) : q[j] \notin S
      BY <1>1, <3>1
    <3>4. q[i] \in G
      BY <1>1, <3>1, <3>3 DEF Leads, LastIsGood
    <3> QED BY <3>1, <3>2, <3>4, <1>1
  <2> QED BY <2>1, <2>2
<1>4. LastIsGood(Tail(a), S, G2)
  <2> SUFFICES ASSUME NEW i \in 1 .. Len(q), Tail(a)[i] \in S,
                      \A j \in i + 1 .. Len(q) : Tail(a)[j] \notin S
               PROVE  Tail(a)[i] \in G2
    BY <1>2 DEF LastIsGood
  <2> DEFINE k == i + 1
  <2>1. k \in 1 .. Len(a) /\ k + 1 = i + 2 /\ a[k] = Tail(a)[i]
    BY <1>1, <1>2
  <2>2. ASSUME NEW j \in i + 2 .. Len(a) PROVE a[j] \notin S
    <3>1. j - 1 \in i + 1 .. Len(q) /\ (j - 1) + 1 = j
      BY <1>1
    <3>2. j - 1 \in 1 .. Len(q)
      BY <3>1
    <3>3. Tail(a)[j - 1] = a[(j - 1) + 1]
      BY <3>2, <1>2
    <3> QED BY <3>1, <3>3
  <2> HIDE DEF k, a
  <2>3. a[k] \in S /\ \A j \in k + 1 .. Len(a) : a[j] \notin S
    BY <2>1, <2>2
  <2>4. a[k] \in G2
    BY <2>1, <2>3, <1>3 DEF LastIsGood
  <2> QED BY <2>1, <2>4
<1>5. NoneOf(a, S) => NoneOf(q, S) /\ e \notin S
  BY <1>1 DEF NoneOf
<1>6. Leads("open", h, Tail(a), TRUE, S, G2, v, K2)
  BY <1>4 DEF Leads
<1>7. Leads("open", h, a, l, S, G2, v, K2)
  BY <1>3, <1>5 DEF Leads
<1> QED BY <1>6, <1>7

(* What is held is delivered.                                              *)
LEMMA LeadsAfterHeld ==
  ASSUME NEW h, NEW q, NEW l, NEW S, NEW G, NEW v, NEW K, NEW v2,
         Leads("open", h, q, l, S, G, v, K), h # Nothing,
         h \in G => v2 \in K
  PROVE  Leads("open", Nothing, q, l, S, G, v2, K)
BY DEF Leads

(* The head of the queue is delivered.                                     *)
LEMMA LeadsAfterHead ==
  ASSUME NEW E, NEW q \in Seq(E), NEW S, NEW G, NEW v, NEW K, NEW v2,
         Leads("open", Nothing, q, FALSE, S, G, v, K), q # <<>>,
         Head(q) \in S /\ Head(q) \in G => v2 \in K,
         Head(q) \notin S /\ v \in K => v2 \in K
  PROVE  Leads("open", Nothing, Tail(q), FALSE, S, G, v2, K)
<1>1. /\ Tail(q) \in Seq(E) /\ Len(q) \in Nat \ {0} /\ Len(Tail(q)) = Len(q) - 1
      /\ \A i \in 1 .. Len(Tail(q)) : Tail(q)[i] = q[i + 1]
      /\ Head(q) = q[1]
  OBVIOUS
<1>2. LastIsGood(Tail(q), S, G)
  <2> SUFFICES ASSUME NEW i \in 1 .. Len(Tail(q)), Tail(q)[i] \in S,
                      \A j \in i + 1 .. Len(Tail(q)) : Tail(q)[j] \notin S
               PROVE  Tail(q)[i] \in G
    BY DEF LastIsGood
  <2>1. i + 1 \in 1 .. Len(q) /\ q[i + 1] \in S
    BY <1>1
  <2>2. ASSUME NEW j \in (i + 1) + 1 .. Len(q) PROVE q[j] \notin S
    <3>1. j - 1 \in i + 1 .. Len(Tail(q)) /\ (j - 1) + 1 = j
      BY <1>1
    <3> QED BY <3>1, <1>1
  <2> QED BY <2>1, <2>2, <1>1 DEF Leads, LastIsGood
<1>3. ASSUME NoneOf(Tail(q), S) PROVE v2 \in K
  <2>1. ASSUME NEW j \in 1 + 1 .. Len(q) PROVE q[j] \notin S
    <3>1. j - 1 \in 1 .. Len(Tail(q)) /\ (j - 1) + 1 = j
      BY <1>1
    <3> QED BY <3>1, <1>1, <1>3 DEF NoneOf
  <2>2. CASE q[1] \in S
    BY <2>1, <2>2, <1>1 DEF Leads, LastIsGood
  <2>3. CASE q[1] \notin S
    <3>1. NoneOf(q, S)
      <4> SUFFICES ASSUME NEW j \in 1 .. Len(q) PROVE q[j] \notin S
        BY DEF NoneOf
      <4> QED BY <2>1, <2>3, <1>1
    <3> QED BY <3>1, <2>3, <1>1 DEF Leads
  <2> QED BY <2>2, <2>3
<1> QED BY <1>2, <1>3 DEF Leads

(* A fact that is owed may be shown in any way meanwhile.                  *)
LEMMA LeadsOwed ==
  ASSUME NEW E, NEW st, NEW h \in E \cup {Nothing}, NEW q \in Seq(E), NEW l, NEW S,
         NEW v, NEW K, v \in K
  PROVE  Leads(st, h, q, l, S, E, v, K)
<1>1. \A i \in 1 .. Len(q) : q[i] \in E
  OBVIOUS
<1> QED BY <1>1 DEF Leads, LastIsGood

-----------------------------------------------------------------------------
(* Types.                                                                  *)
LEMMA EventFacts ==
  ASSUME NEW e \in Events
  PROVE  /\ e.kind \in {"snapshot", "message", "permission", "closed", "status", "take"}
         /\ e.kind = "snapshot" =>
              /\ e \in Snapshots
              /\ e.text \in [Messages -> 0 .. MaxText]
              /\ e.pending \subseteq Permissions
              /\ e.closed \in BOOLEAN /\ e.active \in BOOLEAN /\ e.missed \in BOOLEAN
         /\ e.kind = "message" => /\ e.message \in Messages
                                  /\ e.length \in 0 .. MaxText
                                  /\ e.partial \in BOOLEAN
         /\ e.kind = "permission" => e.request \in Permissions
         /\ e.kind = "take" => e = Take
BY DEF Events, Snapshots, Take

LEMMA SnapshotsAreEvents ==
  /\ Snapshots \subseteq Events
  /\ \A e \in Snapshots : e.kind = "snapshot" /\ e # Nothing /\ e # Take
  /\ Nothing \notin Events
BY DEF Events, Snapshots, Nothing, Take

LEMMA OvertakenFacts ==
  ASSUME NEW e \in Events
  PROVE  /\ Overtaken(e) \in Events
         /\ Overtaken(e).kind = e.kind
         /\ e.kind # "snapshot" => Overtaken(e) = e
         /\ e.kind = "snapshot" => Overtaken(e) \in Snapshots /\ Overtaken(e).missed
<1>1. CASE e.kind # "snapshot"
  BY <1>1 DEF Overtaken
<1>2. CASE e.kind = "snapshot"
  <2>1. e \in Snapshots
    BY <1>2, EventFacts
  <2>2. Overtaken(e) \in Snapshots /\ Overtaken(e).kind = e.kind /\ Overtaken(e).missed
    BY <1>2, <2>1 DEF Overtaken, Snapshots
  <2> QED BY <1>2, <2>2, SnapshotsAreEvents
<1> QED BY <1>1, <1>2

LEMMA SnapshotFacts ==
  ASSUME session \in Sessions
  PROVE  /\ Snapshot \in Snapshots /\ Snapshot \in Events
         /\ Snapshot.kind = "snapshot" /\ Snapshot # Nothing /\ Snapshot # Take
         /\ Snapshot.text = session.text /\ Snapshot.pending = session.pending
<1>1. Snapshot \in Snapshots
  BY DEF Snapshot, Snapshots, Sessions
<1>2. Snapshot.text = session.text /\ Snapshot.pending = session.pending
  BY DEF Snapshot
<1> QED BY <1>1, <1>2, SnapshotsAreEvents

LEMMA MadeEvents ==
  /\ \A m \in Messages, n \in 0 .. MaxText, b \in BOOLEAN :
       /\ Message(m, n, b) \in Events
       /\ Message(m, n, b).kind = "message"
       /\ Message(m, n, b).message = m /\ Message(m, n, b).length = n
  /\ \A r \in Permissions : [kind |-> "permission", request |-> r] \in Events
  /\ [kind |-> "closed"] \in Events /\ [kind |-> "status"] \in Events /\ Take \in Events
BY DEF Events, Message, Take

-----------------------------------------------------------------------------
(* Operations on the session.                                              *)

(* What such an operation may do: what it changes it owes to the page, and *)
(* a snapshot it takes is one of now.                                      *)
Written ==
  /\ UNCHANGED streamVars
  /\ session' \in Sessions
  /\ outbox' \in [Writers -> Seq(Events)]
  /\ OutboxShape'
  /\ session.closed => session'.closed
  /\ \A m \in Messages : /\ OwesText(m) => OwesText(m)'
                         /\ session'.text[m] = session.text[m] \/ OwesText(m)'
  /\ \A r \in session'.pending : /\ OwesRequest(r) => OwesRequest(r)'
                                 /\ r \in session.pending \/ OwesRequest(r)'
  /\ \A w \in {"action", "other"} : \A i \in 1 .. Len(outbox'[w]) :
       outbox'[w][i].kind = "snapshot" =>
         \/ outbox'[w] = outbox[w]
         \/ /\ outbox'[w][i].text = session'.text
            /\ outbox'[w][i].pending = session'.pending

LEMMA AgentWrites ==
  ASSUME StreamTypes, OutboxShape,
         NEW c \in Sessions, NEW es \in Seq(Events), Write("agent", c, es),
         c.closed = session.closed,
         \A i \in 1 .. Len(es) :
           /\ es[i].kind \in {"message", "permission", "status"}
           /\ i # 1 => es[i].kind = "status"
           /\ es[i].kind = "message" => es[i].length = c.text[es[i].message],
         \A m \in Messages :
           \/ c.text[m] = session.text[m]
           \/ \E i \in 1 .. Len(es) : es[i].kind = "message" /\ es[i].message = m,
         \A r \in c.pending :
           \/ r \in session.pending
           \/ \E i \in 1 .. Len(es) : es[i].kind = "permission" /\ es[i].request = r
  PROVE  Written
<1>1. session' = c /\ outbox["agent"] = <<>> /\ UNCHANGED streamVars
  BY DEF Write
<1>2. /\ outbox' \in [Writers -> Seq(Events)]
      /\ outbox'["agent"] = es
      /\ \A w \in {"action", "other"} : outbox'[w] = outbox[w]
  BY DEF Write, StreamTypes, Writers
<1>3. \A m : ~OwesText(m)
  BY <1>1 DEF OwesText
<1>4. \A r : ~OwesRequest(r)
  BY <1>1 DEF OwesRequest
<1>5. OutboxShape'
  BY <1>1, <1>2 DEF OutboxShape
<1>6. \A m \in Messages : c.text[m] = session.text[m] \/ OwesText(m)'
  BY <1>2 DEF OwesText
<1>7. \A r \in c.pending : r \in session.pending \/ OwesRequest(r)'
  BY <1>2 DEF OwesRequest
<1> QED BY <1>1, <1>2, <1>3, <1>4, <1>5, <1>6, <1>7 DEF Written

LEMMA ClientWrites ==
  ASSUME StreamTypes, OutboxShape, NEW w \in {"action", "other"},
         NEW c \in Sessions, NEW es \in Seq(Events), Write(w, c, es),
         session.closed => c.closed, c.text = session.text,
         c.pending \subseteq session.pending,
         \A i \in 1 .. Len(es) : /\ es[i].kind \in {"take", "closed"}
                                 /\ es[i].kind = "closed" => c.closed
  PROVE  Written
<1>1. session' = c /\ UNCHANGED streamVars
  BY DEF Write
<1>2. /\ outbox' \in [Writers -> Seq(Events)]
      /\ outbox'["agent"] = outbox["agent"]
      /\ outbox'[w] = es
      /\ \A u \in {"action", "other"} : u = w \/ outbox'[u] = outbox[u]
  BY DEF Write, StreamTypes, Writers
<1>3. \A m : OwesText(m)' <=> OwesText(m)
  BY <1>2 DEF OwesText
<1>4. \A r : OwesRequest(r)' <=> OwesRequest(r)
  BY <1>2 DEF OwesRequest
<1>5. OutboxShape'
  BY <1>1, <1>2 DEF OutboxShape
<1>6. \A u \in {"action", "other"} : \A i \in 1 .. Len(outbox'[u]) :
        outbox'[u][i].kind = "snapshot" => outbox'[u] = outbox[u]
  BY <1>2
<1> QED BY <1>1, <1>2, <1>3, <1>4, <1>5, <1>6 DEF Written

(* A task with nothing, or one event, to broadcast; a client with one.     *)
LEMMA AgentWritesNothing ==
  ASSUME StreamTypes, OutboxShape,
         NEW c \in Sessions, Write("agent", c, <<>>), c.closed = session.closed,
         \A m \in Messages : c.text[m] = session.text[m],
         c.pending \subseteq session.pending
  PROVE  Written
<1> DEFINE es == <<>>
<1>1. es \in Seq(Events) /\ Write("agent", c, es)
  OBVIOUS
<1>2. \A i : i \notin 1 .. Len(es)
  OBVIOUS
<1> HIDE DEF es
<1>3. \A i \in 1 .. Len(es) :
        /\ es[i].kind \in {"message", "permission", "status"}
        /\ i # 1 => es[i].kind = "status"
        /\ es[i].kind = "message" => es[i].length = c.text[es[i].message]
  BY <1>2
<1>4. \A m \in Messages :
        \/ c.text[m] = session.text[m]
        \/ \E i \in 1 .. Len(es) : es[i].kind = "message" /\ es[i].message = m
  OBVIOUS
<1>5. \A r \in c.pending :
        \/ r \in session.pending
        \/ \E i \in 1 .. Len(es) : es[i].kind = "permission" /\ es[i].request = r
  OBVIOUS
<1> QED BY <1>1, <1>3, <1>4, <1>5, AgentWrites

LEMMA AgentWritesOne ==
  ASSUME StreamTypes, OutboxShape,
         NEW c \in Sessions, NEW e \in Events, Write("agent", c, <<e>>),
         c.closed = session.closed,
         e.kind \in {"message", "permission"},
         e.kind = "message" => e.length = c.text[e.message],
         \A m \in Messages :
           \/ c.text[m] = session.text[m]
           \/ e.kind = "message" /\ e.message = m,
         \A r \in c.pending :
           \/ r \in session.pending
           \/ e.kind = "permission" /\ e.request = r
  PROVE  Written
<1> DEFINE es == <<e>>
<1>1. es \in Seq(Events) /\ Write("agent", c, es)
  OBVIOUS
<1>2. Len(es) = 1 /\ es[1] = e
  OBVIOUS
<1> HIDE DEF es
<1>3. \A i \in 1 .. Len(es) :
        /\ es[i].kind \in {"message", "permission", "status"}
        /\ i # 1 => es[i].kind = "status"
        /\ es[i].kind = "message" => es[i].length = c.text[es[i].message]
  BY <1>2
<1>4. \A m \in Messages :
        \/ c.text[m] = session.text[m]
        \/ \E i \in 1 .. Len(es) : es[i].kind = "message" /\ es[i].message = m
  BY <1>2
<1>5. \A r \in c.pending :
        \/ r \in session.pending
        \/ \E i \in 1 .. Len(es) : es[i].kind = "permission" /\ es[i].request = r
  BY <1>2
<1> QED BY <1>1, <1>3, <1>4, <1>5, AgentWrites

LEMMA ClientWritesOne ==
  ASSUME StreamTypes, OutboxShape, NEW w \in {"action", "other"},
         NEW c \in Sessions, NEW e \in Events, Write(w, c, <<e>>),
         session.closed => c.closed, c.text = session.text,
         c.pending \subseteq session.pending,
         e.kind \in {"take", "closed"}, e.kind = "closed" => c.closed
  PROVE  Written
<1> DEFINE es == <<e>>
<1>1. es \in Seq(Events) /\ Write(w, c, es)
  OBVIOUS
<1>2. Len(es) = 1 /\ es[1] = e
  OBVIOUS
<1> HIDE DEF es
<1>3. \A i \in 1 .. Len(es) : /\ es[i].kind \in {"take", "closed"}
                              /\ es[i].kind = "closed" => c.closed
  BY <1>2
<1> QED BY <1>1, <1>3, ClientWrites

(* What the rest of the invariant needs of such an operation.              *)
Operated ==
  /\ Written
  /\ stage' \in [Prompts -> {"new", "queued", "running", "done"}]
  /\ others' \in 0 .. MaxOthers
  /\ asked' \in Nat /\ asked <= asked'
  /\ session'.closed => session'.pending = {}
  /\ \A r \in session'.pending : r <= asked' /\ (r \in session.pending \/ asked < r)

LEMMA StartTurnStep ==
  ASSUME StreamTypes, OutboxShape, PendingShape, NEW p \in Prompts, StartTurn(p)
  PROVE  Operated
<1> DEFINE c == [session EXCEPT !.turn = p, !.cancelled = FALSE]
<1>1. c \in Sessions /\ c.text = session.text /\ c.pending = session.pending
      /\ c.closed = session.closed
  BY DEF StreamTypes, Sessions
<1>2. Write("agent", c, <<>>) /\ session' = c
  BY DEF StartTurn, Write
<1>3. Written
  <2> HIDE DEF c
  <2> QED BY <1>1, <1>2, AgentWritesNothing
<1> QED BY <1>1, <1>2, <1>3 DEF Operated, StartTurn, StreamTypes, PendingShape

LEMMA ChunkStep ==
  ASSUME StreamTypes, OutboxShape, PendingShape, NEW p \in Prompts, StreamAssistantChunk(p)
  PROVE  Operated
<1> DEFINE n == session.text[p] + 1
           c == [session EXCEPT !.text[p] = n]
           e == Message(p, n, TRUE)
<1>1. n \in 0 .. MaxText
  BY StreamAssumption DEF StreamAssistantChunk, StreamTypes, Sessions, Messages
<1>2. /\ c \in Sessions /\ c.pending = session.pending /\ c.closed = session.closed
      /\ c.text[p] = n /\ \A m \in Messages : m = p \/ c.text[m] = session.text[m]
  <2> HIDE DEF n
  <2> QED BY <1>1 DEF StreamTypes, Sessions, Messages
<1>3. Write("agent", c, <<e>>) /\ session' = c
  BY DEF StreamAssistantChunk, Write
<1>4. e \in Events /\ e.kind = "message" /\ e.message = p /\ e.length = n
  BY <1>1, MadeEvents DEF Messages
<1>5. Written
  <2> HIDE DEF c, e, n
  <2> QED BY <1>2, <1>3, <1>4, AgentWritesOne DEF Messages
<1> QED BY <1>2, <1>3, <1>5 DEF Operated, StreamAssistantChunk, StreamTypes, PendingShape

LEMMA RegisterStep ==
  ASSUME StreamTypes, OutboxShape, PendingShape, NEW p \in Prompts,
         RegisterPermissionRequest(p)
  PROVE  Operated
<1> DEFINE c == [session EXCEPT !.pending = @ \cup {asked + 1}]
           e == [kind |-> "permission", request |-> asked + 1]
<1>1. /\ c \in Sessions /\ c.pending = session.pending \cup {asked + 1}
      /\ c.closed = session.closed /\ c.text = session.text
  BY DEF RegisterPermissionRequest, StreamTypes, Sessions
<1>2. Write("agent", c, <<e>>) /\ session' = c /\ asked' = asked + 1 /\ ~session.closed
  BY DEF RegisterPermissionRequest, Write, TakesOutput
<1>3. e \in Events /\ e.kind = "permission" /\ e.request = asked + 1
  BY MadeEvents DEF RegisterPermissionRequest
<1>4. Written
  <2> HIDE DEF c, e
  <2> QED BY <1>1, <1>2, <1>3, AgentWritesOne
<1>5. \A r \in session.pending : r \in Int
  <2>1. session.pending \subseteq Permissions
    BY DEF StreamTypes, Sessions
  <2>2. \A r \in Permissions : r \in Int
    BY StreamAssumption
  <2> QED BY <2>1, <2>2
<1>6. \A r \in session'.pending : r <= asked' /\ (r \in session.pending \/ asked < r)
  <2> HIDE DEF c
  <2> QED BY <1>1, <1>2, <1>5 DEF StreamTypes, PendingShape
<1> QED BY <1>1, <1>2, <1>4, <1>6 DEF Operated, RegisterPermissionRequest, StreamTypes

(* A prompt completes: every request is gone, and the text is told.        *)
LEMMA CompletedFacts ==
  ASSUME StreamTypes, NEW p \in Prompts, NEW n \in 0 .. MaxText
  PROVE  /\ Completed(p, n) \in Sessions
         /\ Completed(p, n).pending = {}
         /\ Completed(p, n).closed = session.closed
         /\ Completed(p, n).text[p] = n
         /\ \A m \in Messages : m = p \/ Completed(p, n).text[m] = session.text[m]
BY DEF StreamTypes, Sessions, Messages, Completed

LEMMA ReplyStep ==
  ASSUME StreamTypes, OutboxShape, PendingShape, NEW p \in Prompts, NEW n \in 1 .. MaxText,
         CompleteWithReply(p, n)
  PROVE  Operated
<1> DEFINE c == Completed(p, n)
           e == Message(p, n, FALSE)
<1>0. n \in 0 .. MaxText
  BY StreamAssumption
<1>1. Write("agent", c, <<e>>) /\ session' = c
  BY DEF CompleteWithReply, Write
<1>2. e \in Events /\ e.kind = "message" /\ e.message = p /\ e.length = n
  BY <1>0, MadeEvents DEF Messages
<1>3. Written
  <2>2. /\ c \in Sessions /\ c.pending = {} /\ c.closed = session.closed /\ c.text[p] = n
        /\ \A m \in Messages : m = p \/ c.text[m] = session.text[m]
    BY <1>0, CompletedFacts
  <2> HIDE DEF c, e
  <2> QED BY <1>1, <1>2, <2>2, AgentWritesOne DEF Messages
<1> QED BY <1>0, <1>1, <1>3, CompletedFacts
        DEF Operated, CompleteWithReply, StreamTypes, PendingShape

LEMMA StatusStep ==
  ASSUME StreamTypes, OutboxShape, PendingShape, NEW p \in Prompts, CompleteWithStatus(p)
  PROVE  Operated
<1> DEFINE n == session.text[p]
           c == Completed(p, n)
           e == Message(p, n, FALSE)
           f == [kind |-> "status"]
           es == (IF n > 0 THEN <<e>> ELSE <<>>) \o <<f>>
<1>0. n \in 0 .. MaxText
  BY DEF StreamTypes, Sessions, Messages
<1>1. Write("agent", c, es) /\ session' = c
  BY DEF CompleteWithStatus, Write
<1>2. /\ e \in Events /\ e.kind = "message" /\ e.message = p /\ e.length = n
      /\ f \in Events /\ f.kind = "status"
  BY <1>0, MadeEvents DEF Messages
<1>3. Written
  <2>1. /\ c \in Sessions /\ c.pending = {} /\ c.closed = session.closed /\ c.text[p] = n
        /\ \A m \in Messages : c.text[m] = session.text[m]
    <3> HIDE DEF n
    <3>1. \A m \in Messages : m = p \/ c.text[m] = session.text[m]
      BY <1>0, CompletedFacts
    <3>2. c.text[p] = n /\ n = session.text[p]
      BY <1>0, CompletedFacts DEF n
    <3> QED BY <1>0, <3>1, <3>2, CompletedFacts
  <2>2. /\ es \in Seq(Events)
        /\ \A i \in 1 .. Len(es) :
             /\ es[i].kind \in {"message", "status"}
             /\ i # 1 => es[i].kind = "status"
             /\ es[i].kind = "message" => es[i].message = p /\ es[i].length = n
    <3> HIDE DEF e, f, n
    <3>1. CASE n > 0
      <4>1. es = <<e>> \o <<f>>
        BY <3>1
      <4>2. <<e>> \in Seq(Events) /\ <<f>> \in Seq(Events)
        BY <1>2
      <4>3. Len(<<e>>) = 1 /\ Len(<<f>>) = 1 /\ <<e>>[1] = e /\ <<f>>[1] = f
        OBVIOUS
      <4>4. /\ <<e>> \o <<f>> \in Seq(Events) /\ Len(<<e>> \o <<f>>) = 2
            /\ (<<e>> \o <<f>>)[1] = e /\ (<<e>> \o <<f>>)[2] = f
        BY <4>2, <4>3
      <4> HIDE DEF es
      <4> QED BY <1>2, <4>1, <4>4
    <3>2. CASE ~(n > 0)
      <4>1. es = <<f>>
        BY <3>2
      <4>2. <<f>> \in Seq(Events) /\ Len(<<f>>) = 1 /\ <<f>>[1] = f
        BY <1>2
      <4> HIDE DEF es
      <4> QED BY <1>2, <4>1, <4>2
    <3> QED BY <3>1, <3>2
  <2> HIDE DEF c, es, n
  <2> QED BY <1>1, <2>1, <2>2, AgentWrites
<1> QED BY <1>0, <1>1, <1>3, CompletedFacts
        DEF Operated, CompleteWithStatus, StreamTypes, PendingShape

LEMMA SilentStep ==
  ASSUME StreamTypes, OutboxShape, PendingShape, NEW p \in Prompts, CompleteWithoutOutput(p)
  PROVE  Operated
<1> DEFINE c == Completed(p, 0)
<1>0. 0 \in 0 .. MaxText
  BY StreamAssumption
<1>1. Write("agent", c, <<>>) /\ session' = c
  BY DEF CompleteWithoutOutput, Write
<1>2. Written
  <2>2. /\ c \in Sessions /\ c.pending = {} /\ c.closed = session.closed
        /\ \A m \in Messages : c.text[m] = session.text[m]
    BY <1>0, CompletedFacts DEF CompleteWithoutOutput
  <2> HIDE DEF c
  <2> QED BY <1>1, <2>2, AgentWritesNothing
<1> QED BY <1>0, <1>1, <1>2, CompletedFacts
        DEF Operated, CompleteWithoutOutput, StreamTypes, PendingShape

LEMMA SubmitStep ==
  ASSUME StreamTypes, OutboxShape, PendingShape, NEW p \in Prompts, SubmitPrompt(p),
         others' \in 0 .. MaxOthers
  PROVE  Operated
<1>1. /\ session' = session /\ outbox' = outbox /\ asked' = asked
      /\ UNCHANGED streamVars
  BY DEF SubmitPrompt
<1>2. stage' \in [Prompts -> {"new", "queued", "running", "done"}]
  BY DEF SubmitPrompt, StreamTypes
<1>3. Written
  BY <1>1 DEF Written, StreamTypes, OutboxShape, OwesText, OwesRequest
<1> QED BY <1>1, <1>2, <1>3 DEF Operated, StreamTypes, PendingShape

LEMMA ResolveStep ==
  ASSUME StreamTypes, OutboxShape, PendingShape, NEW w \in {"action", "other"}, NEW r,
         ResolvePermission(w, r), others' \in 0 .. MaxOthers
  PROVE  Operated /\ r \in session.pending /\ r \notin session'.pending
<1> DEFINE c == [session EXCEPT !.pending = @ \ {r}]
<1>1. /\ c \in Sessions /\ c.pending = session.pending \ {r}
      /\ c.closed = session.closed /\ c.text = session.text
  BY DEF StreamTypes, Sessions
<1>2. Write(w, c, <<Take>>) /\ session' = c /\ r \in session.pending /\ ~session.closed
  BY DEF ResolvePermission, Write
<1>3. Written
  <2>1. Take \in Events /\ Take.kind = "take"
    BY MadeEvents DEF Take
  <2> HIDE DEF c
  <2> QED BY <1>1, <1>2, <2>1, ClientWritesOne
<1> QED BY <1>1, <1>2, <1>3 DEF Operated, ResolvePermission, StreamTypes, PendingShape

LEMMA CancelStep ==
  ASSUME StreamTypes, OutboxShape, PendingShape, NEW w \in {"action", "other"},
         CancelActiveTurn(w), others' \in 0 .. MaxOthers
  PROVE  Operated /\ session'.pending = {}
<1> DEFINE c == [session EXCEPT !.pending = {}, !.cancelled = TRUE]
<1>1. /\ c \in Sessions /\ c.pending = {}
      /\ c.closed = session.closed /\ c.text = session.text
  BY DEF StreamTypes, Sessions
<1>2. Write(w, c, <<Take>>) /\ session' = c
  BY DEF CancelActiveTurn, Write
<1>3. Written
  <2>1. Take \in Events /\ Take.kind = "take"
    BY MadeEvents DEF Take
  <2> HIDE DEF c
  <2> QED BY <1>1, <1>2, <2>1, ClientWritesOne
<1> QED BY <1>1, <1>2, <1>3 DEF Operated, CancelActiveTurn, StreamTypes

LEMMA CloseStep ==
  ASSUME StreamTypes, OutboxShape, PendingShape, CloseSession
  PROVE  Operated
<1> DEFINE c == [session EXCEPT !.closed = TRUE, !.pending = {},
                                !.turn = NoPrompt, !.cancelled = FALSE]
           e == [kind |-> "closed"]
<1>1. /\ c \in Sessions /\ c.pending = {}
      /\ c.closed = TRUE /\ c.text = session.text
  BY DEF StreamTypes, Sessions
<1>2. Write("other", c, <<e>>) /\ session' = c
  BY DEF CloseSession, Write
<1>3. Written
  <2>1. e \in Events /\ e.kind = "closed"
    BY MadeEvents
  <2> HIDE DEF c, e
  <2> QED BY <1>1, <1>2, <2>1, ClientWritesOne
<1>4. others' \in 0 .. MaxOthers
  BY StreamAssumption DEF CloseSession, OtherClientActs, StreamTypes
<1> QED BY <1>1, <1>2, <1>3, <1>4 DEF Operated, CloseSession, StreamTypes

LEMMA TakeSnapshotStep ==
  ASSUME StreamTypes, OutboxShape, PendingShape, NEW w \in Writers, TakeSnapshot(w)
  PROVE  Operated
<1>1. /\ session' = session /\ stage' = stage /\ asked' = asked /\ others' = others
      /\ UNCHANGED streamVars
  BY DEF TakeSnapshot, sessionVars
<1>2. outbox[w] = <<Take>> /\ outbox' = [outbox EXCEPT ![w] = <<Snapshot>>]
  BY DEF TakeSnapshot
<1>3. w \in {"action", "other"}
  <2>1. Len(outbox[w]) = 1 /\ outbox[w][1] = Take /\ Take.kind = "take"
    BY <1>2 DEF Take
  <2> QED BY <2>1 DEF OutboxShape, Writers
<1>4. /\ Snapshot \in Events /\ Snapshot.kind = "snapshot"
      /\ Snapshot.text = session.text /\ Snapshot.pending = session.pending
  BY SnapshotFacts DEF StreamTypes
<1>5. /\ outbox' \in [Writers -> Seq(Events)]
      /\ outbox'["agent"] = outbox["agent"]
      /\ \A u \in {"action", "other"} : u # w => outbox'[u] = outbox[u]
      /\ Len(outbox'[w]) = 1 /\ outbox'[w][1] = Snapshot
  <2> DEFINE o == <<Snapshot>>
  <2>1. o \in Seq(Events) /\ Len(o) = 1 /\ o[1] = Snapshot
    BY <1>4
  <2>2. outbox' = [outbox EXCEPT ![w] = o]
    BY <1>2
  <2> HIDE DEF o
  <2> QED BY <2>1, <2>2, <1>3 DEF StreamTypes, Writers
<1>6. OutboxShape'
  BY <1>1, <1>3, <1>4, <1>5 DEF OutboxShape
<1>7. Written
  <2>1. \A m : OwesText(m)' <=> OwesText(m)
    BY <1>5 DEF OwesText
  <2>2. \A r : OwesRequest(r)' <=> OwesRequest(r)
    BY <1>5 DEF OwesRequest
  <2>3. ASSUME NEW u \in {"action", "other"}, NEW i \in 1 .. Len(outbox'[u])
        PROVE  \/ outbox'[u] = outbox[u]
               \/ /\ outbox'[u][i].text = session'.text
                  /\ outbox'[u][i].pending = session'.pending
    <3>1. CASE u = w
      <4>1. i = 1
        BY <3>1, <1>5
      <4> QED BY <4>1, <3>1, <1>1, <1>4, <1>5
    <3> QED BY <3>1, <1>5
  <2>4. session' \in Sessions
    BY <1>1 DEF StreamTypes
  <2> QED BY <1>1, <1>5, <1>6, <2>1, <2>2, <2>3, <2>4 DEF Written
<1>8. \A r \in session.pending : r <= asked
  BY DEF PendingShape
<1> QED BY <1>1, <1>7, <1>8 DEF Operated, StreamTypes, PendingShape

-----------------------------------------------------------------------------
(* Broadcasting.                                                          *)

LEMMA MarkedSeq ==
  ASSUME NEW o \in Seq(Events)
  PROVE  LET t == [i \in 1 .. Len(o) |-> Overtaken(o[i])] IN
         t \in Seq(Events) /\ Len(t) = Len(o) /\ \A i \in 1 .. Len(o) : t[i] = Overtaken(o[i])
<1> DEFINE t == [i \in 1 .. Len(o) |-> Overtaken(o[i])]
<1>1. Len(o) \in Nat /\ \A i \in 1 .. Len(o) : o[i] \in Events
  OBVIOUS
<1>2. \A i \in 1 .. Len(o) : Overtaken(o[i]) \in Events
  BY <1>1, OvertakenFacts
<1>3. t \in Seq(Events)
  BY <1>1, <1>2
<1>4. Len(t) = Len(o)
  BY <1>1
<1> QED BY <1>3, <1>4

(* The event e of another writer is broadcast: the agent's wait as before. *)
LEMMA PublishElsewhere ==
  ASSUME StreamTypes, OutboxShape, NEW w \in Writers, Publish(w), NEW e, e = Head(outbox[w]),
         w # "agent"
  PROVE  /\ outbox'["agent"] = outbox["agent"]
         /\ \E i \in 1 .. Len(outbox[w]) : e = outbox[w][i]
<1> DEFINE y == outbox["agent"]
           x == [i \in 1 .. Len(y) |-> Overtaken(y[i])]
<1>1. y \in Seq(Events) /\ outbox[w] \in Seq(Events) /\ outbox[w] # <<>>
  BY DEF Publish, StreamTypes, Writers
<1>2. outbox'["agent"] = x
  BY DEF Publish, Writers
<1>3. x \in Seq(Events) /\ Len(x) = Len(y) /\ \A i \in 1 .. Len(y) : x[i] = Overtaken(y[i])
  BY <1>1, MarkedSeq
<1>4. \A i \in 1 .. Len(y) : x[i] = y[i]
  <2>1. \A i \in 1 .. Len(y) : y[i] \in Events /\ y[i].kind # "snapshot"
    BY <1>1 DEF OutboxShape
  <2> HIDE DEF x, y
  <2> QED BY <1>3, <2>1, OvertakenFacts
<1> HIDE DEF x, y
<1>5. x = y
  BY <1>1, <1>3, <1>4
<1>6. 1 \in 1 .. Len(outbox[w]) /\ e = outbox[w][1]
  BY <1>1
<1> QED BY <1>2, <1>5, <1>6 DEF y

(* The event e is broadcast.  What stays in the outboxes are the snapshots *)
(* that it overtakes, and what its own task has behind it.                 *)
LEMMA PublishFacts ==
  ASSUME StreamTypes, OutboxShape, NEW w \in Writers, Publish(w), NEW e, e = Head(outbox[w])
  PROVE  /\ e \in Events /\ e.kind # "take"
         /\ outbox' \in [Writers -> Seq(Events)]
         /\ OutboxShape'
         /\ \A u \in {"action", "other"} : \A i \in 1 .. Len(outbox'[u]) :
              outbox'[u][i].kind = "snapshot" =>
                \/ outbox'[u][i].missed
                \/ u = w /\ \E j \in 1 .. Len(outbox[u]) : outbox'[u][i] = outbox[u][j]
         /\ w = "agent" => /\ e.kind \in {"message", "permission", "status"}
                           /\ e.kind = "message" => e.length = session.text[e.message]
         /\ w # "agent" => e.kind \in {"snapshot", "closed"}
         /\ e.kind = "closed" => session.closed
         /\ \A m \in Messages : /\ OwesText(m)' => OwesText(m)
                                /\ OwesText(m) => \/ OwesText(m)'
                                                  \/ e.kind = "message" /\ e.message = m
         /\ \A r : /\ OwesRequest(r)' => OwesRequest(r)
                   /\ OwesRequest(r) => \/ OwesRequest(r)'
                                        \/ e.kind = "permission" /\ e.request = r
<1> DEFINE o == outbox[w]
<1>1. /\ session' = session /\ o \in Seq(Events) /\ o # <<>> /\ e = o[1] /\ e # Take
      /\ Len(o) \in Nat \ {0} /\ \A u \in Writers : outbox[u] \in Seq(Events)
  BY DEF Publish, sessionVars, StreamTypes
<1>2. e \in Events /\ e.kind # "take"
  <2>1. e \in Events
    BY <1>1
  <2> QED BY <1>1, <2>1, EventFacts
<1>3. outbox' = [u \in Writers |-> IF u = w THEN Tail(outbox[u])
                   ELSE [i \in 1 .. Len(outbox[u]) |-> Overtaken(outbox[u][i])]]
  BY DEF Publish
<1>4. /\ outbox'[w] = Tail(o) /\ Tail(o) \in Seq(Events) /\ Len(Tail(o)) = Len(o) - 1
      /\ \A i \in 1 .. Len(Tail(o)) : Tail(o)[i] = o[i + 1] /\ i + 1 \in 1 .. Len(o)
  BY <1>1, <1>3
<1>5. ASSUME NEW u \in Writers, u # w
      PROVE  /\ outbox'[u] \in Seq(Events) /\ Len(outbox'[u]) = Len(outbox[u])
             /\ \A i \in 1 .. Len(outbox[u]) : outbox'[u][i] = Overtaken(outbox[u][i])
  <2>1. outbox[u] \in Seq(Events)
    BY <1>1
  <2>2. outbox'[u] = [i \in 1 .. Len(outbox[u]) |-> Overtaken(outbox[u][i])]
    BY <1>3, <1>5
  <2> QED BY <2>1, <2>2, MarkedSeq
<1>6. outbox' \in [Writers -> Seq(Events)]
  <2>1. \A u \in Writers : outbox'[u] \in Seq(Events)
    BY <1>4, <1>5
  <2>2. DOMAIN outbox' = Writers /\ outbox' = [u \in DOMAIN outbox' |-> outbox'[u]]
    BY <1>3
  <2> QED BY <2>1, <2>2
<1>7. /\ "agent" \in Writers /\ "action" \in Writers /\ "other" \in Writers
      /\ w = "agent" \/ w \in {"action", "other"}
      /\ \A u \in Writers : \A i \in 1 .. Len(outbox[u]) : outbox[u][i] \in Events
  BY <1>1 DEF Writers
<1>8. /\ w = "agent" => /\ e.kind \in {"message", "permission", "status"}
                        /\ e.kind = "message" => e.length = session.text[e.message]
      /\ w # "agent" => e.kind \in {"snapshot", "closed"}
      /\ e.kind = "closed" => session.closed
  BY <1>1, <1>2, <1>7 DEF OutboxShape
<1>9. w # "agent" => outbox'["agent"] = outbox["agent"]
  BY PublishElsewhere
<1>10. OutboxShape'
  <2>1. ASSUME NEW i \in 1 .. Len(outbox'["agent"])
        PROVE  /\ outbox'["agent"][i].kind \in {"message", "permission", "status"}
               /\ i # 1 => outbox'["agent"][i].kind = "status"
               /\ outbox'["agent"][i].kind = "message"
                    => outbox'["agent"][i].length
                         = session.text[outbox'["agent"][i].message]
    <3>1. CASE w = "agent"
      <4>1. /\ outbox'["agent"][i] = outbox["agent"][i + 1]
            /\ i + 1 \in 1 .. Len(outbox["agent"]) /\ i + 1 # 1
        BY <3>1, <1>4
      <4> QED BY <4>1 DEF OutboxShape
    <3>2. CASE w # "agent"
      BY <3>2, <1>9 DEF OutboxShape
    <3> QED BY <3>1, <3>2
  <2>2. ASSUME NEW u \in {"action", "other"}, NEW i \in 1 .. Len(outbox'[u])
        PROVE  /\ outbox'[u][i].kind \in {"take", "snapshot", "closed"}
               /\ outbox'[u][i].kind = "closed" => session.closed
    <3>1. CASE u = w
      <4>1. outbox'[u][i] = outbox[u][i + 1] /\ i + 1 \in 1 .. Len(outbox[u])
        BY <3>1, <1>4
      <4> QED BY <4>1 DEF OutboxShape
    <3>2. CASE u # w
      <4>1. /\ outbox'[u][i] = Overtaken(outbox[u][i]) /\ i \in 1 .. Len(outbox[u])
            /\ outbox[u][i] \in Events
        BY <3>2, <1>5, <1>7
      <4>2. outbox'[u][i].kind = outbox[u][i].kind
        BY <4>1, OvertakenFacts
      <4> QED BY <4>1, <4>2 DEF OutboxShape
    <3> QED BY <3>1, <3>2
  <2> QED BY <2>1, <2>2, <1>1 DEF OutboxShape
<1>11. ASSUME NEW u \in {"action", "other"}, NEW i \in 1 .. Len(outbox'[u]),
              outbox'[u][i].kind = "snapshot"
       PROVE  \/ outbox'[u][i].missed
              \/ u = w /\ \E j \in 1 .. Len(outbox[u]) : outbox'[u][i] = outbox[u][j]
  <2>1. CASE u = w
    BY <2>1, <1>4
  <2>2. CASE u # w
    <3>1. /\ outbox'[u][i] = Overtaken(outbox[u][i]) /\ outbox[u][i] \in Events
      BY <2>2, <1>5, <1>7
    <3> QED BY <3>1, <1>11, OvertakenFacts
  <2> QED BY <2>1, <2>2
<1>12. \A m \in Messages : /\ OwesText(m)' => OwesText(m)
                           /\ OwesText(m) => \/ OwesText(m)'
                                             \/ e.kind = "message" /\ e.message = m
  <2>1. CASE w # "agent"
    BY <2>1, <1>9 DEF OwesText
  <2>2. CASE w = "agent"
    <3> SUFFICES ASSUME NEW m \in Messages
                 PROVE  /\ OwesText(m)' => OwesText(m)
                        /\ OwesText(m) => e.kind = "message" /\ e.message = m
      OBVIOUS
    <3>1. OwesText(m)' => OwesText(m)
      BY <2>2, <1>4 DEF OwesText
    <3>2. OwesText(m) => e.kind = "message" /\ e.message = m
      BY <2>2, <1>1 DEF OwesText, OutboxShape
    <3> QED BY <3>1, <3>2
  <2> QED BY <2>1, <2>2
<1>13. \A r : /\ OwesRequest(r)' => OwesRequest(r)
              /\ OwesRequest(r) => \/ OwesRequest(r)'
                                   \/ e.kind = "permission" /\ e.request = r
  <2>1. CASE w # "agent"
    BY <2>1, <1>9 DEF OwesRequest
  <2>2. CASE w = "agent"
    <3> SUFFICES ASSUME NEW r
                 PROVE  /\ OwesRequest(r)' => OwesRequest(r)
                        /\ OwesRequest(r) => e.kind = "permission" /\ e.request = r
      OBVIOUS
    <3>1. OwesRequest(r)' => OwesRequest(r)
      BY <2>2, <1>4 DEF OwesRequest
    <3>2. OwesRequest(r) => e.kind = "permission" /\ e.request = r
      BY <2>2, <1>1 DEF OwesRequest, OutboxShape
    <3> QED BY <3>1, <3>2
  <2> QED BY <2>1, <2>2
<1> QED BY <1>2, <1>6, <1>8, <1>10, <1>11, <1>12, <1>13

(* The stream keeps its types and its shape, and the channel has nothing   *)
(* new but the event.                                                      *)
LEMMA PublishTypes ==
  ASSUME StreamTypes, OutboxShape, StreamShape, NEW w \in Writers, Publish(w),
         NEW e, e = Head(outbox[w])
  PROVE  /\ StreamTypes' /\ StreamShape'
         /\ held' = Nothing <=> held = Nothing
         /\ \A i \in 1 .. Len(queue') :
              queue'[i] = e \/ \E j \in 1 .. Len(queue) : queue'[i] = queue[j]
<1>0. /\ session' = session /\ stage' = stage /\ asked' = asked /\ others' = others
      /\ stream' = stream
  BY DEF Publish, sessionVars
<1>1. e \in Events /\ e.kind # "take" /\ outbox' \in [Writers -> Seq(Events)]
  BY PublishFacts
<1>9. /\ queue \in Seq(Events) /\ Len(queue) \in Nat /\ Len(queue) <= Capacity
      /\ Capacity \in Nat \ {0}
  BY StreamAssumption DEF StreamTypes
<1>10. \/ /\ stream = "open" /\ lagged' = TRUE /\ queue' = Tail(Append(queue, e))
          /\ Len(Append(queue, e)) > Capacity
       \/ /\ stream = "open" /\ lagged' = lagged /\ queue' = Append(queue, e)
          /\ ~(Len(Append(queue, e)) > Capacity)
       \/ stream # "open" /\ lagged' = lagged /\ queue' = queue
  BY DEF Publish
<1>11. /\ Append(queue, e) \in Seq(Events)
       /\ Len(Append(queue, e)) = Len(queue) + 1
       /\ \A i \in 1 .. Len(queue) : Append(queue, e)[i] = queue[i]
       /\ Append(queue, e)[Len(queue) + 1] = e
       /\ Tail(Append(queue, e)) \in Seq(Events)
       /\ Len(Tail(Append(queue, e))) = Len(queue)
       /\ \A i \in 1 .. Len(queue) : Tail(Append(queue, e))[i] = Append(queue, e)[i + 1]
  <2> DEFINE a == Append(queue, e)
  <2>1. /\ a \in Seq(Events) /\ Len(a) = Len(queue) + 1 /\ a # <<>>
        /\ \A i \in 1 .. Len(queue) : a[i] = queue[i]
        /\ a[Len(queue) + 1] = e
    <3> DEFINE q == queue
    <3>1. q \in Seq(Events) /\ Len(q) \in Nat
      BY <1>9
    <3> HIDE DEF q
    <3>2. /\ Append(q, e) \in Seq(Events) /\ Len(Append(q, e)) = Len(q) + 1
          /\ Append(q, e)[Len(q) + 1] = e
          /\ \A i \in 1 .. Len(q) : Append(q, e)[i] = q[i]
      BY <1>1, <3>1
    <3>3. Append(q, e) # <<>>
      BY <3>1, <3>2
    <3> QED BY <3>2, <3>3 DEF q
  <2>2. /\ Tail(a) \in Seq(Events) /\ Len(Tail(a)) = Len(queue)
        /\ \A i \in 1 .. Len(queue) : Tail(a)[i] = a[i + 1]
    <3> DEFINE n == Len(queue)
    <3>1. n \in Nat /\ a \in Seq(Events) /\ Len(a) = n + 1 /\ a # <<>>
      BY <1>9, <2>1
    <3> HIDE DEF n, a
    <3>2. Tail(a) \in Seq(Events) /\ Len(Tail(a)) = n
      BY <3>1
    <3>3. \A i \in 1 .. n : Tail(a)[i] = a[i + 1]
      BY <3>1
    <3> QED BY <3>2, <3>3 DEF n
  <2> HIDE DEF a
  <2> QED BY <2>1, <2>2 DEF a
<1>12. /\ queue' \in Seq(Events) /\ Len(queue') <= Capacity /\ lagged' \in BOOLEAN
       /\ \A i \in 1 .. Len(queue') :
            queue'[i] = e \/ \E j \in 1 .. Len(queue) : queue'[i] = queue[j]
  <2>1. \A i \in 1 .. Len(queue) + 1 : i = Len(queue) + 1 \/ i \in 1 .. Len(queue)
    BY <1>9
  <2>2. \A i \in 1 .. Len(queue) : i + 1 \in 1 .. Len(queue) + 1
    BY <1>9
  <2>3. \A i \in 1 .. Len(queue) + 1 :
          Append(queue, e)[i] = e \/ \E j \in 1 .. Len(queue) : Append(queue, e)[i] = queue[j]
    BY <2>1, <1>11
  <2>4. \A i \in 1 .. Len(queue) :
          \/ Tail(Append(queue, e))[i] = e
          \/ \E j \in 1 .. Len(queue) : Tail(Append(queue, e))[i] = queue[j]
    BY <2>2, <2>3, <1>11
  <2>5. Len(queue) \in Nat /\ lagged \in BOOLEAN
    BY <1>9 DEF StreamTypes
  <2>6. CASE queue' = Append(queue, e) /\ lagged' = lagged
             /\ ~(Len(Append(queue, e)) > Capacity)
    BY <2>3, <2>5, <2>6, <1>9, <1>11
  <2>7. CASE queue' = Tail(Append(queue, e)) /\ lagged' = TRUE
    BY <2>4, <2>5, <2>7, <1>9, <1>11
  <2>8. CASE queue' = queue /\ lagged' = lagged
    BY <2>5, <2>8, <1>9
  <2> QED BY <1>10, <2>6, <2>7, <2>8
<1>13. held' \in Snapshots \cup {Nothing} /\ (held' = Nothing <=> held = Nothing)
  <2>1. CASE stream = "snapped"
    <3>1. held \in Snapshots /\ held' = Overtaken(held)
      BY <2>1 DEF Publish, StreamShape, StreamTypes
    <3>2. held' \in Snapshots
      BY <3>1, SnapshotsAreEvents, OvertakenFacts
    <3> QED BY <3>1, <3>2, SnapshotsAreEvents
  <2>2. CASE stream # "snapped"
    BY <2>2 DEF Publish, StreamTypes
  <2> QED BY <2>1, <2>2
<1>14. StreamTypes'
  BY <1>0, <1>1, <1>12, <1>13 DEF StreamTypes
<1>15. StreamShape'
  BY <1>0, <1>10, <1>13 DEF StreamShape
<1> QED BY <1>12, <1>13, <1>14, <1>15

(* How the event e reaches the stream, for a fact set by S.                *)
LEMMA LeadsPublished ==
  ASSUME StreamTypes, StreamShape, NEW w \in Writers, Publish(w), NEW e \in Events,
         e = Head(outbox[w]), NEW v, NEW S, NEW G, NEW K, NEW G2, NEW K2,
         Leads(stream, held, queue, lagged, S, G, v, K),
         e \in S => e \in G2,
         e \notin S => G \subseteq G2 /\ K \subseteq K2,
         \A h \in Snapshots : h.missed => h \in G2
  PROVE  Leads(stream', held', queue', lagged', S, G2, v, K2)
<1>1. stream' = stream /\ held' = IF stream = "snapped" THEN Overtaken(held) ELSE held
  BY DEF Publish
<1>2. CASE stream = "open"
  <2>1. \/ queue' = Tail(Append(queue, e)) /\ lagged' = TRUE
        \/ queue' = Append(queue, e) /\ lagged' = lagged
    BY <1>2 DEF Publish
  <2>2. queue \in Seq(Events)
    BY DEF StreamTypes
  <2>3. Leads("open", held, queue, lagged, S, G, v, K)
    BY <1>2
  <2>4. Leads("open", held, queue', lagged', S, G2, v, K2)
    <3>1. /\ Leads("open", held, Append(queue, e), lagged, S, G2, v, K2)
          /\ Leads("open", held, Tail(Append(queue, e)), TRUE, S, G2, v, K2)
      BY <2>2, <2>3, LeadsAfterPublish
    <3> QED BY <2>1, <3>1
  <2> QED BY <1>1, <1>2, <2>4
<1>3. CASE stream = "snapped"
  <2>1. /\ queue' = <<>> /\ lagged' = FALSE
        /\ held \in Snapshots
    BY <1>3 DEF Publish, StreamShape, StreamTypes
  <2>2. held' = Overtaken(held) /\ held \in Events /\ held.kind = "snapshot"
    BY <1>1, <1>3, <2>1, SnapshotsAreEvents
  <2>3. held' \in Snapshots /\ held'.missed
    BY <2>2, OvertakenFacts
  <2>4. held' # Nothing /\ held' \in G2
    BY <2>3, SnapshotsAreEvents
  <2> DEFINE q == <<>>
  <2>5. q \in Seq(Events) /\ LastIsGood(q, S, G2)
    BY DEF LastIsGood
  <2>6. queue' = q
    BY <2>1
  <2> HIDE DEF q
  <2>7. Leads(stream', held', q, FALSE, S, G2, v, K2)
    BY <2>4, <2>5, LeadsAnew
  <2> QED BY <2>1, <2>6, <2>7
<1>4. CASE stream \notin {"open", "snapped"}
  <2>1. held' = Nothing /\ queue' = <<>> /\ lagged' = FALSE /\ stream' # "open"
    BY <1>1, <1>4 DEF Publish, StreamShape, StreamTypes
  <2> QED BY <2>1, LeadsNowhere
<1> QED BY <1>2, <1>3, <1>4

-----------------------------------------------------------------------------
(* The page: what it shows, and the operations on the session.             *)
LEMMA ReducedFacts ==
  ASSUME NEW v \in Views, NEW e \in Events, e.kind # "take"
  PROVE  /\ Reduced(v, e) \in Views
         /\ e.kind = "snapshot" => /\ Reduced(v, e).text = e.text
                                   /\ Reduced(v, e).pending = e.pending
                                   /\ Reduced(v, e).missed = e.missed
         /\ e.kind # "snapshot" => /\ Reduced(v, e).missed = v.missed
                                   /\ Reduced(v, e).late = v.late
         /\ e.kind = "message" =>
              Reduced(v, e).text = [v.text EXCEPT ![e.message] = e.length]
         /\ e.kind \notin {"snapshot", "message"} => Reduced(v, e).text = v.text
         /\ e.kind = "permission" => Reduced(v, e).pending = v.pending \cup {e.request}
         /\ e.kind \in {"message", "status"} => Reduced(v, e).pending = v.pending
<1> USE DEF Views, TurnStates
<1>0. v.turn \in TurnStates
  OBVIOUS
<1>1. CASE e.kind = "snapshot"
  <2>1. Reduced(v, e) = WithSnapshot(v, e)
    BY <1>1 DEF Reduced
  <2>2. TurnStateForSnapshot(e) \in TurnStates
    BY <1>1, EventFacts DEF TurnStateForSnapshot
  <2>3. StatusLabel(e.closed) \in {"closed", "active"}
    BY DEF StatusLabel
  <2>4. WithSnapshot(v, e) \in Views
    BY <1>1, <2>2, <2>3, EventFacts DEF WithSnapshot
  <2>5. /\ WithSnapshot(v, e).text = e.text
        /\ WithSnapshot(v, e).pending = e.pending
        /\ WithSnapshot(v, e).missed = e.missed
    BY DEF WithSnapshot
  <2> QED BY <1>1, <2>1, <2>4, <2>5
<1>2. CASE e.kind = "message"
  BY <1>2, EventFacts DEF Reduced, WithMessage
<1>3. CASE e.kind = "permission"
  BY <1>3, EventFacts DEF Reduced, WithPermission
<1>4. CASE e.kind = "closed"
  BY <1>4 DEF Reduced, WithClosed
<1>5. CASE e.kind = "status"
  BY <1>5 DEF Reduced, WithStatus
<1> QED BY <1>1, <1>2, <1>3, <1>4, <1>5, EventFacts

LEMMA TypesSuffice ==
  ASSUME PageTypes
  PROVE  WebTypeOK
BY DEF PageTypes, StreamTypes, WebTypeOK, StreamTypeOK

LEMMA WrittenReaches ==
  ASSUME PageTypes, Written, web' = web
  PROVE  /\ \A m \in Messages : TextReaches(m) => TextReaches(m)'
         /\ \A r \in session'.pending :
              (r \in session.pending => RequestReaches(r)) => RequestReaches(r)'
<1>1. /\ stream' = stream /\ held' = held /\ queue' = queue /\ lagged' = lagged
  BY DEF Written, streamVars
<1>2. ASSUME NEW m \in Messages, TextReaches(m) PROVE TextReaches(m)'
  <2>1. TextEvents(m) \subseteq TextEvents(m)'
    BY <1>2 DEF TextEvents, Written
  <2>2. web \in TextViews(m) => web' \in TextViews(m)'
    BY <1>2 DEF TextViews, Written
  <2> DEFINE G == TextEvents(m)
             G2 == TextEvents(m)'
             K == TextViews(m)
             K2 == TextViews(m)'
             S == TextSetters(m)
  <2>3. S = TextSetters(m)'
    BY DEF TextSetters
  <2>4. Leads(stream, held, queue, lagged, S, G, web, K)
    BY <1>2 DEF TextReaches
  <2>5. Leads(stream, held, queue, lagged, S, G2, web', K2)
    <3> HIDE DEF G, G2, K, K2, S
    <3>1. G \subseteq G2 /\ (web \in K => web' \in K2)
      BY <2>1, <2>2 DEF G, G2, K, K2
    <3> QED BY <2>4, <3>1, LeadsGrows
  <2>6. SnapshotsIn(TextEvents(m))'
    <3> SUFFICES ASSUME NEW w \in {"action", "other"}, NEW i \in 1 .. Len(outbox'[w]),
                        outbox'[w][i].kind = "snapshot"
                 PROVE  outbox'[w][i] \in TextEvents(m)'
      BY DEF SnapshotsIn
    <3>1. outbox'[w][i] \in Events
      BY DEF Written, Writers
    <3>2. CASE outbox'[w] = outbox[w]
      BY <1>2, <2>1, <3>2 DEF TextReaches, SnapshotsIn
    <3>3. CASE outbox'[w][i].text = session'.text
      BY <3>1, <3>3 DEF TextEvents
    <3> QED BY <3>2, <3>3 DEF Written
  <2> QED BY <1>1, <2>3, <2>5, <2>6 DEF TextReaches
<1>3. ASSUME NEW r \in session'.pending, r \in session.pending => RequestReaches(r)
      PROVE  RequestReaches(r)'
  <2> DEFINE G == RequestEvents(r)
             G2 == RequestEvents(r)'
             K == RequestViews(r)
             K2 == RequestViews(r)'
             S == RequestSetters(r)
  <2>3. S = RequestSetters(r)'
    BY DEF RequestSetters
  <2>4. CASE r \in session.pending
    <3>1. RequestEvents(r) \subseteq RequestEvents(r)'
      BY <1>3 DEF RequestEvents, Written
    <3>2. web \in RequestViews(r) => web' \in RequestViews(r)'
      BY <1>3 DEF RequestViews, Written
    <3>4. Leads(stream, held, queue, lagged, S, G, web, K)
      BY <1>3, <2>4 DEF RequestReaches
    <3>5. Leads(stream, held, queue, lagged, S, G2, web', K2)
      <4> HIDE DEF G, G2, K, K2, S
      <4>1. G \subseteq G2 /\ (web \in K => web' \in K2)
        BY <3>1, <3>2 DEF G, G2, K, K2
      <4> QED BY <3>4, <4>1, LeadsGrows
    <3>6. SnapshotsIn(RequestEvents(r))'
      <4> SUFFICES ASSUME NEW w \in {"action", "other"}, NEW i \in 1 .. Len(outbox'[w]),
                          outbox'[w][i].kind = "snapshot"
                   PROVE  outbox'[w][i] \in RequestEvents(r)'
        BY DEF SnapshotsIn
      <4>1. outbox'[w][i] \in Events
        BY DEF Written, Writers
      <4>2. CASE outbox'[w] = outbox[w]
        BY <1>3, <2>4, <3>1, <4>2 DEF RequestReaches, SnapshotsIn
      <4>3. CASE outbox'[w][i].pending = session'.pending
        BY <4>1, <4>3 DEF RequestEvents
      <4> QED BY <4>2, <4>3 DEF Written
    <3> QED BY <1>1, <2>3, <3>5, <3>6 DEF RequestReaches
  <2>5. CASE r \notin session.pending
    <3>1. OwesRequest(r)'
      BY <1>3, <2>5 DEF Written
    <3>2. G2 = Events /\ web' \in K2
      BY <3>1 DEF RequestEvents, RequestViews, PageTypes, StreamTypes
    <3>3. queue \in Seq(Events) /\ held \in Events \cup {Nothing}
      BY SnapshotsAreEvents DEF PageTypes, StreamTypes
    <3>4. Leads(stream, held, queue, lagged, S, Events, web', K2)
      <4> HIDE DEF K2, S
      <4> QED BY <3>2, <3>3, LeadsOwed
    <3>5. SnapshotsIn(RequestEvents(r))'
      <4>1. \A w \in {"action", "other"} : \A i \in 1 .. Len(outbox'[w]) :
              outbox'[w][i] \in Events
        BY DEF Written, Writers
      <4> QED BY <4>1, <3>2 DEF SnapshotsIn
    <3> QED BY <1>1, <2>3, <3>2, <3>4, <3>5 DEF RequestReaches
  <2> QED BY <2>4, <2>5
<1> QED BY <1>2, <1>3

(* After such an operation, the page doing nothing, or its decision or     *)
(* cancellation being taken.                                               *)
LEMMA OperatedKeeps ==
  ASSUME PageInv, Operated, web' = web, page' = page,
         submission' \in {"none", "sent", "accepted"}, requests' = requests,
         action' \in Actions,
         \/ action' = action
         \/ /\ action'.kind \in {"approve", "deny"}
            /\ action'.request \in session.pending
            /\ action'.request \notin session'.pending
         \/ action'.kind = "cancel" /\ session'.pending = {}
  PROVE  PageInv'
<1>0. UNCHANGED streamVars /\ Written
  BY DEF Operated, Written
<1>1. PageTypes'
  BY <1>0 DEF PageInv, PageTypes, StreamTypes, Operated, Written, streamVars
<1>2. OutboxShape'
  BY <1>0 DEF Written
<1>3. StreamShape'
  BY <1>0 DEF PageInv, StreamShape, PageShape, streamVars
<1>4. RequestShape'
  <2>0. /\ session.pending \subseteq Permissions
        /\ \A r \in session.pending : r <= asked
    BY DEF PageInv, PageTypes, StreamTypes, Sessions, RequestShape, PendingShape
  <2>1. \A r \in Permissions : r \in Int
    BY StreamAssumption
  <2>2. action.request \in Int
    <3>1. action.request \in Permissions \cup {0}
      BY DEF PageInv, PageTypes, StreamTypes, Actions
    <3>3. CASE action.request = 0
      BY <3>3
    <3>4. CASE action.request \in Permissions
      BY <2>1, <3>4
    <3> QED BY <3>1, <3>3, <3>4
  <2>3. \A i \in 1 .. Len(queue') : queue'[i].kind = "closed" => session'.closed
    BY <1>0 DEF PageInv, RequestShape, PendingShape, streamVars, Written
  <2>4. action'.kind \in {"approve", "deny"} /\ action'.answer = "done"
          => action'.request \notin session'.pending /\ action'.request <= asked'
    BY <2>0, <2>1, <2>2 DEF PageInv, RequestShape, PendingShape, Operated, PageTypes, StreamTypes
  <2> QED BY <2>3, <2>4 DEF RequestShape, PendingShape, Operated
<1>5. /\ \A m \in Messages : TextReaches(m)'
      /\ \A r \in session'.pending : RequestReaches(r)'
  BY <1>0, WrittenReaches DEF PageInv
<1>6. CancelIsNewest'
  <2> SUFFICES ASSUME action'.kind = "cancel", action'.answer = "done",
                      ~action'.overtaken, stream' = "open", held' = Nothing, ~lagged',
                      NEW r \in session'.pending
               PROVE  OwesRequest(r)' \/ ~NoneOf(queue', RequestSetters(r)')
    BY DEF CancelIsNewest
  <2>1. action' = action
    OBVIOUS
  <2>2. RequestSetters(r)' = RequestSetters(r)
    BY DEF RequestSetters
  <2>3. CASE r \in session.pending
    BY <2>1, <2>2, <2>3, <1>0 DEF PageInv, CancelIsNewest, Written, streamVars
  <2>4. CASE r \notin session.pending
    BY <2>4, <1>0 DEF Written
  <2> QED BY <2>3, <2>4
<1>7. PageShape'
  BY <1>0 DEF PageInv, PageShape, streamVars
<1> QED BY <1>1, <1>2, <1>3, <1>4, <1>5, <1>6, <1>7 DEF PageInv

-----------------------------------------------------------------------------
(* What only the page does.                                                *)
LEMMA PageStepKeeps ==
  ASSUME PageInv, UNCHANGED serverVars,
         page' \in {"blank", "syncing", "live", "readOnly", "failed"},
         web' \in Views, submission' \in {"none", "sent", "accepted"},
         action' \in Actions, requests' \in 0 .. MaxRequests,
         page' \in {"blank", "syncing"} => stream = "off",
         action' = action \/ action'.answer = "none",
         \A m \in Messages :
           stream = "open" /\ web \in TextViews(m) => web' \in TextViews(m),
         \A r \in session.pending :
           stream = "open" /\ held = Nothing /\ ~lagged
           /\ NoneOf(queue, RequestSetters(r)) /\ web \in RequestViews(r)
             => web' \in RequestViews(r)
  PROVE  PageInv'
<1>1. /\ session' = session /\ asked' = asked /\ outbox' = outbox /\ stream' = stream
      /\ stage' = stage /\ others' = others
      /\ held' = held /\ queue' = queue /\ lagged' = lagged
  BY DEF serverVars
<1>2. PageTypes'
  BY <1>1 DEF PageInv, PageTypes, StreamTypes
<1>3. OutboxShape'
  BY <1>1 DEF PageInv, OutboxShape
<1>4. StreamShape'
  BY <1>1 DEF PageInv, StreamShape, PageShape
<1>5. RequestShape'
  BY <1>1 DEF PageInv, RequestShape, PendingShape
<1>6. ASSUME NEW m \in Messages PROVE TextReaches(m)'
  <2>1. /\ TextSetters(m)' = TextSetters(m) /\ TextEvents(m)' = TextEvents(m)
        /\ TextViews(m)' = TextViews(m)
        /\ SnapshotsIn(TextEvents(m))' <=> SnapshotsIn(TextEvents(m))
    BY <1>1 DEF TextSetters, TextEvents, TextViews, OwesText, SnapshotsIn
  <2> QED BY <1>1, <2>1 DEF PageInv, TextReaches, Leads
<1>7. ASSUME NEW r \in session'.pending PROVE RequestReaches(r)'
  <2>1. /\ RequestSetters(r)' = RequestSetters(r) /\ RequestEvents(r)' = RequestEvents(r)
        /\ RequestViews(r)' = RequestViews(r)
        /\ SnapshotsIn(RequestEvents(r))' <=> SnapshotsIn(RequestEvents(r))
    BY <1>1 DEF RequestSetters, RequestEvents, RequestViews, OwesRequest, SnapshotsIn
  <2> QED BY <1>1, <2>1 DEF PageInv, RequestReaches, Leads
<1>8. CancelIsNewest'
  BY <1>1 DEF PageInv, CancelIsNewest, RequestSetters, OwesRequest
<1>9. PageShape'
  BY <1>1 DEF PageInv, PageShape
<1> QED BY <1>2, <1>3, <1>4, <1>5, <1>6, <1>7, <1>8, <1>9 DEF PageInv

(* Steps that leave the transcript and the requests shown as they are.     *)
LEMMA ViewsStay ==
  ASSUME PageTypes, web' \in Views,
         web'.text = web.text, web'.missed = web.missed, web'.late = web.late,
         web.pending \subseteq web'.pending
  PROVE  /\ \A m \in Messages : web \in TextViews(m) => web' \in TextViews(m)
         /\ \A r : web \in RequestViews(r) => web' \in RequestViews(r)
BY DEF TextViews, RequestViews, PageTypes, StreamTypes

-----------------------------------------------------------------------------
(* The page: broadcasting.                                                 *)
LEMMA PublishStep ==
  ASSUME PageInv, NEW w \in Writers, Publish(w), UNCHANGED pageVars
  PROVE  PageInv'
<1> PICK e : e = Head(outbox[w])
  OBVIOUS
<1>a. StreamTypes /\ OutboxShape /\ StreamShape
  BY DEF PageInv, PageTypes, StreamTypes
<1>0. /\ session' = session /\ stage' = stage /\ asked' = asked /\ others' = others
      /\ stream' = stream
      /\ page' = page /\ web' = web /\ submission' = submission /\ action' = action
      /\ requests' = requests
  BY DEF Publish, sessionVars, pageVars
<1>1. e \in Events /\ e.kind # "take" /\ outbox' \in [Writers -> Seq(Events)]
      /\ OutboxShape'
  BY <1>a, PublishFacts
<1>2. \A u \in {"action", "other"} : \A i \in 1 .. Len(outbox'[u]) :
        outbox'[u][i].kind = "snapshot" =>
          \/ outbox'[u][i].missed
          \/ u = w /\ \E j \in 1 .. Len(outbox[u]) : outbox'[u][i] = outbox[u][j]
  BY <1>a, PublishFacts
<1>3. w = "agent" \/ (/\ outbox'["agent"] = outbox["agent"]
                      /\ \E i \in 1 .. Len(outbox[w]) : e = outbox[w][i])
  BY <1>a, PublishElsewhere
<1>4. /\ w = "agent" => /\ e.kind \in {"message", "permission", "status"}
                        /\ e.kind = "message" => e.length = session.text[e.message]
      /\ w # "agent" => e.kind \in {"snapshot", "closed"}
      /\ e.kind = "closed" => session.closed
  BY <1>a, PublishFacts
<1>5. \A m \in Messages : /\ OwesText(m)' => OwesText(m)
                          /\ OwesText(m) => \/ OwesText(m)'
                                            \/ e.kind = "message" /\ e.message = m
  BY <1>a, PublishFacts
<1>6. \A r : /\ OwesRequest(r)' => OwesRequest(r)
             /\ OwesRequest(r) => \/ OwesRequest(r)'
                                  \/ e.kind = "permission" /\ e.request = r
  BY <1>a, PublishFacts
<1>7. w = "agent" \/ w \in {"action", "other"}
  BY DEF Writers
<1>8. \A u \in {"action", "other"} : \A i \in 1 .. Len(outbox'[u]) : outbox'[u][i] \in Events
  BY <1>1 DEF Writers
<1>12. /\ StreamTypes' /\ StreamShape' /\ (held' = Nothing <=> held = Nothing)
       /\ \A i \in 1 .. Len(queue') :
            queue'[i] = e \/ \E j \in 1 .. Len(queue) : queue'[i] = queue[j]
  BY <1>a, PublishTypes
<1>13. queue \in Seq(Events) /\ Len(queue) \in Nat
  BY <1>a DEF StreamTypes
<1>14. PageTypes'
  BY <1>0, <1>12 DEF PageInv, PageTypes
<1>15. StreamShape' /\ PageShape'
  BY <1>0, <1>12 DEF PageInv, PageShape
<1>16. RequestShape'
  BY <1>0, <1>4, <1>12 DEF PageInv, RequestShape, PendingShape
<1>17. ASSUME NEW m \in Messages PROVE TextReaches(m)'
  <2> DEFINE S == TextSetters(m)
             G == TextEvents(m)
             K == TextViews(m)
             G2 == TextEvents(m)'
             K2 == TextViews(m)'
  <2>1. TextSetters(m)' = S
    BY DEF TextSetters
  <2>2. Leads(stream, held, queue, lagged, S, G, web, K) /\ SnapshotsIn(G)
    BY DEF PageInv, TextReaches
  <2>3. e \notin S => G \subseteq G2 /\ K \subseteq K2
    BY <1>0, <1>1, <1>5 DEF TextSetters, TextEvents, TextViews
  <2>4. e.kind # "message" => G \subseteq G2
    BY <1>0, <1>5 DEF TextEvents
  <2>5. e \in S => e \in G2
    <3>1. CASE e.kind = "message"
      BY <3>1, <1>0, <1>1, <1>4, <1>7 DEF TextSetters, TextEvents
    <3>2. CASE e.kind = "snapshot"
      BY <3>2, <2>2, <2>4, <1>3, <1>4, <1>7 DEF SnapshotsIn
    <3> QED BY <3>1, <3>2 DEF TextSetters
  <2>6. \A h \in Snapshots : h.missed => h \in G2
    BY SnapshotsAreEvents DEF TextEvents
  <2>7. Leads(stream', held', queue', lagged', S, G2, web, K2)
    <3> HIDE DEF S, G, K, G2, K2
    <3> QED BY <1>a, <1>1, <2>2, <2>3, <2>5, <2>6, LeadsPublished
  <2>8. SnapshotsIn(TextEvents(m))'
    <3> SUFFICES ASSUME NEW u \in {"action", "other"}, NEW i \in 1 .. Len(outbox'[u]),
                        outbox'[u][i].kind = "snapshot"
                 PROVE  outbox'[u][i] \in G2
      BY DEF SnapshotsIn
    <3>1. CASE outbox'[u][i].missed
      BY <3>1, <1>8 DEF TextEvents
    <3>2. CASE u = w /\ \E j \in 1 .. Len(outbox[u]) : outbox'[u][i] = outbox[u][j]
      BY <3>2, <2>2, <2>4, <1>4 DEF SnapshotsIn
    <3> QED BY <3>1, <3>2, <1>2
  <2> QED BY <2>1, <2>7, <2>8, <1>0 DEF TextReaches
<1>18. ASSUME NEW r \in session'.pending PROVE RequestReaches(r)'
  <2> DEFINE S == RequestSetters(r)
             G == RequestEvents(r)
             K == RequestViews(r)
             G2 == RequestEvents(r)'
             K2 == RequestViews(r)'
  <2>0. ~session.closed /\ r \in session.pending
    BY <1>0 DEF PageInv, RequestShape, PendingShape
  <2>1. RequestSetters(r)' = S
    BY DEF RequestSetters
  <2>2. Leads(stream, held, queue, lagged, S, G, web, K) /\ SnapshotsIn(G)
    BY <2>0 DEF PageInv, RequestReaches
  <2>3. e \notin S => G \subseteq G2 /\ K \subseteq K2
    BY <1>0, <1>1, <1>6 DEF RequestSetters, RequestEvents, RequestViews
  <2>4. e.kind # "permission" => G \subseteq G2
    BY <1>0, <1>6 DEF RequestEvents
  <2>5. e \in S => e \in G2
    <3>1. CASE e.kind = "permission"
      BY <3>1, <1>0, <1>1 DEF RequestSetters, RequestEvents
    <3>2. CASE e.kind = "snapshot"
      BY <3>2, <2>2, <2>4, <1>3, <1>4, <1>7 DEF SnapshotsIn
    <3>3. CASE e.kind = "closed"
      BY <3>3, <2>0, <1>4
    <3> QED BY <3>1, <3>2, <3>3 DEF RequestSetters
  <2>6. \A h \in Snapshots : h.missed => h \in G2
    BY SnapshotsAreEvents DEF RequestEvents
  <2>7. Leads(stream', held', queue', lagged', S, G2, web, K2)
    <3> HIDE DEF S, G, K, G2, K2
    <3> QED BY <1>a, <1>1, <2>2, <2>3, <2>5, <2>6, LeadsPublished
  <2>8. SnapshotsIn(RequestEvents(r))'
    <3> SUFFICES ASSUME NEW u \in {"action", "other"}, NEW i \in 1 .. Len(outbox'[u]),
                        outbox'[u][i].kind = "snapshot"
                 PROVE  outbox'[u][i] \in G2
      BY DEF SnapshotsIn
    <3>1. CASE outbox'[u][i].missed
      BY <3>1, <1>8 DEF RequestEvents
    <3>2. CASE u = w /\ \E j \in 1 .. Len(outbox[u]) : outbox'[u][i] = outbox[u][j]
      BY <3>2, <2>2, <2>4, <1>4 DEF SnapshotsIn
    <3> QED BY <3>1, <3>2, <1>2
  <2> QED BY <2>1, <2>7, <2>8, <1>0 DEF RequestReaches
<1>19. CancelIsNewest'
  <2> SUFFICES ASSUME action'.kind = "cancel", action'.answer = "done",
                      ~action'.overtaken, stream' = "open", held' = Nothing, ~lagged',
                      NEW r \in session'.pending
               PROVE  OwesRequest(r)' \/ ~NoneOf(queue', RequestSetters(r)')
    BY DEF CancelIsNewest
  <2>1. RequestSetters(r)' = RequestSetters(r)
    BY DEF RequestSetters
  <2>2. /\ stream = "open" /\ held = Nothing /\ ~lagged
        /\ queue' = Append(queue, e)
    BY <1>0, <1>12 DEF Publish
  <2>6. /\ Len(queue') = Len(queue) + 1 /\ queue'[Len(queue) + 1] = e
        /\ \A i \in 1 .. Len(queue) : queue'[i] = queue[i]
    BY <2>2, <1>1, <1>13
  <2>3. OwesRequest(r) \/ ~NoneOf(queue, RequestSetters(r))
    BY <2>2, <1>0 DEF PageInv, CancelIsNewest
  <2>4. CASE OwesRequest(r) /\ ~OwesRequest(r)'
    <3>1. e \in RequestSetters(r)
      BY <2>4, <1>1, <1>6 DEF RequestSetters
    <3>2. Len(queue) + 1 \in 1 .. Len(queue')
      BY <2>6, <1>13
    <3> QED BY <3>1, <3>2, <2>1, <2>6 DEF NoneOf
  <2>5. CASE ~NoneOf(queue, RequestSetters(r))
    <3>1. \A i \in 1 .. Len(queue) : i \in 1 .. Len(queue') /\ queue'[i] = queue[i]
      BY <2>6, <1>13
    <3> QED BY <3>1, <2>1, <2>5 DEF NoneOf
  <2> QED BY <2>3, <2>4, <2>5
<1> QED BY <1>1, <1>14, <1>15, <1>16, <1>17, <1>18, <1>19 DEF PageInv

-----------------------------------------------------------------------------
(* The stream and what it delivers.                                        *)

LEMMA StreamStepKeeps ==
  ASSUME PageInv, UNCHANGED sessionVars, outbox' = outbox,
         PageTypes', StreamShape', PageShape', CancelIsNewest',
         action'.kind = action.kind, action'.answer = action.answer,
         action'.request = action.request,
         \A i \in 1 .. Len(queue') : \E j \in 1 .. Len(queue) : queue'[i] = queue[j],
         \A m \in Messages :
           Leads(stream', held', queue', lagged', TextSetters(m), TextEvents(m), web',
                 TextViews(m)),
         \A r \in session.pending :
           Leads(stream', held', queue', lagged', RequestSetters(r), RequestEvents(r), web',
                 RequestViews(r))
  PROVE  PageInv'
<1>1. session' = session /\ asked' = asked
  BY DEF sessionVars
<1>2. OutboxShape'
  BY <1>1 DEF PageInv, OutboxShape
<1>3. RequestShape'
  BY <1>1 DEF PageInv, RequestShape, PendingShape
<1>4. ASSUME NEW m \in Messages PROVE TextReaches(m)'
  <2>1. /\ TextSetters(m)' = TextSetters(m) /\ TextEvents(m)' = TextEvents(m)
        /\ TextViews(m)' = TextViews(m)
        /\ SnapshotsIn(TextEvents(m))' <=> SnapshotsIn(TextEvents(m))
    BY <1>1 DEF TextSetters, TextEvents, TextViews, OwesText, SnapshotsIn
  <2> QED BY <2>1 DEF PageInv, TextReaches
<1>5. ASSUME NEW r \in session'.pending PROVE RequestReaches(r)'
  <2>1. /\ RequestSetters(r)' = RequestSetters(r) /\ RequestEvents(r)' = RequestEvents(r)
        /\ RequestViews(r)' = RequestViews(r)
        /\ SnapshotsIn(RequestEvents(r))' <=> SnapshotsIn(RequestEvents(r))
    BY <1>1 DEF RequestSetters, RequestEvents, RequestViews, OwesRequest, SnapshotsIn
  <2> QED BY <1>1, <2>1 DEF PageInv, RequestReaches
<1> QED BY <1>2, <1>3, <1>4, <1>5 DEF PageInv

(* A snapshot of now tells every fact right.                               *)
LEMMA SnapshotTellsAll ==
  ASSUME PageInv
  PROVE  /\ Snapshot \in Snapshots /\ Snapshot # Nothing
         /\ \A m \in Messages : Snapshot \in TextEvents(m)
         /\ \A r \in session.pending : Snapshot \in RequestEvents(r)
<1>1. session \in Sessions
  BY DEF PageInv, PageTypes, StreamTypes
<1>2. /\ Snapshot \in Snapshots /\ Snapshot \in Events
      /\ Snapshot.kind = "snapshot" /\ Snapshot # Nothing
      /\ Snapshot.text = session.text /\ Snapshot.pending = session.pending
  BY <1>1, SnapshotFacts
<1> QED BY <1>2 DEF TextEvents, RequestEvents

LEMMA ConnectStep ==
  ASSUME PageInv, Connect, UNCHANGED pageVars
  PROVE  PageInv'
<1> DEFINE q == <<>>
<1>1. /\ stream' = "snapped" /\ held' = Snapshot /\ queue' = q /\ lagged' = FALSE
      /\ lagged' = lagged /\ queue' = queue
      /\ UNCHANGED sessionVars /\ outbox' = outbox
      /\ page' = page /\ web' = web /\ submission' = submission /\ action' = action
      /\ requests' = requests /\ stream = "down"
  BY DEF Connect, PageInv, StreamShape, PageShape, pageVars
<1>2. PageTypes'
  BY <1>1, SnapshotTellsAll DEF PageInv, PageTypes, StreamTypes, sessionVars
<1>3. StreamShape' /\ PageShape'
  BY <1>1, SnapshotTellsAll DEF PageInv, StreamShape, PageShape
<1>4. CancelIsNewest'
  BY <1>1 DEF CancelIsNewest
<1>5. q \in Seq(Events) /\ \A S, G : LastIsGood(q, S, G)
  BY DEF LastIsGood
<1> HIDE DEF q
<1>6. \A m \in Messages :
        Leads(stream', held', queue', lagged', TextSetters(m), TextEvents(m), web',
              TextViews(m))
  BY <1>1, <1>5, SnapshotTellsAll DEF Leads
<1>7. \A r \in session.pending :
        Leads(stream', held', queue', lagged', RequestSetters(r), RequestEvents(r), web',
              RequestViews(r))
  BY <1>1, <1>5, SnapshotTellsAll DEF Leads
<1> QED BY <1>1, <1>2, <1>3, <1>4, <1>6, <1>7, StreamStepKeeps

LEMMA SubscribeStep ==
  ASSUME PageInv, Subscribe, UNCHANGED pageVars
  PROVE  PageInv'
<1>1. /\ stream' = "open" /\ held' = held /\ queue' = queue /\ lagged' = lagged
      /\ UNCHANGED sessionVars /\ outbox' = outbox
      /\ page' = page /\ web' = web /\ submission' = submission /\ action' = action
      /\ requests' = requests /\ stream = "snapped" /\ held # Nothing
  BY DEF Subscribe, PageInv, StreamShape, PageShape, pageVars
<1>2. PageTypes'
  BY <1>1 DEF PageInv, PageTypes, StreamTypes, sessionVars
<1>3. StreamShape' /\ PageShape'
  BY <1>1 DEF PageInv, StreamShape, PageShape
<1>4. CancelIsNewest'
  BY <1>1 DEF CancelIsNewest
<1>5. \A S, G, K : Leads(stream, held, queue, lagged, S, G, web, K)
                     => Leads(stream', held', queue', lagged', S, G, web', K)
  BY <1>1 DEF Leads
<1>6. \A m \in Messages :
        Leads(stream', held', queue', lagged', TextSetters(m), TextEvents(m), web',
              TextViews(m))
  BY <1>5 DEF PageInv, TextReaches
<1>7. \A r \in session.pending :
        Leads(stream', held', queue', lagged', RequestSetters(r), RequestEvents(r), web',
              RequestViews(r))
  BY <1>5 DEF PageInv, RequestReaches
<1> QED BY <1>1, <1>2, <1>3, <1>4, <1>6, <1>7, StreamStepKeeps

LEMMA ResyncStep ==
  ASSUME PageInv, Resync, UNCHANGED pageVars
  PROVE  PageInv'
<1>1. /\ stream' = "open" /\ held' = Snapshot /\ queue' = queue /\ lagged' = FALSE
      /\ UNCHANGED sessionVars /\ outbox' = outbox /\ stream = "open"
      /\ page' = page /\ web' = web /\ submission' = submission /\ action' = action
      /\ requests' = requests
  BY DEF Resync, pageVars
<1>2. PageTypes'
  BY <1>1, SnapshotTellsAll DEF PageInv, PageTypes, StreamTypes, sessionVars
<1>3. StreamShape' /\ PageShape'
  BY <1>1 DEF PageInv, StreamShape, PageShape
<1>4. CancelIsNewest'
  BY <1>1, SnapshotTellsAll DEF CancelIsNewest
<1>5. queue \in Seq(Events)
  BY DEF PageInv, PageTypes, StreamTypes
<1>6. \A S, G, K : Leads(stream, held, queue, lagged, S, G, web, K) /\ Snapshot \in G
                     => Leads(stream', held', queue', lagged', S, G, web', K)
  BY <1>1, SnapshotTellsAll DEF Leads
<1>7. \A m \in Messages :
        Leads(stream', held', queue', lagged', TextSetters(m), TextEvents(m), web',
              TextViews(m))
  BY <1>6, SnapshotTellsAll DEF PageInv, TextReaches
<1>8. \A r \in session.pending :
        Leads(stream', held', queue', lagged', RequestSetters(r), RequestEvents(r), web',
              RequestViews(r))
  BY <1>6, SnapshotTellsAll DEF PageInv, RequestReaches
<1> QED BY <1>1, <1>2, <1>3, <1>4, <1>7, <1>8, StreamStepKeeps

(* The stream ends, breaks, or is started again: nothing is on its way.    *)
LEMMA EndedStep ==
  ASSUME PageInv, Unsubscribed(stream'), stream' \in {"down", "ended"},
         UNCHANGED sessionVars, outbox' = outbox,
         page' \in {"live", "readOnly", "failed"}, web' \in Views, submission' = submission,
         requests' \in 0 .. MaxRequests, action' \in Actions,
         action'.kind = action.kind, action'.answer = action.answer,
         action'.request = action.request
  PROVE  PageInv'
<1> DEFINE q == <<>>
<1>1. held' = Nothing /\ queue' = q /\ lagged' = FALSE
  BY DEF Unsubscribed
<1>2. PageTypes'
  <2>1. queue' \in Seq(Events) /\ Len(queue') = 0 /\ 0 <= Capacity
    BY <1>1, StreamAssumption
  <2>2. /\ session' = session /\ stage' = stage /\ asked' = asked /\ others' = others
        /\ stream' \in {"off", "down", "snapped", "open", "ended"}
        /\ Len(queue') <= Capacity /\ \A i \in 1 .. Len(queue') : queue'[i].kind # "take"
    BY <2>1 DEF sessionVars
  <2> HIDE DEF q
  <2> QED BY <1>1, <2>1, <2>2 DEF PageInv, PageTypes, StreamTypes
<1>3. StreamShape' /\ PageShape'
  BY <1>1 DEF PageInv, StreamShape, PageShape
<1>4. CancelIsNewest'
  BY DEF CancelIsNewest
<1>5. \A i \in 1 .. Len(queue') : \E j \in 1 .. Len(queue) : queue'[i] = queue[j]
  <2>1. Len(queue') = 0
    BY <1>1
  <2> QED BY <2>1
<1>6. \A S, G, K : Leads(stream', held', queue', lagged', S, G, web', K)
  BY <1>1, LeadsNowhere
<1> QED BY <1>2, <1>3, <1>4, <1>5, <1>6, StreamStepKeeps

LEMMA HandleSseEventStep ==
  ASSUME PageInv, HandleSseEvent
  PROVE  PageInv'
<1> DEFINE v == Reduced(web, Item)
<1>1. /\ web' = v /\ page' = page /\ submission' = submission /\ requests' = requests
      /\ UNCHANGED sessionVars /\ outbox' = outbox
      /\ action' = [action EXCEPT !.overtaken = @ \/ action.answer = "done"]
      /\ stream = "open" /\ HasItem
      /\ IF web'.status = "closed"
           THEN Unsubscribed("ended")
           ELSE /\ held' = Nothing /\ stream' = stream /\ lagged' = lagged
                /\ queue' = IF held # Nothing THEN queue ELSE Tail(queue)
  BY DEF HandleSseEvent, Deliver, HasItem
<1>2. /\ web \in Views /\ queue \in Seq(Events) /\ action \in Actions
      /\ held \in Snapshots \cup {Nothing}
      /\ \A i \in 1 .. Len(queue) : queue[i].kind # "take"
  BY DEF PageInv, PageTypes, StreamTypes
<1>3. Item \in Events /\ Item.kind # "take" /\ (held # Nothing => Item.kind = "snapshot")
  <2>1. CASE held # Nothing
    BY <2>1, <1>2, SnapshotsAreEvents DEF Item
  <2>2. CASE held = Nothing
    <3>1. queue # <<>> /\ Item = Head(queue)
      BY <2>2, <1>1 DEF HasItem, Item
    <3>2. Head(queue) = queue[1] /\ 1 \in 1 .. Len(queue) /\ Head(queue) \in Events
      BY <3>1, <1>2
    <3> QED BY <2>2, <3>1, <3>2, <1>2
  <2> QED BY <2>1, <2>2
<1>4. v \in Views
  BY <1>2, <1>3, ReducedFacts
<1>5. /\ action' \in Actions /\ action'.kind = action.kind
      /\ action'.answer = action.answer /\ action'.request = action.request
  BY <1>1, <1>2 DEF Actions
<1>6. action.answer = "done" => action'.overtaken
  BY <1>1, <1>2 DEF Actions
<1>7. CASE web'.status = "closed"
  <2>1. stream' = "ended" /\ Unsubscribed(stream')
    BY <1>1, <1>7 DEF Unsubscribed
  <2> HIDE DEF v
  <2>2. requests' \in 0 .. MaxRequests /\ page' \in {"live", "readOnly", "failed"}
    BY <1>1 DEF PageInv, PageTypes, StreamTypes, StreamShape, PageShape
  <2> QED BY <1>1, <1>4, <1>5, <2>1, <2>2, EndedStep
<1>8. CASE web'.status # "closed"
  <2>1. /\ held' = Nothing /\ stream' = "open" /\ lagged' = lagged
        /\ queue' = IF held # Nothing THEN queue ELSE Tail(queue)
    BY <1>1, <1>8
  <2>2. held = Nothing => /\ queue # <<>> /\ ~lagged /\ Item = Head(queue)
    BY <1>1 DEF HasItem, Item
  <2>3. held # Nothing => Item = held
    BY DEF Item
  <2>4. /\ queue' \in Seq(Events) /\ Len(queue') <= Len(queue)
        /\ \A i \in 1 .. Len(queue') : \E j \in 1 .. Len(queue) : queue'[i] = queue[j]
    <3>1. CASE held # Nothing
      <4>1. queue' = queue /\ Len(queue) \in Nat
        BY <2>1, <3>1, <1>2
      <4> QED BY <4>1, <1>2
    <3>2. CASE held = Nothing
      <4>1. /\ queue' \in Seq(Events) /\ Len(queue') = Len(queue) - 1
            /\ Len(queue) \in Nat
            /\ \A i \in 1 .. Len(queue') : queue'[i] = queue[i + 1] /\ i + 1 \in 1 .. Len(queue)
        BY <2>1, <2>2, <3>2, <1>2
      <4> QED BY <4>1
    <3> QED BY <3>1, <3>2
  <2>5. PageTypes'
    <3>1. Len(queue') <= Capacity
      <4>1. Len(queue) <= Capacity /\ Capacity \in Nat
        BY StreamAssumption DEF PageInv, PageTypes, StreamTypes
      <4>2. Len(queue') \in Nat /\ Len(queue) \in Nat
        BY <1>2, <2>4
      <4> QED BY <2>4, <4>1, <4>2
    <3> HIDE DEF v
    <3> QED BY <1>1, <1>2, <1>4, <1>5, <2>1, <2>4, <3>1
            DEF PageInv, PageTypes, StreamTypes, sessionVars
  <2>6. StreamShape' /\ PageShape'
    BY <1>1, <2>1 DEF PageInv, StreamShape, PageShape
  <2>7. CancelIsNewest'
    BY <1>5, <1>6 DEF CancelIsNewest
  <2>8. ASSUME NEW S, NEW G, NEW K,
               Leads(stream, held, queue, lagged, S, G, web, K),
               Item.kind = "snapshot" => Item \in S,
               Item \in S /\ Item \in G => v \in K,
               Item \notin S /\ web \in K => v \in K
        PROVE  Leads(stream', held', queue', lagged', S, G, web', K)
    <3> HIDE DEF v
    <3>1. CASE held # Nothing
      <4>1. Item = held /\ held \in S /\ (held \in G => v \in K)
        BY <2>3, <2>8, <3>1, <1>3
      <4>2. Leads("open", held, queue, lagged, S, G, web, K)
        BY <2>8, <1>1
      <4>3. Leads("open", Nothing, queue, lagged, S, G, v, K)
        BY <4>1, <4>2, <3>1, LeadsAfterHeld
      <4> QED BY <4>3, <2>1, <3>1, <1>1
    <3>2. CASE held = Nothing
      <4>1. Leads("open", Nothing, queue, FALSE, S, G, web, K) /\ lagged' = FALSE
        <5>1. lagged = FALSE
          BY <2>2, <3>2 DEF PageInv, PageTypes, StreamTypes
        <5> QED BY <5>1, <2>1, <2>8, <3>2, <1>1
      <4>2. /\ queue # <<>>
            /\ Head(queue) \in S /\ Head(queue) \in G => v \in K
            /\ Head(queue) \notin S /\ web \in K => v \in K
        BY <2>2, <2>8, <3>2
      <4>3. Leads("open", Nothing, Tail(queue), FALSE, S, G, v, K)
        BY <4>1, <4>2, <1>2, LeadsAfterHead
      <4> QED BY <4>1, <4>3, <2>1, <3>2, <1>1
    <3> QED BY <3>1, <3>2
  <2>9. ASSUME NEW m \in Messages
        PROVE  Leads(stream', held', queue', lagged', TextSetters(m), TextEvents(m), web',
                     TextViews(m))
    <3>1. Item.kind = "snapshot" => Item \in TextSetters(m)
      BY <1>3 DEF TextSetters
    <3>2. Item \in TextSetters(m) /\ Item \in TextEvents(m) => v \in TextViews(m)
      <4>1. CASE Item.kind = "snapshot"
        <5>1. v.text = Item.text /\ v.missed = Item.missed
          BY <4>1, <1>2, <1>3, ReducedFacts
        <5> HIDE DEF v
        <5> QED BY <4>1, <5>1, <1>4 DEF TextEvents, TextViews
      <4>2. CASE Item.kind = "message" /\ Item.message = m
        <5>1. v.text = [web.text EXCEPT ![m] = Item.length]
          BY <4>2, <1>2, <1>3, ReducedFacts
        <5>2. v.text[m] = Item.length
          BY <5>1, <1>2 DEF Views
        <5> HIDE DEF v
        <5> QED BY <4>2, <5>2, <1>4 DEF TextEvents, TextViews
      <4> QED BY <4>1, <4>2 DEF TextSetters
    <3>3. Item \notin TextSetters(m) /\ web \in TextViews(m) => v \in TextViews(m)
      <4> SUFFICES ASSUME Item \notin TextSetters(m), web \in TextViews(m)
                   PROVE  v \in TextViews(m)
        OBVIOUS
      <4>1. Item.kind # "snapshot" /\ (Item.kind = "message" => Item.message # m)
        BY <1>3 DEF TextSetters
      <4>2. v.missed = web.missed
        BY <4>1, <1>2, <1>3, ReducedFacts
      <4>3. v.text[m] = web.text[m]
        <5>1. CASE Item.kind = "message"
          <6>1. v.text = [web.text EXCEPT ![Item.message] = Item.length]
            BY <5>1, <1>2, <1>3, ReducedFacts
          <6> QED BY <6>1, <5>1, <4>1, <1>2 DEF Views
        <5>2. CASE Item.kind # "message"
          BY <5>2, <4>1, <1>2, <1>3, ReducedFacts
        <5> QED BY <5>1, <5>2
      <4> HIDE DEF v
      <4> QED BY <4>2, <4>3, <1>4 DEF TextViews
    <3>4. Leads(stream, held, queue, lagged, TextSetters(m), TextEvents(m), web, TextViews(m))
      BY DEF PageInv, TextReaches
    <3> HIDE DEF v
    <3> QED BY <2>8, <3>1, <3>2, <3>3, <3>4
  <2>10. ASSUME NEW r \in session.pending
         PROVE  Leads(stream', held', queue', lagged', RequestSetters(r), RequestEvents(r),
                      web', RequestViews(r))
    <3>1. Item.kind = "snapshot" => Item \in RequestSetters(r)
      BY <1>3 DEF RequestSetters
    <3>2. Item \in RequestSetters(r) /\ Item \in RequestEvents(r) => v \in RequestViews(r)
      <4>0. CASE OwesRequest(r)
        BY <4>0, <1>4 DEF RequestViews
      <4>1. CASE Item.kind = "snapshot"
        <5>1. v.pending = Item.pending /\ v.missed = Item.missed
          BY <4>1, <1>2, <1>3, ReducedFacts
        <5> HIDE DEF v
        <5> QED BY <4>1, <5>1, <1>4 DEF RequestEvents, RequestViews
      <4>2. CASE Item.kind = "permission" /\ Item.request = r
        <5>1. v.pending = web.pending \cup {Item.request}
          BY <4>2, <1>2, <1>3, ReducedFacts
        <5> HIDE DEF v
        <5> QED BY <4>2, <5>1, <1>4 DEF RequestViews
      <4>3. CASE Item.kind = "closed" /\ ~OwesRequest(r)
        BY <4>3 DEF RequestEvents
      <4> QED BY <4>0, <4>1, <4>2, <4>3 DEF RequestSetters
    <3>3. Item \notin RequestSetters(r) /\ web \in RequestViews(r) => v \in RequestViews(r)
      <4> SUFFICES ASSUME Item \notin RequestSetters(r), web \in RequestViews(r)
                   PROVE  v \in RequestViews(r)
        OBVIOUS
      <4>1. Item.kind \in {"message", "permission", "status"}
        BY <1>3, EventFacts DEF RequestSetters
      <4>2. v.missed = web.missed /\ v.late = web.late
        BY <4>1, <1>2, <1>3, ReducedFacts
      <4>3. web.pending \subseteq v.pending
        BY <4>1, <1>2, <1>3, ReducedFacts
      <4> HIDE DEF v
      <4> QED BY <4>2, <4>3, <1>4 DEF RequestViews
    <3>4. Leads(stream, held, queue, lagged, RequestSetters(r), RequestEvents(r), web,
                RequestViews(r))
      BY DEF PageInv, RequestReaches
    <3> HIDE DEF v
    <3> QED BY <2>8, <3>1, <3>2, <3>3, <3>4
  <2> HIDE DEF v
  <2> QED BY <1>1, <1>5, <2>4, <2>5, <2>6, <2>7, <2>9, <2>10, StreamStepKeeps
<1> QED BY <1>7, <1>8

LEMMA RefusedStep ==
  ASSUME PageInv, Refused, UNCHANGED pageVars
  PROVE  PageInv'
<1>1. /\ page' = page /\ web' = web /\ submission' = submission /\ action' = action
      /\ requests' = requests /\ UNCHANGED sessionVars /\ outbox' = outbox
      /\ stream = "down" /\ stream' = "ended"
      /\ held' = held /\ queue' = queue /\ lagged' = lagged
  BY DEF Refused, pageVars
<1>2. Unsubscribed(stream') /\ page' \in {"live", "readOnly", "failed"}
  BY <1>1 DEF Unsubscribed, PageInv, StreamShape, PageShape, PageTypes, StreamTypes
<1>3. web' \in Views /\ requests' \in 0 .. MaxRequests /\ action' \in Actions
  BY <1>1 DEF PageInv, PageTypes, StreamTypes
<1> QED BY <1>1, <1>2, <1>3, EndedStep

LEMMA DisconnectedStep ==
  ASSUME PageInv, Disconnected
  PROVE  PageInv'
<1>1. /\ page' = page /\ web' = web /\ submission' = submission /\ action' = action
      /\ UNCHANGED sessionVars /\ outbox' = outbox
      /\ stream \in {"snapped", "open"} /\ stream' = "down" /\ Unsubscribed(stream')
  BY DEF Disconnected, Disconnect, Unsubscribed
<1>2. requests' \in 0 .. MaxRequests
  BY PageAssumption DEF Disconnected, PageInv, PageTypes, StreamTypes
<1>3. /\ page' \in {"live", "readOnly", "failed"}
      /\ web' \in Views /\ action' \in Actions
  BY <1>1 DEF PageInv, PageTypes, StreamTypes, StreamShape, PageShape
<1> QED BY <1>1, <1>2, <1>3, EndedStep

LEMMA SpawnSessionStreamStep ==
  ASSUME PageInv, SpawnSessionStream
  PROVE  PageInv'
<1>1. /\ page' = "live" /\ web' = web /\ submission' = submission /\ action' = action
      /\ requests' = requests /\ UNCHANGED sessionVars /\ outbox' = outbox
      /\ page = "syncing" /\ stream' = "down"
      /\ held' = held /\ queue' = queue /\ lagged' = lagged
  BY DEF SpawnSessionStream
<1>2. Unsubscribed(stream')
  BY <1>1 DEF Unsubscribed, PageInv, StreamShape, PageShape
<1>3. web' \in Views /\ requests' \in 0 .. MaxRequests /\ action' \in Actions
  BY <1>1 DEF PageInv, PageTypes, StreamTypes
<1> QED BY <1>1, <1>2, <1>3, EndedStep

-----------------------------------------------------------------------------
(* The page's own steps.                                                   *)

(* The session is loaded before there is a stream.                         *)
LEMMA LoadSteps ==
  ASSUME PageInv, LoadFails \/ LoadSession
  PROVE  PageInv'
<1>1. /\ UNCHANGED serverVars /\ submission' = submission /\ action' = action
      /\ requests' = requests /\ page = "blank"
      /\ page' \in {"failed", "readOnly", "syncing"}
  BY DEF LoadFails, LoadSession
<1>2. stream = "off"
  BY <1>1 DEF PageInv, StreamShape, PageShape
<1>3. /\ web \in Views /\ session \in Sessions
      /\ submission \in {"none", "sent", "accepted"} /\ action \in Actions
      /\ requests \in 0 .. MaxRequests
  BY DEF PageInv, PageTypes, StreamTypes
<1>4. web' \in Views
  <2>1. CASE LoadFails
    BY <2>1, <1>3 DEF LoadFails, Views, TurnStates
  <2>2. CASE LoadSession
    <3>1. TurnStateForSnapshot(Snapshot) \in TurnStates
      BY DEF TurnStateForSnapshot, TurnStates
    <3>2. StatusLabel(session.closed) \in {"active", "closed"}
      BY DEF StatusLabel
    <3> QED BY <2>2, <3>1, <3>2, <1>3 DEF LoadSession, Views, Sessions
  <2> QED BY <2>1, <2>2
<1> QED BY <1>1, <1>2, <1>3, <1>4, PageStepKeeps

(* What changes neither the transcript nor the requests that are shown.    *)
LEMMA QuietSteps ==
  ASSUME PageInv, UNCHANGED serverVars, page' = page, web' \in Views,
         submission' \in {"none", "sent", "accepted"}, action' \in Actions,
         requests' \in 0 .. MaxRequests,
         action' = action \/ action'.answer = "none",
         web'.text = web.text, web'.missed = web.missed, web'.late = web.late,
         web.pending \subseteq web'.pending
  PROVE  PageInv'
<1>1. /\ \A m \in Messages : web \in TextViews(m) => web' \in TextViews(m)
      /\ \A r : web \in RequestViews(r) => web' \in RequestViews(r)
  BY ViewsStay DEF PageInv
<1>2. /\ page' \in {"blank", "syncing", "live", "readOnly", "failed"}
      /\ page' \in {"blank", "syncing"} => stream = "off"
  BY DEF PageInv, PageTypes, StreamTypes, StreamShape, PageShape
<1> QED BY <1>1, <1>2, PageStepKeeps

(* A step that changes the page's turn, and maybe whether it is busy.      *)
LEMMA TurnChanged ==
  ASSUME web \in Views, NEW t \in TurnStates, NEW b \in BOOLEAN,
         web' = [web EXCEPT !.turn = t, !.busy = b]
  PROVE  /\ web' \in Views /\ web'.text = web.text /\ web'.missed = web.missed
         /\ web'.late = web.late /\ web'.pending = web.pending
BY DEF Views

LEMMA PromptSteps ==
  ASSUME PageInv, SendPrompt \/ PromptAnswered \/ PromptFailed
  PROVE  PageInv'
<1>1. /\ UNCHANGED serverVars /\ page' = page /\ action' = action
      /\ submission' \in {"none", "sent"}
      /\ requests' = requests \/ (requests < MaxRequests /\ requests' = requests + 1)
  BY DEF SendPrompt, PromptAnswered, PromptFailed
<1>2. /\ web \in Views /\ action \in Actions /\ requests \in 0 .. MaxRequests
  BY DEF PageInv, PageTypes, StreamTypes
<1>3. PICK t \in TurnStates : web' = [web EXCEPT !.turn = t]
  BY DEF SendPrompt, PromptAnswered, PromptFailed, TurnStates
<1>4. /\ web' \in Views /\ web'.text = web.text /\ web'.missed = web.missed
      /\ web'.late = web.late /\ web'.pending = web.pending
  BY <1>2, <1>3 DEF Views
<1>5. requests' \in 0 .. MaxRequests
  BY <1>1, <1>2, PageAssumption
<1> QED BY <1>1, <1>2, <1>4, <1>5, QuietSteps

LEMMA AskingSteps ==
  ASSUME PageInv,
         \/ \E k \in {"approve", "deny"}, r \in Permissions : Decide(k, r)
         \/ BeginCancelTurn
  PROVE  PageInv'
<1>1. /\ web \in Views /\ submission \in {"none", "sent", "accepted"}
      /\ requests \in 0 .. MaxRequests /\ web.turn \in TurnStates
  BY DEF PageInv, PageTypes, StreamTypes, Views
<1>2. /\ UNCHANGED serverVars /\ page' = page /\ submission' = submission
      /\ requests < MaxRequests /\ requests' = requests + 1
  BY DEF Decide, BeginCancelTurn
<1>3. action' \in Actions /\ action'.answer = "none"
  BY <1>1 DEF Decide, BeginCancelTurn, Actions, NoAction, TurnStates
<1>4. PICK t \in TurnStates : web' = [web EXCEPT !.turn = t, !.busy = TRUE]
  <2>1. CASE BeginCancelTurn
    <3>1. web' = [web EXCEPT !.turn = "cancelling", !.busy = TRUE]
      BY <2>1, <1>1 DEF BeginCancelTurn, Views
    <3> QED BY <3>1 DEF TurnStates
  <2>2. CASE \E k \in {"approve", "deny"}, r \in Permissions : Decide(k, r)
    <3>1. web' = [web EXCEPT !.busy = TRUE]
      BY <2>2 DEF Decide
    <3>2. web' = [web EXCEPT !.turn = web.turn, !.busy = TRUE]
      BY <3>1, <1>1 DEF Views
    <3> QED BY <3>2, <1>1
  <2> QED BY <2>1, <2>2
<1>5. /\ web' \in Views /\ web'.text = web.text /\ web'.missed = web.missed
      /\ web'.late = web.late /\ web'.pending = web.pending
  BY <1>1, <1>4, TurnChanged
<1>6. requests' \in 0 .. MaxRequests
  BY <1>1, <1>2, PageAssumption
<1> QED BY <1>1, <1>2, <1>3, <1>5, <1>6, QuietSteps

LEMMA ActionAbandonedStep ==
  ASSUME PageInv, ActionAbandoned
  PROVE  PageInv'
<1>1. /\ web \in Views /\ submission \in {"none", "sent", "accepted"}
      /\ requests \in 0 .. MaxRequests /\ web.turn \in TurnStates
      /\ action.previous \in TurnStates
  BY DEF PageInv, PageTypes, StreamTypes, Views, Actions
<1>2. /\ UNCHANGED serverVars /\ page' = page /\ submission' = submission
      /\ requests' = requests /\ action' = NoAction
  BY DEF ActionAbandoned
<1>3. action' \in Actions /\ action'.answer = "none"
  BY <1>2 DEF Actions, NoAction, TurnStates
<1> DEFINE t == IF action.kind = "cancel" /\ web.turn = "cancelling"
                  THEN action.previous ELSE web.turn
<1>4. t \in TurnStates /\ web' = [web EXCEPT !.turn = t, !.busy = FALSE]
  BY <1>1 DEF ActionAbandoned, Views
<1>5. /\ web' \in Views /\ web'.text = web.text /\ web'.missed = web.missed
      /\ web'.late = web.late /\ web'.pending = web.pending
  <2> HIDE DEF t
  <2> QED BY <1>1, <1>4, TurnChanged
<1> QED BY <1>1, <1>2, <1>3, <1>5, QuietSteps

(* A decided request is not pending any more: the page forgets it.         *)
LEMMA DecisionAnsweredStep ==
  ASSUME PageInv, DecisionAnswered
  PROVE  PageInv'
<1>1. /\ web \in Views /\ submission \in {"none", "sent", "accepted"}
      /\ requests \in 0 .. MaxRequests
  BY DEF PageInv, PageTypes, StreamTypes
<1>2. /\ UNCHANGED serverVars /\ page' = page /\ submission' = submission
      /\ requests' = requests /\ action' = NoAction
  BY DEF DecisionAnswered
<1>3. action' \in Actions /\ action'.answer = "none"
  BY <1>2 DEF Actions, NoAction, TurnStates
<1>4. action.request \notin session.pending
  BY DEF DecisionAnswered, PageInv, RequestShape, PendingShape
<1>5. /\ web' \in Views /\ web'.text = web.text /\ web'.missed = web.missed
      /\ web'.late = web.late /\ web'.pending = web.pending \ {action.request}
  BY <1>1 DEF DecisionAnswered, Views, TurnStates
<1>6. \A m \in Messages : web \in TextViews(m) => web' \in TextViews(m)
  BY <1>5 DEF TextViews
<1>7. \A r \in session.pending : web \in RequestViews(r) => web' \in RequestViews(r)
  BY <1>4, <1>5 DEF RequestViews
<1>8. /\ page' \in {"blank", "syncing", "live", "readOnly", "failed"}
      /\ page' \in {"blank", "syncing"} => stream = "off"
  BY <1>2 DEF PageInv, PageTypes, StreamTypes, StreamShape, PageShape
<1> QED BY <1>1, <1>2, <1>3, <1>5, <1>6, <1>7, <1>8, PageStepKeeps

(* The page forgets every request: those that are pending again have their *)
(* event still to come, or the response is late.                           *)
LEMMA CancelAnsweredStep ==
  ASSUME PageInv, CancelAnswered
  PROVE  PageInv'
<1>1. /\ web \in Views /\ submission \in {"none", "sent", "accepted"}
      /\ requests \in 0 .. MaxRequests /\ action.overtaken \in BOOLEAN
  BY DEF PageInv, PageTypes, StreamTypes, Actions
<1>2. /\ UNCHANGED serverVars /\ page' = page /\ submission' = submission
      /\ requests' = requests /\ action' = NoAction
      /\ action.kind = "cancel" /\ action.answer = "done"
  BY DEF CancelAnswered
<1>3. action' \in Actions /\ action'.answer = "none"
  BY <1>2 DEF Actions, NoAction, TurnStates
<1>5. /\ web' \in Views /\ web'.text = web.text /\ web'.missed = web.missed
      /\ web'.late <=> (web.late \/ action.overtaken)
  BY <1>1 DEF CancelAnswered, Views, TurnStates
<1>6. \A m \in Messages : web \in TextViews(m) => web' \in TextViews(m)
  BY <1>5 DEF TextViews
<1>7. ASSUME NEW r \in session.pending, stream = "open", held = Nothing, ~lagged,
             NoneOf(queue, RequestSetters(r))
      PROVE  web' \in RequestViews(r)
  <2>1. CASE action.overtaken
    BY <2>1, <1>5 DEF RequestViews
  <2>2. CASE ~action.overtaken
    <3>1. OwesRequest(r)
      BY <2>2, <1>2, <1>7 DEF PageInv, CancelIsNewest
    <3> QED BY <3>1, <1>5 DEF RequestViews
  <2> QED BY <2>1, <2>2
<1>8. /\ page' \in {"blank", "syncing", "live", "readOnly", "failed"}
      /\ page' \in {"blank", "syncing"} => stream = "off"
  BY <1>2 DEF PageInv, PageTypes, StreamTypes, StreamShape, PageShape
<1> QED BY <1>1, <1>2, <1>3, <1>5, <1>6, <1>7, <1>8, PageStepKeeps

LEMMA PromptAcceptedStep ==
  ASSUME PageInv, PromptAccepted
  PROVE  PageInv'
<1>1. /\ web' = web /\ page' = page /\ submission' = "accepted" /\ requests' = requests
      /\ action' = action /\ others' = others
  BY DEF PromptAccepted
<1>2. PICK p \in Prompts : SubmitPrompt(p)
  BY DEF PromptAccepted
<1>3. others' \in 0 .. MaxOthers /\ action' \in Actions
  BY <1>1 DEF PageInv, PageTypes, StreamTypes
<1>4. Operated
  BY <1>2, <1>3, SubmitStep DEF PageInv, PageTypes, RequestShape
<1> QED BY <1>1, <1>3, <1>4, OperatedKeeps

LEMMA DecisionTakenStep ==
  ASSUME PageInv, DecisionTaken
  PROVE  PageInv'
<1> PICK r : r = action.request
  OBVIOUS
<1>1. /\ web' = web /\ page' = page /\ submission' = submission /\ requests' = requests
      /\ others' = others /\ action' = [action EXCEPT !.answer = "done"]
      /\ action.kind \in {"approve", "deny"} /\ ResolvePermission("action", r)
  BY DEF DecisionTaken, Outstanding
<1>2. /\ others' \in 0 .. MaxOthers /\ action \in Actions
      /\ submission' \in {"none", "sent", "accepted"}
  BY <1>1 DEF PageInv, PageTypes, StreamTypes
<1>3. /\ action' \in Actions /\ action'.kind = action.kind /\ action'.request = r
  BY <1>1, <1>2 DEF Actions
<1>4. Operated /\ r \in session.pending /\ r \notin session'.pending
  BY <1>1, <1>2, ResolveStep DEF PageInv, PageTypes, RequestShape
<1>5. /\ action'.kind \in {"approve", "deny"} /\ action'.request \in session.pending
      /\ action'.request \notin session'.pending
  BY <1>1, <1>3, <1>4
<1> QED BY <1>1, <1>2, <1>3, <1>4, <1>5, OperatedKeeps

LEMMA TurnCancelledStep ==
  ASSUME PageInv, TurnCancelled
  PROVE  PageInv'
<1>1. /\ web' = web /\ page' = page /\ submission' = submission /\ requests' = requests
      /\ others' = others /\ action' = [action EXCEPT !.answer = "done"]
      /\ action.kind = "cancel" /\ CancelActiveTurn("action")
  BY DEF TurnCancelled, Outstanding
<1>2. /\ others' \in 0 .. MaxOthers /\ action \in Actions
      /\ submission' \in {"none", "sent", "accepted"}
  BY <1>1 DEF PageInv, PageTypes, StreamTypes
<1>3. action' \in Actions /\ action'.kind = "cancel"
  BY <1>1, <1>2 DEF Actions
<1>4. Operated /\ session'.pending = {}
  BY <1>1, <1>2, CancelStep DEF PageInv, PageTypes, RequestShape
<1> QED BY <1>1, <1>2, <1>3, <1>4, OperatedKeeps

-----------------------------------------------------------------------------
(* The operations of others, the page doing nothing.                       *)
SomeOperation ==
  \/ \E p \in Prompts : StartTurn(p)
  \/ \E p \in Prompts : StreamAssistantChunk(p)
  \/ \E p \in Prompts : RegisterPermissionRequest(p)
  \/ \E p \in Prompts, n \in 1 .. MaxText : CompleteWithReply(p, n)
  \/ \E p \in Prompts : CompleteWithStatus(p)
  \/ \E p \in Prompts : CompleteWithoutOutput(p)
  \/ \E p \in Prompts : OtherSubmits(p)
  \/ \E r \in Permissions : OtherResolves(r)
  \/ OtherCancels
  \/ CloseSession
  \/ \E w \in Writers : TakeSnapshot(w)

LEMMA OperationSteps ==
  ASSUME PageInv, UNCHANGED pageVars, SomeOperation
  PROVE  PageInv'
<1>1. /\ web' = web /\ page' = page /\ submission' = submission /\ requests' = requests
      /\ action' = action
  BY DEF pageVars
<1>2. PageTypes /\ StreamTypes /\ OutboxShape /\ PendingShape
  BY DEF PageInv, PageTypes, RequestShape
<1>3. /\ submission' \in {"none", "sent", "accepted"} /\ action' \in Actions
  BY <1>1, <1>2 DEF PageTypes, StreamTypes
<1>4. OtherClientActs => others' \in 0 .. MaxOthers
  BY <1>2, StreamAssumption DEF OtherClientActs, PageTypes, StreamTypes
<1>5. Operated
  <2>1. ASSUME NEW p \in Prompts, StartTurn(p) PROVE Operated
    BY <1>2, <2>1, StartTurnStep
  <2>2. ASSUME NEW p \in Prompts, StreamAssistantChunk(p) PROVE Operated
    BY <1>2, <2>2, ChunkStep
  <2>3. ASSUME NEW p \in Prompts, RegisterPermissionRequest(p) PROVE Operated
    BY <1>2, <2>3, RegisterStep
  <2>4. ASSUME NEW p \in Prompts, NEW n \in 1 .. MaxText, CompleteWithReply(p, n)
        PROVE  Operated
    BY <1>2, <2>4, ReplyStep
  <2>5. ASSUME NEW p \in Prompts, CompleteWithStatus(p) PROVE Operated
    BY <1>2, <2>5, StatusStep
  <2>6. ASSUME NEW p \in Prompts, CompleteWithoutOutput(p) PROVE Operated
    BY <1>2, <2>6, SilentStep
  <2>7. ASSUME NEW p \in Prompts, OtherSubmits(p) PROVE Operated
    BY <1>2, <1>4, <2>7, SubmitStep DEF OtherSubmits
  <2>8. ASSUME NEW r \in Permissions, OtherResolves(r) PROVE Operated
    BY <1>2, <1>4, <2>8, ResolveStep DEF OtherResolves
  <2>9. CASE OtherCancels
    BY <1>2, <1>4, <2>9, CancelStep DEF OtherCancels
  <2>10. CASE CloseSession
    BY <1>2, <2>10, CloseStep
  <2>11. ASSUME NEW w \in Writers, TakeSnapshot(w) PROVE Operated
    BY <1>2, <2>11, TakeSnapshotStep
  <2> QED BY <2>1, <2>2, <2>3, <2>4, <2>5, <2>6, <2>7, <2>8, <2>9, <2>10, <2>11
          DEF SomeOperation
<1> QED BY <1>1, <1>3, <1>5, OperatedKeeps

-----------------------------------------------------------------------------
(* The invariant.                                                          *)

LEMMA PageInit ==
  ASSUME WebInit
  PROVE  PageInv
<1> DEFINE q == <<>>
<1>1. /\ session = NewSession /\ stage = [p \in Prompts |-> "new"] /\ asked = 0
      /\ outbox = [w \in Writers |-> q] /\ stream = "off" /\ held = Nothing
      /\ queue = q /\ lagged = FALSE /\ others = 0 /\ page = "blank" /\ web = EmptyView
      /\ submission = "none" /\ action = NoAction /\ requests = 0
  BY DEF WebInit, StreamInit
<1>2. q \in Seq(Events) /\ Len(q) = 0 /\ q = <<>>
  OBVIOUS
<1>3. 0 \in 0 .. MaxText /\ 0 \in 0 .. MaxOthers /\ 0 \in 0 .. MaxRequests /\ 0 <= Capacity
  BY StreamAssumption, PageAssumption
<1>4. NewSession \in Sessions /\ NewSession.pending = {}
  BY <1>3 DEF NewSession, Sessions, NoPrompt
<1>5. EmptyView \in Views
  BY <1>3 DEF EmptyView, Views, TurnStates
<1>6. NoAction \in Actions /\ NoAction.kind = "none"
  BY DEF NoAction, Actions, TurnStates
<1> HIDE DEF q
<1>7. PageTypes
  <2>1. /\ queue \in Seq(Events) /\ Len(queue) <= Capacity
        /\ \A i \in 1 .. Len(queue) : queue[i].kind # "take"
    BY <1>1, <1>2, <1>3
  <2>2. outbox \in [Writers -> Seq(Events)]
    BY <1>1, <1>2
  <2> QED BY <1>1, <1>3, <1>4, <1>5, <1>6, <2>1, <2>2 DEF PageTypes, StreamTypes
<1>8. OutboxShape /\ \A G : SnapshotsIn(G)
  <2>1. \A w \in Writers : Len(outbox[w]) = 0
    BY <1>1, <1>2
  <2>2. \A w \in Writers : \A i \in 1 .. Len(outbox[w]) : FALSE
    BY <2>1
  <2> QED BY <2>2 DEF OutboxShape, SnapshotsIn, Writers
<1>9. StreamShape /\ PageShape
  BY <1>1, <1>2 DEF StreamShape, PageShape
<1>10. RequestShape /\ CancelIsNewest
  BY <1>1, <1>2, <1>4, <1>6 DEF RequestShape, PendingShape, CancelIsNewest
<1>11. \A S, G, K : Leads(stream, held, queue, lagged, S, G, web, K)
  BY <1>1, <1>2, LeadsNowhere
<1> QED BY <1>7, <1>8, <1>9, <1>10, <1>11 DEF PageInv, TextReaches, RequestReaches

LEMMA PageStep ==
  ASSUME PageInv, [WebNext]_webVars
  PROVE  PageInv'
<1>1. CASE UNCHANGED webVars
  <2>1. /\ UNCHANGED serverVars /\ page' = page /\ web' = web /\ action' = action
        /\ submission' = submission /\ requests' = requests
    BY <1>1 DEF webVars, serverVars
  <2> QED BY <2>1, QuietSteps DEF PageInv, PageTypes, StreamTypes
<1>2. CASE SomeOperation /\ UNCHANGED pageVars
  BY <1>2, OperationSteps
<1>3. ASSUME NEW w \in Writers, Publish(w), UNCHANGED pageVars PROVE PageInv'
  BY <1>3, PublishStep
<1>4. CASE Connect /\ UNCHANGED pageVars
  BY <1>4, ConnectStep
<1>5. CASE Subscribe /\ UNCHANGED pageVars
  BY <1>5, SubscribeStep
<1>6. CASE Refused /\ UNCHANGED pageVars
  BY <1>6, RefusedStep
<1>7. CASE Resync /\ UNCHANGED pageVars
  BY <1>7, ResyncStep
<1>8. CASE LoadSession \/ LoadFails
  BY <1>8, LoadSteps
<1>9. CASE SpawnSessionStream
  BY <1>9, SpawnSessionStreamStep
<1>10. CASE HandleSseEvent
  BY <1>10, HandleSseEventStep
<1>11. CASE Disconnected
  BY <1>11, DisconnectedStep
<1>12. CASE SendPrompt \/ PromptAnswered \/ PromptFailed
  BY <1>12, PromptSteps
<1>13. CASE PromptAccepted
  BY <1>13, PromptAcceptedStep
<1>14. CASE \/ \E k \in {"approve", "deny"}, r \in Permissions : Decide(k, r)
            \/ BeginCancelTurn
  BY <1>14, AskingSteps
<1>15. CASE DecisionTaken
  BY <1>15, DecisionTakenStep
<1>16. CASE TurnCancelled
  BY <1>16, TurnCancelledStep
<1>17. CASE DecisionAnswered
  BY <1>17, DecisionAnsweredStep
<1>18. CASE CancelAnswered
  BY <1>18, CancelAnsweredStep
<1>19. CASE ActionAbandoned
  BY <1>19, ActionAbandonedStep
<1> QED BY <1>1, <1>2, <1>3, <1>4, <1>5, <1>6, <1>7, <1>8, <1>9, <1>10, <1>11, <1>12,
           <1>13, <1>14, <1>15, <1>16, <1>17, <1>18, <1>19
        DEF WebNext, ServerOnly, SomeOperation

THEOREM PageInvariant == WebSpec => []PageInv
BY PageInit, PageStep, PTL DEF WebSpec

(* Every signal of the page, every event on its way, and the session have  *)
(* their types (PageTypes, in the words of the runs).                      *)
THEOREM PageTypesHold == WebSpec => []WebTypeOK
<1>1. PageInv => WebTypeOK
  BY TypesSuffice DEF PageInv
<1> QED BY <1>1, PageInvariant, PTL

(* Once nothing is on its way, what is shown is what every fact's views    *)
(* allow.                                                                  *)
LEMMA DeliveredIsShown ==
  ASSUME PageInv, Delivered
  PROVE  /\ \A m \in Messages : web.missed \/ web.text[m] = session.text[m]
         /\ \A r \in session.pending : web.missed \/ web.late \/ r \in web.pending
<1>1. /\ stream = "open" /\ held = Nothing /\ queue = <<>> /\ ~lagged
      /\ outbox["agent"] = <<>>
  BY DEF Delivered, Writers
<1>2. \A S : NoneOf(queue, S)
  <2>1. Len(queue) = 0
    BY <1>1
  <2> QED BY <2>1 DEF NoneOf
<1>3. /\ \A m : ~OwesText(m)
      /\ \A r : ~OwesRequest(r)
  <2>1. Len(outbox["agent"]) = 0
    BY <1>1
  <2> QED BY <2>1 DEF OwesText, OwesRequest
<1>4. \A m \in Messages : web \in TextViews(m)
  BY <1>1, <1>2 DEF PageInv, TextReaches, Leads
<1>5. \A r \in session.pending : web \in RequestViews(r)
  BY <1>1, <1>2 DEF PageInv, RequestReaches, Leads
<1> QED BY <1>3, <1>4, <1>5 DEF TextViews, RequestViews

(* The page ends up with the transcript of the session, whatever the order *)
(* in which the operations, the broadcasts, the snapshots and the losses   *)
(* of the channel came (the reducer of session_page_actions/stream/events. *)
(* rs over the stream of server/session_api/stream.rs), unless the last    *)
(* snapshot it got was overtaken before it was subscribed to or sent.      *)
THEOREM PageShowsTheTranscript == WebSpec => []TranscriptConverges
<1>1. PageInv => TranscriptConverges
  <2> SUFFICES ASSUME PageInv, Delivered, ~web.missed PROVE web.text = session.text
    BY DEF TranscriptConverges
  <2>1. \A m \in Messages : web.text[m] = session.text[m]
    BY DeliveredIsShown
  <2>2. web.text \in [Messages -> 0 .. MaxText] /\ session.text \in [Messages -> 0 .. MaxText]
    BY DEF PageInv, PageTypes, StreamTypes, Views, Sessions
  <2> QED BY <2>1, <2>2
<1> QED BY <1>1, PageInvariant, PTL

(* And it ends up with every request that the agent waits on, although the *)
(* responses to its own decisions and cancellations remove requests on     *)
(* their own (stream/permissions.rs), unless a cancellation's response was *)
(* applied after newer events.                                             *)
THEOREM PageShowsTheRequests == WebSpec => []PendingPermissionsShown
<1>1. PageInv => PendingPermissionsShown
  BY DeliveredIsShown DEF PendingPermissionsShown
<1> QED BY <1>1, PageInvariant, PTL
=============================================================================
