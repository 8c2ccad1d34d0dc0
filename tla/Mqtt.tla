--------------------------------- MODULE Mqtt ---------------------------------
(* What a broker shows of the daemon.  Every tick leaves a goroutine behind *)
(* that publishes the tick's snapshot, one retained message per topic; the  *)
(* broker publishes the will when a connection ends without a DISCONNECT    *)
(* packet.  Start leaves the client library its memory store and its clean  *)
(* sessions: it keeps what was published at quality 1 until that is         *)
(* acknowledged, empties the store after the first connection, and sends    *)
(* what is in it again after every other one, in no particular order.       *)
(* Messages are [topic, val], the value of a topic being the number of the  *)
(* tick it tells of, 0 when there is none; "config" stands for all          *)
(* discovery topics and counts processes; the value of "status" tells which *)
(* connection announces the process online, Offline that it goes.           *)
EXTENDS Naturals, Sequences

CONSTANTS
    QosChoice,  \* qualities of service a configuration may ask for
    MaxTicks,   \* bound on the ticks of all processes together
    MaxOutages, \* bound on restarts and lost connections together
    MaxWire     \* bound on the packets on their way; publishing waits for room

ASSUME QosAssumption == QosChoice \subseteq {0, 1}

VARIABLES
    phase,       \* "down", "starting", "looping", "draining" or "closing"
    fallback,    \* fallbackActive
    known,       \* commandedPct is not -1
    snaps,       \* the snapshots taken: whether the percent is known, and which
                 \* ticks' messages were not all published and acknowledged
    publishers,  \* PublishSnapshot calls: [tick, todo, returned]
    conn,        \* the client's connection: "closed", "connecting" for the first
                 \* time, "reconnecting", "open", or "deaf" if nothing comes
                 \* back from the broker any more
    handlers,    \* the connections whose connect handlers have not run yet
    wire,        \* packets on their way to the broker
    store,       \* messages of quality 1 that were not acknowledged
    resend,      \* those that are still to be sent again
    session,     \* the broker holds a connection with a will
    retained,    \* retained[t] : what the broker shows
    status,      \* the retained availability, "" before the first
    qos, starts, losses,
    dropped,     \* history: a message of this process was dropped
    spoilt       \* history: the last connection ended in a race or after a timeout

process == <<phase, fallback, known, snaps, publishers>>
kept    == <<store, resend>>
client  == <<conn, handlers, wire, kept>>
broker  == <<session, retained, status>>
history == <<dropped, spoilt>>
mvars   == <<process, client, broker, qos, starts, losses, history>>

\* fan_percent is published by some ticks, last_update stands for what every
\* tick publishes.
Topic == {"config", "fan_percent", "last_update"}
Message(topic, val) == [topic |-> topic, val |-> val]
\* The client has a connection, or takes itself to have one.
Connected == conn \in {"open", "deaf"}

Offline == 0
Shown(val) == IF val = Offline THEN "offline" ELSE "online"

Running == {p.tick : p \in {q \in publishers : ~q.returned}}
Unacknowledged == {m.val : m \in {n \in store : n.topic \in {"fan_percent", "last_update"}}}
UnderWay == {wire[i] : i \in DOMAIN wire}

MInit ==
    /\ phase = "down" /\ fallback = FALSE /\ known = FALSE
    /\ snaps = <<>> /\ publishers = {}
    /\ conn = "closed" /\ handlers = {} /\ wire = <<>>
    /\ store = {} /\ resend = {}
    /\ session = FALSE /\ retained = [t \in Topic |-> 0] /\ status = ""
    /\ qos \in QosChoice /\ starts = 0 /\ losses = 0
    /\ dropped = FALSE /\ spoilt = FALSE

-----------------------------------------------------------------------------
\* Client.Publish stores a message of quality 1, and sends it if there is a
\* connection; one of quality 0 is dropped if there is none.
Queue(m) ==
    /\ Len(wire) < MaxWire
    /\ wire' = IF Connected THEN Append(wire, m) ELSE wire
    /\ store' = IF qos = 1 THEN store \cup {m} ELSE store
    /\ dropped' = (dropped \/ (qos = 0 /\ ~Connected))
    /\ UNCHANGED resend

\* Mutation: what was to be sent again is kept
ForgetStored == store' = {} /\ UNCHANGED resend

\* Of a client that disconnects or dies nothing is left.
Forget == store' = {} /\ resend' = {}

\* cmdRun starts the publisher; the client begins to connect.
Start ==
    /\ phase = "down" /\ conn = "closed" /\ starts + losses <= MaxOutages
    /\ phase' = "starting"
    /\ publishers' = {}
    /\ conn' = "connecting" /\ handlers' = {} /\ wire' = <<>> /\ Forget
    /\ starts' = starts + 1
    /\ dropped' = FALSE
    /\ UNCHANGED <<fallback, known, snaps, broker, qos, losses, spoilt>>

\* Discovery is published once, connected or not, before the first tick.
PublishDiscovery ==
    /\ phase = "starting"
    /\ phase' = "looping"
    /\ Queue(Message("config", starts))
    /\ UNCHANGED <<fallback, known, snaps, publishers, conn, handlers, broker, qos, starts,
                   losses, spoilt>>

\* What a tick may do to the belief about the fans: engage the fallback,
\* regulate or hold; stay in the fallback or end it.
TickOutcome ==
    IF fallback
    THEN {[fallback |-> TRUE, known |-> FALSE], [fallback |-> FALSE, known |-> FALSE]}
    ELSE {[fallback |-> TRUE, known |-> FALSE], [fallback |-> FALSE, known |-> TRUE],
          [fallback |-> FALSE, known |-> known]}

\* The topics of a snapshot, in the order they are published.
TopicsOf(snap) ==
    (IF snap.known THEN <<"fan_percent">> ELSE <<>>) \o <<"last_update">>

\* A tick builds its snapshot itself, and starts the goroutine that publishes it.
Tick ==
    /\ phase = "looping" /\ Len(snaps) < MaxTicks
    /\ \E o \in TickOutcome :
          LET snap == [known |-> o.known, during |-> Running \cup Unacknowledged]
          IN  /\ fallback' = o.fallback /\ known' = o.known
              /\ snaps' = Append(snaps, snap)
              /\ publishers' = publishers \cup
                    {[tick |-> Len(snaps) + 1, todo |-> TopicsOf(snap), returned |-> FALSE]}
    /\ UNCHANGED <<phase, client, broker, qos, starts, losses, history>>

Update(p, q) == publishers' = (publishers \ {p}) \cup {q}

\* PublishSnapshot hands its next message to the client.
PublishNext(p) ==
    /\ phase # "down" /\ p.todo # <<>>
    /\ Update(p, [p EXCEPT !.todo = Tail(@)])
    /\ Queue(Message(Head(p.todo), p.tick))
    /\ UNCHANGED <<phase, fallback, known, snaps, conn, handlers, broker, qos, starts, losses,
                   spoilt>>

\* Mutation: PublishSnapshot publishes in the background
ReturnAtOnce(p) ==
    /\ phase # "down" /\ ~p.returned
    /\ Update(p, [p EXCEPT !.returned = TRUE])
    /\ UNCHANGED <<phase, fallback, known, snaps, client, broker, qos, starts, losses, history>>

\* It returns when all are acknowledged, or after 3 s if they are not.
PublishReturns(p) ==
    /\ phase # "down" /\ p.todo = <<>> /\ ~p.returned
    /\ Update(p, [p EXCEPT !.returned = TRUE])
    /\ UNCHANGED <<phase, fallback, known, snaps, client, broker, qos, starts, losses, history>>

-----------------------------------------------------------------------------
\* Mutation: every connection starts with an empty store
ConnectAnew ==
    /\ conn \in {"connecting", "reconnecting"} /\ phase # "down"
    /\ conn' = "open" /\ handlers' = handlers \cup {starts + losses}
    /\ store' = {} /\ resend' = {}
    /\ session' = TRUE
    /\ status' = IF session THEN "offline" ELSE status
    /\ spoilt' = (phase = "closing") /\ dropped' = (dropped \/ store # {})
    /\ UNCHANGED <<process, wire, retained, qos, starts, losses>>

\* The library empties the store when its first connection opens, and sends what
\* is in it again after every other one.  A broker ends the connection it still
\* holds for a client, and publishes its will, before it accepts it again.
Connect ==
    /\ conn \in {"connecting", "reconnecting"} /\ phase # "down"
    /\ conn' = "open" /\ handlers' = handlers \cup {starts + losses}
    /\ store' = IF conn = "connecting" THEN {} ELSE store
    /\ resend' = store'
    /\ session' = TRUE
    /\ status' = IF session THEN "offline" ELSE status
    /\ spoilt' = (phase = "closing") /\ dropped' = (dropped \/ store' # store)
    /\ UNCHANGED <<process, wire, retained, qos, starts, losses>>

\* It does so message by message, in no order, while others are published; one
\* that was acknowledged meanwhile it skips.
Resend(m) ==
    /\ Len(wire) < MaxWire
    /\ resend' = resend \ {m}
    /\ wire' = IF m \in store THEN Append(wire, m) ELSE wire
    /\ UNCHANGED <<process, conn, handlers, store, broker, qos, starts, losses, history>>

OnConnect(n) ==
    /\ phase # "down"
    /\ handlers' = handlers \ {n}
    /\ Queue(Message("status", n))
    /\ UNCHANGED <<process, conn, broker, qos, starts, losses, spoilt>>

\* The connection breaks: nothing comes back from the broker any more,
Break ==
    /\ conn = "open" /\ starts + losses <= MaxOutages
    /\ conn' = "deaf" /\ losses' = losses + 1
    /\ UNCHANGED <<process, handlers, wire, kept, broker, qos, starts, history>>

\* which the client notices, and tries again as long as it runs.
Lose ==
    /\ conn = "deaf"
    /\ conn' = IF phase = "down" THEN "closed" ELSE "reconnecting"
    /\ wire' = <<>> /\ resend' = {}
    /\ dropped' = (dropped \/ ~(UnderWay \subseteq store))
    /\ UNCHANGED <<process, handlers, store, broker, qos, starts, losses, spoilt>>

\* What the broker receives it acknowledges.
Deliver ==
    /\ Connected /\ session /\ wire # <<>>
    /\ wire' = Tail(wire)
    /\ store' = IF conn = "deaf" THEN store ELSE store \ {Head(wire)}
    /\ LET m == Head(wire)
       IN  CASE m.topic = "status" ->
                  status' = Shown(m.val) /\ UNCHANGED <<conn, session, retained>>
             [] m.topic = "disconnect" ->
                  session' = FALSE /\ conn' = "closed" /\ UNCHANGED <<retained, status>>
             [] OTHER ->
                  retained' = [retained EXCEPT ![m.topic] = m.val] /\ UNCHANGED <<conn, session, status>>
    /\ UNCHANGED <<process, handlers, resend, qos, starts, losses, history>>

\* The broker notices, perhaps before the client does, that they have lost each
\* other, or that the client is gone.
Will ==
    /\ session /\ conn # "open"
    /\ session' = FALSE /\ status' = "offline"
    /\ UNCHANGED <<process, client, retained, qos, starts, losses, history>>

-----------------------------------------------------------------------------
\* The signal ends the loop; the publishers are waited for.
Stop ==
    /\ phase = "looping"
    /\ phase' = "draining"
    /\ UNCHANGED <<fallback, known, snaps, publishers, client, broker, qos, starts, losses, history>>

\* A connect handler has not run, or its message will be sent again.
OnlineMayFollow ==
    \/ handlers # {}
    \/ \E m \in resend : m.topic = "status"

\* Mutation: the publishers are not waited for
CloseAtOnce ==
    /\ phase = "draining"
    /\ phase' = "closing"
    /\ IF Connected THEN Queue(Message("status", Offline)) ELSE UNCHANGED <<wire, kept, dropped>>
    /\ spoilt' = (spoilt \/ OnlineMayFollow)
    /\ UNCHANGED <<fallback, known, snaps, publishers, conn, handlers, broker, qos, starts, losses>>

\* Mutation: Close only disconnects
CloseSilently ==
    /\ phase = "draining" /\ Running = {}
    /\ phase' = "closing"
    /\ spoilt' = (spoilt \/ OnlineMayFollow)
    /\ UNCHANGED <<fallback, known, snaps, publishers, client, broker, qos, starts, losses, dropped>>

\* Close announces the end when there is a connection to do so.
Close ==
    /\ phase = "draining" /\ Running = {}
    /\ phase' = "closing"
    /\ IF Connected THEN Queue(Message("status", Offline)) ELSE UNCHANGED <<wire, kept, dropped>>
    /\ spoilt' = (spoilt \/ OnlineMayFollow)
    /\ UNCHANGED <<fallback, known, snaps, publishers, conn, handlers, broker, qos, starts, losses>>

\* It waits for the acknowledgement, at most 2 s, and disconnects, leaving the
\* client 250 ms to send what it still has.
Disconnect ==
    /\ phase = "closing"
    /\ phase' = "down" /\ handlers' = {} /\ Forget
    /\ fallback' = FALSE /\ known' = FALSE
    /\ \/ /\ Connected
          /\ \E n \in 0..Len(wire) :
                /\ wire' = Append(SubSeq(wire, 1, n), Message("disconnect", 0))
                /\ dropped' = (dropped \/ n < Len(wire) \/ ~(store \subseteq UnderWay))
          /\ UNCHANGED conn
       \/ /\ ~Connected
          /\ conn' = "closed" /\ wire' = <<>>
          /\ dropped' = (dropped \/ store # {})
    /\ spoilt' = (spoilt \/ (Connected /\ wire # <<>>))
    /\ UNCHANGED <<snaps, publishers, broker, qos, starts, losses>>

\* Killed, or Run returned before it announced anything: nothing is closed.
Die ==
    /\ phase # "down"
    /\ phase' = "down"
    /\ fallback' = FALSE /\ known' = FALSE /\ publishers' = {}
    /\ conn' = "closed" /\ handlers' = {} /\ wire' = <<>> /\ Forget
    /\ dropped' = TRUE
    /\ UNCHANGED <<snaps, broker, qos, starts, losses, spoilt>>

\* What the process, its publishers, its client and the broker have to do they
\* get done: Go's scheduler runs every goroutine, waits are bounded, the client
\* keeps trying to connect and notices (KeepAlive) when a connection is broken.
\* Ticks, signals, breaks and starts happen or not.
GoesOn ==
    \/ PublishDiscovery \/ Close \/ Disconnect
    \/ \E p \in publishers : PublishNext(p) \/ PublishReturns(p)
    \/ Connect \/ Lose
    \/ \E m \in resend : Resend(m)
    \/ \E n \in handlers : OnConnect(n)
    \/ Deliver \/ Will

MNext == Start \/ Tick \/ Break \/ Stop \/ Die \/ GoesOn

MSpec == MInit /\ [][MNext]_mvars /\ WF_mvars(GoesOn)

-----------------------------------------------------------------------------
\* Types; every packet tells of a tick that was taken.  There is something on
\* the wire or to be sent again only while there is a connection, and
\* something stored only while the process runs.
MTypeOK ==
    /\ phase \in {"down", "starting", "looping", "draining", "closing"}
    /\ conn \in {"closed", "connecting", "reconnecting", "open", "deaf"}
    /\ \A t \in Topic : retained[t] \in 0..(IF t = "config" THEN starts ELSE Len(snaps))
    /\ status \in {"", "online", "offline"}
    /\ \A p \in publishers : p.tick \in DOMAIN snaps
    /\ ~Connected => wire = <<>> /\ resend = {}
    /\ phase = "down" => store = {} /\ resend = {}
    /\ phase # "down" => conn # "closed"

\* What is shown of a topic never goes back to an older tick, except to one
\* that was not finished when the newer snapshot was taken: its publisher was
\* still running, or the broker had not acknowledged all of it.  Goroutines
\* overtake each other, and so does what is sent again after a reconnect.
BackOnlyToUnfinished ==
    [][\A t \in {"fan_percent", "last_update"} :
          retained'[t] < retained[t] => retained'[t] \in snaps[retained[t]].during]_mvars

\* A process that ended, none of whose messages was dropped on the way, has
\* left its last snapshot on the broker, topic by topic, unless one that was
\* not finished then came later.
NothingCutOff ==
    phase = "down" /\ conn = "closed" /\ ~dropped /\ publishers # {} =>
        LET last == snaps[Len(snaps)]
        IN  \A i \in DOMAIN TopicsOf(last) :
                retained[TopicsOf(last)[i]] \in {Len(snaps)} \cup last.during

\* A process that is gone, killed or stopped, is not shown as online in the
\* end, unless Close raced with a connect handler or with what is sent again,
\* or did not get through in time.
OfflineInTheEnd ==
    (phase = "down" /\ ~spoilt) ~>
        (phase # "down" \/ (conn = "closed" /\ ~session /\ status # "online"))

\* Discovery is published once per process.  What the client still has of it
\* after its first connection the broker gets, however often the connection
\* breaks.  What was published before that connection it need not get.
KeptDiscoveryArrives ==
    (phase = "looping" /\ conn # "connecting" /\ Message("config", starts) \in store)
        ~> (phase # "looping" \/ retained["config"] = starts)

\* During a fallback, once the last tick is published, no fan percent is shown.
\* control.go:372-375 "so MQTT never reports a stale manual fan percent while
\* the iDRAC is actually the one driving the fans"
NoStalePercent ==
    (/\ phase = "looping" /\ fallback
     /\ ~dropped /\ Running = {} /\ wire = <<>> /\ store = {})
        => retained["fan_percent"] = 0
=============================================================================
