------------------------------ MODULE MqttProofs ------------------------------
(***************************************************************************)
(* Proofs about the MQTT publisher and its broker, for any number of ticks *)
(* and outages and both qualities of service.  All of them rest on one     *)
(* inductive invariant about the order of the packets on the wire, and     *)
(* about what the client will send again, in an order nobody knows.        *)
(***************************************************************************)
EXTENDS Mqtt, SequenceTheorems, TLAPS

-----------------------------------------------------------------------------
(* The inductive invariant *)

SnapTopic == {"fan_percent", "last_update"}

\* The topics of a snapshot, as a set
Told(snap) == {"last_update"} \cup (IF snap.known THEN {"fan_percent"} ELSE {})

IsSeq(s) == \E T : s \in Seq(T)

Types ==
    /\ MTypeOK
    /\ IsSeq(snaps) /\ IsSeq(wire)
    /\ starts \in Nat /\ qos \in {0, 1}
    /\ retained \in [Topic -> Nat]

(* What may be on the wire and in the store.  DISCONNECT comes last, after *)
(* the process has ended, and is not stored.                               *)
Packet(m, start, tick) ==
    \/ m.topic = "status"
    \/ m.topic = "disconnect"
    \/ m.topic = "config" /\ m.val \in 0 .. start
    \/ m.topic \in SnapTopic /\ m.val \in 1 .. tick

Packets == \A i \in 1 .. Len(wire) : Packet(wire[i], starts, Len(snaps))

DisconnectIsLast ==
    \A i \in 1 .. Len(wire) :
        wire[i].topic = "disconnect" => phase = "down" /\ i = Len(wire)

StorePackets ==
    \A m \in store : m.topic # "disconnect" /\ Packet(m, starts, Len(snaps))

(* A publisher returns, and Close begins, only when all is handed over. *)
Publishers ==
    \A p \in publishers :
        /\ p = [tick |-> p.tick, todo |-> p.todo, returned |-> p.returned]
        /\ p.tick \in 1 .. Len(snaps)
        /\ IsSeq(p.todo)
        /\ \A i \in 1 .. Len(p.todo) : p.todo[i] \in SnapTopic
        /\ p.returned => p.todo = <<>>
        /\ phase \in {"closing", "down"} => p.todo = <<>>

(* Tick k may come after tick a only if it was not finished when a was     *)
(* taken: so it is for what is still to be handed over or may be sent      *)
(* again, for any two packets on the wire, and for a packet on the wire    *)
(* and what is shown.                                                      *)
Excused(k, a, taken) == k < a => k \in taken[a].during

PendingExcused ==
    \A p \in publishers : p.todo # <<>> => \A a \in 1 .. Len(snaps) : Excused(p.tick, a, snaps)

StoreExcused ==
    \A m \in store : m.topic \in SnapTopic => \A a \in 1 .. Len(snaps) : Excused(m.val, a, snaps)

WireExcused ==
    \A i, j \in 1 .. Len(wire) :
        i < j /\ wire[i].topic = wire[j].topic /\ wire[j].topic \in SnapTopic
            => Excused(wire[j].val, wire[i].val, snaps)

ShownExcused ==
    \A j \in 1 .. Len(wire) :
        wire[j].topic \in SnapTopic => Excused(wire[j].val, retained[wire[j].topic], snaps)

(* If nothing was dropped, each topic of the last snapshot is still to be  *)
(* handed over by its publisher, or has reached the wire or the broker and *)
(* was followed only by values that were not finished when it was taken,   *)
(* or such a value is in the store and only such values are on the wire.   *)
Recent == {Len(snaps)} \cup snaps[Len(snaps)].during

Awaited(t) ==
    \E p \in publishers : p.tick = Len(snaps) /\ \E k \in 1 .. Len(p.todo) : p.todo[k] = t

OnlyRecent(t, from) ==
    \A j \in 1 .. Len(wire) : j >= from /\ wire[j].topic = t => wire[j].val \in Recent

Handed(t) ==
    \/ retained[t] \in Recent /\ OnlyRecent(t, 1)
    \/ \E i \in 1 .. Len(wire) : wire[i].topic = t /\ OnlyRecent(t, i)

Kept(t) == OnlyRecent(t, 1) /\ \E m \in store : m.topic = t

NoneLost ==
    ~dropped /\ publishers # {} =>
        \A t \in Told(snaps[Len(snaps)]) : Awaited(t) \/ Handed(t) \/ Kept(t)

WireInv == Types /\ Packets /\ StorePackets /\ DisconnectIsLast /\ Publishers

OrderInv == PendingExcused /\ StoreExcused /\ WireExcused /\ ShownExcused

MInv == WireInv /\ OrderInv /\ NoneLost

-----------------------------------------------------------------------------
(* Lemmas about sequences *)

LEMMA Appended ==
    ASSUME NEW s, IsSeq(s), NEW x
    PROVE  /\ IsSeq(Append(s, x))
           /\ Len(s) \in Nat /\ Len(Append(s, x)) = Len(s) + 1
           /\ \A i \in 1 .. Len(s) : Append(s, x)[i] = s[i]
           /\ Append(s, x)[Len(s) + 1] = x
  <1>1. PICK T : s \in Seq(T)
    BY DEF IsSeq
  <1>2. s \in Seq(T \cup {x}) /\ x \in T \cup {x}
    BY <1>1
  <1>3. Append(s, x) \in Seq(T \cup {x})
    BY <1>2
  <1> QED
    BY <1>2, <1>3 DEF IsSeq

LEMMA Beheaded ==
    ASSUME NEW s, IsSeq(s), s # <<>>
    PROVE  /\ IsSeq(Tail(s))
           /\ Len(s) \in Nat /\ Len(s) >= 1 /\ Len(Tail(s)) = Len(s) - 1
           /\ Head(s) = s[1]
           /\ \A i \in 1 .. Len(Tail(s)) : Tail(s)[i] = s[i + 1]
  <1>1. PICK T : s \in Seq(T)
    BY DEF IsSeq
  <1>2. Tail(s) \in Seq(T)
    BY <1>1
  <1> QED
    BY <1>1, <1>2 DEF IsSeq

LEMMA Cut ==
    ASSUME NEW s, IsSeq(s), NEW n \in 0 .. Len(s)
    PROVE  /\ IsSeq(SubSeq(s, 1, n))
           /\ Len(SubSeq(s, 1, n)) = n
           /\ \A i \in 1 .. n : SubSeq(s, 1, n)[i] = s[i]
  <1>1. PICK T : s \in Seq(T)
    BY DEF IsSeq
  <1>2. SubSeq(s, 1, n) \in Seq(T)
    BY <1>1
  <1> QED
    BY <1>1, <1>2 DEF IsSeq

LEMMA EmptyIsSeq == IsSeq(<<>>) /\ Len(<<>>) = 0
  <1>1. <<>> \in Seq({})
    OBVIOUS
  <1> QED
    BY <1>1 DEF IsSeq

LEMMA LengthIsNat ==
    ASSUME NEW s, IsSeq(s)
    PROVE  Len(s) \in Nat /\ (s # <<>> => Len(s) > 0) /\ DOMAIN s = 1 .. Len(s)
  BY DEF IsSeq

(* The topics of a snapshot, in order. *)
LEMMA TopicsAreTold ==
    ASSUME NEW snap
    PROVE  /\ IsSeq(TopicsOf(snap))
           /\ \A i \in 1 .. Len(TopicsOf(snap)) : TopicsOf(snap)[i] \in Told(snap)
           /\ \A t \in Told(snap) : \E i \in 1 .. Len(TopicsOf(snap)) : TopicsOf(snap)[i] = t
           /\ Told(snap) \subseteq SnapTopic
           /\ TopicsOf(snap) # <<>>
  <1> DEFINE fan  == <<"fan_percent">>
             last == <<"last_update">>
  <1>1. fan \in Seq(SnapTopic) /\ Len(fan) = 1 /\ fan[1] = "fan_percent"
    BY DEF SnapTopic
  <1>2. last \in Seq(SnapTopic) /\ Len(last) = 1 /\ last[1] = "last_update"
    BY DEF SnapTopic
  <1>3. <<>> \in Seq(SnapTopic) /\ Len(<<>>) = 0
    OBVIOUS
  <1> HIDE DEF fan, last
  <1>4. CASE snap.known
    <2>1. TopicsOf(snap) = fan \o last
      BY <1>4 DEF TopicsOf, fan, last
    <2>2. /\ TopicsOf(snap) \in Seq(SnapTopic) /\ Len(TopicsOf(snap)) = 2
          /\ TopicsOf(snap)[1] = "fan_percent" /\ TopicsOf(snap)[2] = "last_update"
      BY <1>1, <1>2, <2>1, ConcatProperties
    <2>3. Told(snap) = {"fan_percent", "last_update"}
      BY <1>4 DEF Told
    <2>4. IsSeq(TopicsOf(snap)) /\ TopicsOf(snap) # <<>>
      BY <1>3, <2>2 DEF IsSeq
    <2> QED
      BY <2>2, <2>3, <2>4 DEF SnapTopic
  <1>5. CASE ~snap.known
    <2>1. TopicsOf(snap) = <<>> \o last
      BY <1>5 DEF TopicsOf, last
    <2>2. /\ TopicsOf(snap) \in Seq(SnapTopic) /\ Len(TopicsOf(snap)) = 1
          /\ TopicsOf(snap)[1] = "last_update"
      BY <1>2, <1>3, <2>1, ConcatProperties
    <2>3. Told(snap) = {"last_update"}
      BY <1>5 DEF Told
    <2>4. IsSeq(TopicsOf(snap)) /\ TopicsOf(snap) # <<>>
      BY <1>3, <2>2 DEF IsSeq
    <2> QED
      BY <2>2, <2>3, <2>4 DEF SnapTopic
  <1> QED
    BY <1>4, <1>5

-----------------------------------------------------------------------------
(* What a step does to the snapshots and to the wire *)

(* Snapshots are only ever added. *)
SnapsGrow ==
    /\ IsSeq(snaps') /\ Len(snaps) <= Len(snaps')
    /\ \A a \in 1 .. Len(snaps) : snaps'[a] = snaps[a]

LEMMA SnapsOnlyGrow ==
    ASSUME IsSeq(snaps), [MNext]_mvars
    PROVE  /\ SnapsGrow
           /\ Tick \/ snaps' = snaps
  <1>1. CASE Tick
    <2>1. PICK snap : snaps' = Append(snaps, snap)
      BY <1>1 DEF Tick
    <2> QED
      BY <1>1, <2>1, Appended DEF SnapsGrow
  <1>2. CASE ~Tick
    <2>1. snaps' = snaps
      BY <1>2 DEF MNext, GoesOn, Start, PublishDiscovery, PublishNext, PublishReturns, Connect, Resend,
                  OnConnect, Break, Lose, Deliver, Will, Stop, Close, Disconnect, Die, mvars, process
    <2> QED
      BY <2>1, LengthIsNat DEF SnapsGrow
  <1> QED
    BY <1>1, <1>2

LEMMA StartsOnlyGrow ==
    ASSUME starts \in Nat, [MNext]_mvars
    PROVE  starts' \in Nat /\ starts <= starts'
  <1>1. starts' = starts \/ starts' = starts + 1
    BY DEF MNext, GoesOn, Start, PublishDiscovery, Tick, PublishNext, PublishReturns, Connect, Resend,
           OnConnect, Break, Lose, Deliver, Will, Stop, Close, Disconnect, Die, mvars
  <1> QED
    BY <1>1

(* Packets leave the wire at its front or are cut off at its end, and new  *)
(* ones are added behind those that stay.                                  *)
Shortened(d) ==
    /\ Len(wire') + d <= Len(wire)
    /\ \A i \in 1 .. Len(wire') : wire'[i] = wire[i + d]

Extended(n, m) ==
    /\ n \in 0 .. Len(wire)
    /\ Len(wire') = n + 1 /\ wire'[n + 1] = m
    /\ \A i \in 1 .. n : wire'[i] = wire[i]

WireStep ==
    \/ UNCHANGED retained /\ \E d \in Nat : Shortened(d)
    \/ UNCHANGED retained /\ \E n \in Nat : \E m :
           Extended(n, m) /\ m.topic \notin SnapTopic /\ Packet(m, starts', Len(snaps'))
    \/ UNCHANGED retained /\ \E m \in store : Extended(Len(wire), m)
    \/ \E p \in publishers : /\ PublishNext(p) /\ p.todo # <<>> /\ UNCHANGED retained
                             /\ Extended(Len(wire), Message(Head(p.todo), p.tick))
    \/ Deliver /\ wire # <<>> /\ Shortened(1)

LEMMA WireKept ==
    ASSUME IsSeq(wire), wire' = wire
    PROVE  IsSeq(wire') /\ Shortened(0)
  BY LengthIsNat DEF Shortened

LEMMA WireEmptied ==
    ASSUME IsSeq(wire), wire' = <<>>
    PROVE  IsSeq(wire') /\ Shortened(0)
  BY LengthIsNat, EmptyIsSeq DEF Shortened

(* Client.Publish sends the packet, if there is a connection. *)
Sent(m) == IF Connected THEN Append(wire, m) ELSE wire

LEMMA SentPacket ==
    ASSUME IsSeq(wire), NEW m, wire' = Sent(m)
    PROVE  /\ IsSeq(wire')
           /\ \/ Connected /\ Extended(Len(wire), m)
              \/ ~Connected /\ wire' = wire
  <1>1. CASE Connected
    <2>1. wire' = Append(wire, m)
      BY <1>1 DEF Sent
    <2> QED
      BY <1>1, <2>1, Appended DEF Extended
  <1>2. CASE ~Connected
    BY <1>2 DEF Sent
  <1> QED
    BY <1>1, <1>2

LEMMA HowTheWireMoves ==
    ASSUME WireInv, [MNext]_mvars
    PROVE  IsSeq(wire') /\ WireStep
  <1>1. IsSeq(wire) /\ Len(wire) \in Nat /\ starts \in Nat
    BY LengthIsNat DEF WireInv, Types
  <1>2. CASE \/ Tick \/ Connect \/ Break \/ Will \/ Stop \/ UNCHANGED mvars
             \/ \E p \in publishers : PublishReturns(p)
    <2>1. wire' = wire /\ retained' = retained
      BY <1>2 DEF Tick, Connect, Break, Will, Stop, PublishReturns, mvars, client, broker
    <2> QED
      BY <1>1, <2>1, WireKept DEF WireStep
  <1>3. CASE Start \/ Die \/ Lose
    <2>1. wire' = <<>> /\ retained' = retained
      BY <1>3 DEF Start, Die, Lose, broker
    <2> QED
      BY <1>1, <2>1, WireEmptied DEF WireStep
  <1>4. ASSUME NEW m, wire' = Sent(m) \/ wire' = wire, retained' = retained,
               m.topic \notin SnapTopic, Packet(m, starts', Len(snaps'))
        PROVE  IsSeq(wire') /\ WireStep
    <2>1. IsSeq(wire') /\ (Extended(Len(wire), m) \/ Shortened(0))
      BY <1>1, <1>4, SentPacket, WireKept
    <2> QED
      BY <1>1, <1>4, <2>1 DEF WireStep
  <1>5. CASE PublishDiscovery
    <2>1. wire' = Sent(Message("config", starts)) /\ retained' = retained /\ starts' = starts
      BY <1>5 DEF PublishDiscovery, Queue, Sent, broker
    <2>2. Message("config", starts).topic \notin SnapTopic /\ Packet(Message("config", starts), starts', Len(snaps'))
      BY <1>1, <2>1 DEF Message, Packet, SnapTopic
    <2> QED
      BY <1>4, <2>1, <2>2
  <1>6. ASSUME NEW n \in handlers, OnConnect(n)
        PROVE  IsSeq(wire') /\ WireStep
    <2>1. wire' = Sent(Message("status", n)) /\ retained' = retained
      BY <1>6 DEF OnConnect, Queue, Sent, broker
    <2>2. Message("status", n).topic \notin SnapTopic /\ Packet(Message("status", n), starts', Len(snaps'))
      BY DEF Message, Packet, SnapTopic
    <2> QED
      BY <1>4, <2>1, <2>2
  <1>7. CASE Close
    <2>1. retained' = retained
      BY <1>7 DEF Close, broker
    <2>2. wire' = wire \/ wire' = Sent(Message("status", Offline))
      BY <1>7 DEF Close, Queue, Sent
    <2>3. Message("status", Offline).topic \notin SnapTopic /\ Packet(Message("status", Offline), starts', Len(snaps'))
      BY DEF Message, Packet, SnapTopic
    <2> QED
      BY <1>4, <2>1, <2>2, <2>3
  <1>8. ASSUME NEW p \in publishers, PublishNext(p)
        PROVE  IsSeq(wire') /\ WireStep
    <2>1. /\ wire' = Sent(Message(Head(p.todo), p.tick))
          /\ retained' = retained /\ p.todo # <<>>
      BY <1>8 DEF PublishNext, Queue, Sent, broker
    <2>2. IsSeq(wire') /\ (Extended(Len(wire), Message(Head(p.todo), p.tick)) \/ Shortened(0))
      BY <1>1, <2>1, SentPacket, WireKept
    <2> QED
      BY <1>8, <2>1, <2>2 DEF WireStep
  <1>9. ASSUME NEW m \in resend, Resend(m)
        PROVE  IsSeq(wire') /\ WireStep
    <2>1. retained' = retained
      BY <1>9 DEF Resend, broker
    <2>2. CASE m \in store
      <3>1. wire' = Append(wire, m)
        BY <1>9, <2>2 DEF Resend
      <3>2. IsSeq(wire') /\ Extended(Len(wire), m)
        BY <1>1, <3>1, Appended DEF Extended
      <3> QED
        BY <2>1, <2>2, <3>2 DEF WireStep
    <2>3. CASE m \notin store
      <3>1. wire' = wire
        BY <1>9, <2>3 DEF Resend
      <3> QED
        BY <1>1, <2>1, <3>1, WireKept DEF WireStep
    <2> QED
      BY <2>2, <2>3
  <1>10. CASE Deliver
    <2>1. wire' = Tail(wire) /\ wire # <<>>
      BY <1>10 DEF Deliver
    <2>2. IsSeq(wire') /\ Shortened(1)
      BY <1>1, <2>1, Beheaded DEF Shortened
    <2> QED
      BY <1>10, <2>1, <2>2 DEF WireStep
  <1>11. CASE Disconnect
    <2>1. retained' = retained
      BY <1>11 DEF Disconnect, broker
    <2>2. CASE wire' = <<>>
      BY <1>1, <2>1, <2>2, WireEmptied DEF WireStep
    <2>3. CASE \E n \in 0 .. Len(wire) :
                  wire' = Append(SubSeq(wire, 1, n), Message("disconnect", 0))
      <3>1. PICK n \in 0 .. Len(wire) :
               wire' = Append(SubSeq(wire, 1, n), Message("disconnect", 0))
        BY <2>3
      <3>2. /\ IsSeq(SubSeq(wire, 1, n)) /\ Len(SubSeq(wire, 1, n)) = n
            /\ \A i \in 1 .. n : SubSeq(wire, 1, n)[i] = wire[i]
        BY <1>1, Cut
      <3>3. IsSeq(wire') /\ Extended(n, Message("disconnect", 0))
        BY <3>1, <3>2, Appended DEF Extended
      <3>4. Message("disconnect", 0).topic \notin SnapTopic /\ Packet(Message("disconnect", 0), starts', Len(snaps'))
        BY DEF Message, Packet, SnapTopic
      <3>5. n \in Nat
        BY <1>1
      <3> QED
        BY <2>1, <3>3, <3>4, <3>5 DEF WireStep
    <2> QED
      BY <1>11, <2>2, <2>3 DEF Disconnect
  <1> QED
    BY <1>2, <1>3, <1>5, <1>6, <1>7, <1>8, <1>9, <1>10, <1>11 DEF MNext, GoesOn

(* Packets leave the store when they are acknowledged or the store is      *)
(* emptied, and enter it when they are published.                          *)
StoreStep ==
    \/ store' \subseteq store
    \/ \E m : /\ store' \subseteq store \cup {m}
              /\ m.topic \in {"config", "status"} /\ Packet(m, starts', Len(snaps'))
    \/ \E p \in publishers : /\ PublishNext(p) /\ p.todo # <<>>
                             /\ store' \subseteq store \cup {Message(Head(p.todo), p.tick)}

LEMMA HowTheStoreMoves ==
    ASSUME WireInv, [MNext]_mvars
    PROVE  StoreStep
  <1>1. starts \in Nat
    BY DEF WireInv, Types
  <1>2. CASE \/ Start \/ Tick \/ Break \/ Will \/ Stop \/ Connect \/ Lose \/ Disconnect \/ Die
             \/ Deliver \/ UNCHANGED mvars
             \/ \E p \in publishers : PublishReturns(p)
             \/ \E m \in resend : Resend(m)
    <2>1. store' \subseteq store
      BY <1>2 DEF Start, Tick, Break, Will, Stop, Connect, Lose, Disconnect, Die, Deliver, Forget,
                  PublishReturns, Resend, mvars, client, kept
    <2> QED
      BY <2>1 DEF StoreStep
  <1>3. CASE PublishDiscovery
    <2>1. store' \subseteq store \cup {Message("config", starts)} /\ starts' = starts
      BY <1>3 DEF PublishDiscovery, Queue
    <2>2. Message("config", starts).topic = "config" /\ Packet(Message("config", starts), starts', Len(snaps'))
      BY <1>1, <2>1 DEF Message, Packet
    <2> QED
      BY <2>1, <2>2 DEF StoreStep
  <1>4. ASSUME NEW n \in handlers, OnConnect(n)
        PROVE  StoreStep
    <2>1. store' \subseteq store \cup {Message("status", n)}
      BY <1>4 DEF OnConnect, Queue
    <2>2. Message("status", n).topic = "status" /\ Packet(Message("status", n), starts', Len(snaps'))
      BY DEF Message, Packet
    <2> QED
      BY <2>1, <2>2 DEF StoreStep
  <1>5. CASE Close
    <2>1. store' \subseteq store \cup {Message("status", Offline)}
      BY <1>5 DEF Close, Queue, kept
    <2>2. Message("status", Offline).topic = "status" /\ Packet(Message("status", Offline), starts', Len(snaps'))
      BY DEF Message, Packet
    <2> QED
      BY <2>1, <2>2 DEF StoreStep
  <1>6. ASSUME NEW p \in publishers, PublishNext(p)
        PROVE  StoreStep
    <2>1. store' \subseteq store \cup {Message(Head(p.todo), p.tick)} /\ p.todo # <<>>
      BY <1>6 DEF PublishNext, Queue
    <2> QED
      BY <1>6, <2>1 DEF StoreStep
  <1> QED
    BY <1>2, <1>3, <1>4, <1>5, <1>6 DEF MNext, GoesOn

-----------------------------------------------------------------------------
(* What is on the wire *)

(* A packet stays one as ticks and starts go on. *)
LEMMA PacketStays ==
    ASSUME NEW start \in Nat, NEW start2 \in Nat, start <= start2,
           NEW tick \in Nat, NEW tick2 \in Nat, tick <= tick2,
           NEW m, Packet(m, start, tick)
    PROVE  Packet(m, start2, tick2)
  <1>1. m.val \in 0 .. start => m.val \in 0 .. start2
    OBVIOUS
  <1>2. m.val \in 1 .. tick => m.val \in 1 .. tick2
    OBVIOUS
  <1> QED
    BY <1>1, <1>2 DEF Packet

LEMMA PacketsKept ==
    ASSUME WireInv, [MNext]_mvars
    PROVE  Packets' /\ StorePackets'
  <1>1. /\ IsSeq(wire) /\ IsSeq(snaps) /\ starts \in Nat /\ Packets /\ StorePackets /\ Publishers
    BY DEF WireInv, Types
  <1>2. /\ SnapsGrow /\ starts' \in Nat /\ starts <= starts'
    BY <1>1, SnapsOnlyGrow, StartsOnlyGrow
  <1>3. Len(snaps) \in Nat /\ Len(snaps') \in Nat /\ Len(snaps) <= Len(snaps')
    BY <1>1, <1>2, LengthIsNat DEF SnapsGrow
  <1>4. \A i \in 1 .. Len(wire) : Packet(wire[i], starts', Len(snaps'))
    BY <1>1, <1>2, <1>3, PacketStays DEF Packets
  <1>5. \A m \in store : m.topic # "disconnect" /\ Packet(m, starts', Len(snaps'))
    BY <1>1, <1>2, <1>3, PacketStays DEF StorePackets
  <1>6. IsSeq(wire') /\ Len(wire) \in Nat /\ Len(wire') \in Nat
    BY <1>1, HowTheWireMoves, LengthIsNat
  <1>7. ASSUME NEW p \in publishers, p.todo # <<>>
        PROVE  /\ Packet(Message(Head(p.todo), p.tick), starts', Len(snaps'))
               /\ Message(Head(p.todo), p.tick).topic # "disconnect"
    <2>1. p.tick \in 1 .. Len(snaps) /\ Head(p.todo) \in SnapTopic
      BY <1>1, <1>7, Beheaded DEF Publishers
    <2>2. p.tick \in 1 .. Len(snaps')
      BY <1>3, <2>1
    <2> QED
      BY <2>1, <2>2 DEF Packet, Message, SnapTopic
  <1>8. StorePackets'
    <2> SUFFICES ASSUME NEW m \in store', m \notin store
                 PROVE  m.topic # "disconnect" /\ Packet(m, starts', Len(snaps'))
      BY <1>5 DEF StorePackets
    <2>1. \/ m.topic \in {"config", "status"} /\ Packet(m, starts', Len(snaps'))
          \/ \E p \in publishers : p.todo # <<>> /\ m = Message(Head(p.todo), p.tick)
      BY HowTheStoreMoves DEF StoreStep
    <2> QED
      BY <1>7, <2>1
  <1> SUFFICES ASSUME NEW i \in 1 .. Len(wire') PROVE Packet(wire'[i], starts', Len(snaps'))
    BY <1>8 DEF Packets
  <1>9. CASE \E d \in Nat : Shortened(d)
    <2>1. PICK d \in Nat : Shortened(d)
      BY <1>9
    <2>2. i + d \in 1 .. Len(wire) /\ wire'[i] = wire[i + d]
      BY <1>6, <2>1 DEF Shortened
    <2> QED
      BY <1>4, <2>2
  <1>10. CASE \E n \in Nat : \E m : Extended(n, m) /\ Packet(m, starts', Len(snaps'))
    <2>0. PICK n \in Nat : \E m : Extended(n, m) /\ Packet(m, starts', Len(snaps'))
      BY <1>10
    <2>1. PICK m : Extended(n, m) /\ Packet(m, starts', Len(snaps'))
      BY <2>0
    <2>2. i = n + 1 \/ i \in 1 .. n
      BY <1>6, <2>1 DEF Extended
    <2>3. i \in 1 .. n => i \in 1 .. Len(wire) /\ wire'[i] = wire[i]
      BY <1>6, <2>1 DEF Extended
    <2> QED
      BY <1>4, <2>1, <2>2, <2>3 DEF Extended
  <1>11. Len(wire) \in Nat /\ 1 \in Nat
    BY <1>6
  <1> QED
    BY <1>9, <1>10, <1>11, <1>7, <1>5, HowTheWireMoves DEF WireStep

(* DISCONNECT is sent as the process ends; nothing is sent after that. *)
LEMMA DisconnectStaysLast ==
    ASSUME WireInv, [MNext]_mvars
    PROVE  DisconnectIsLast'
  <1>1. /\ IsSeq(wire) /\ DisconnectIsLast /\ StorePackets
    BY DEF WireInv, Types
  <1>2. Len(wire) \in Nat
    BY <1>1, LengthIsNat
  <1>3. CASE wire' = <<>>
    BY <1>3, EmptyIsSeq DEF DisconnectIsLast
  <1>4. CASE wire' = wire /\ (phase' = phase \/ phase' = "down" \/ phase # "down")
    BY <1>1, <1>4 DEF DisconnectIsLast
  <1>5. ASSUME NEW m, wire' = Append(wire, m) \/ wire' = wire, m.topic # "disconnect", phase # "down"
        PROVE  DisconnectIsLast'
    <2>1. CASE wire' = wire
      BY <1>1, <1>5, <2>1 DEF DisconnectIsLast
    <2>2. CASE Extended(Len(wire), m)
      <3> SUFFICES ASSUME NEW i \in 1 .. Len(wire') PROVE wire'[i].topic # "disconnect"
        BY DEF DisconnectIsLast
      <3>1. i = Len(wire) + 1 \/ (i \in 1 .. Len(wire) /\ wire'[i] = wire[i])
        BY <1>2, <2>2 DEF Extended
      <3> QED
        BY <1>1, <1>5, <2>2, <3>1 DEF DisconnectIsLast, Extended
    <2> QED
      BY <1>1, <1>5, <2>1, <2>2, Appended DEF Extended
  <1>6. CASE Deliver
    <2>1. wire # <<>> /\ wire' = Tail(wire) /\ phase' = phase
      BY <1>6 DEF Deliver, process
    <2>2. Shortened(1)
      BY <1>1, <2>1, Beheaded DEF Shortened
    <2>3. Len(wire') = Len(wire) - 1
      BY <1>1, <2>1, Beheaded
    <2> SUFFICES ASSUME NEW i \in 1 .. Len(wire'), wire'[i].topic = "disconnect"
                 PROVE  phase = "down" /\ i = Len(wire')
      BY <2>1 DEF DisconnectIsLast
    <2>4. i + 1 \in 1 .. Len(wire) /\ wire'[i] = wire[i + 1]
      BY <1>2, <2>2, <2>3 DEF Shortened
    <2> QED
      BY <1>1, <1>2, <2>3, <2>4 DEF DisconnectIsLast
  <1>7. CASE Disconnect
    <2>1. phase = "closing" /\ phase' = "down"
      BY <1>7 DEF Disconnect
    <2>2. CASE \E n \in 0 .. Len(wire) :
                  wire' = Append(SubSeq(wire, 1, n), Message("disconnect", 0))
      <3>1. PICK n \in 0 .. Len(wire) :
               wire' = Append(SubSeq(wire, 1, n), Message("disconnect", 0))
        BY <2>2
      <3>2. /\ IsSeq(SubSeq(wire, 1, n)) /\ Len(SubSeq(wire, 1, n)) = n
            /\ \A i \in 1 .. n : SubSeq(wire, 1, n)[i] = wire[i]
        BY <1>1, Cut
      <3>3. Extended(n, Message("disconnect", 0))
        BY <3>1, <3>2, Appended DEF Extended
      <3> SUFFICES ASSUME NEW i \in 1 .. Len(wire'), wire'[i].topic = "disconnect"
                   PROVE  i = Len(wire')
        BY <2>1 DEF DisconnectIsLast
      <3>4. i = n + 1 \/ (i \in 1 .. Len(wire) /\ wire'[i] = wire[i])
        BY <1>2, <3>3 DEF Extended
      <3> QED
        BY <1>1, <2>1, <3>3, <3>4 DEF DisconnectIsLast, Extended
    <2> QED
      BY <1>3, <1>7, <2>2 DEF Disconnect
  <1>8. CASE PublishDiscovery
    <2>1. wire' = Append(wire, Message("config", starts)) \/ wire' = wire
      BY <1>8 DEF PublishDiscovery, Queue
    <2>2. Message("config", starts).topic # "disconnect" /\ phase # "down"
      BY <1>8 DEF PublishDiscovery, Message
    <2> QED
      BY <1>5, <2>1, <2>2
  <1>9. ASSUME NEW n \in handlers, OnConnect(n)
        PROVE  DisconnectIsLast'
    <2>1. wire' = Append(wire, Message("status", n)) \/ wire' = wire
      BY <1>9 DEF OnConnect, Queue
    <2>2. Message("status", n).topic # "disconnect" /\ phase # "down"
      BY <1>9 DEF OnConnect, Message
    <2> QED
      BY <1>5, <2>1, <2>2
  <1>10. CASE Close
    <2>1. wire' = Append(wire, Message("status", Offline)) \/ wire' = wire
      BY <1>10 DEF Close, Queue
    <2>2. Message("status", Offline).topic # "disconnect" /\ phase # "down"
      BY <1>10 DEF Close, Message
    <2> QED
      BY <1>5, <2>1, <2>2
  <1>11. ASSUME NEW p \in publishers, PublishNext(p)
         PROVE  DisconnectIsLast'
    <2>1. /\ phase # "down" /\ p.todo # <<>>
          /\ wire' = Append(wire, Message(Head(p.todo), p.tick)) \/ wire' = wire
      BY <1>11 DEF PublishNext, Queue
    <2>2. Head(p.todo) \in SnapTopic
      BY <2>1, Beheaded DEF WireInv, Publishers
    <2>3. Message(Head(p.todo), p.tick).topic # "disconnect"
      BY <2>2 DEF Message, SnapTopic
    <2> QED
      BY <1>5, <2>1, <2>3
  <1>12. ASSUME NEW m \in resend, Resend(m)
         PROVE  DisconnectIsLast'
    <2>1. wire' = wire \/ (m \in store /\ wire' = Append(wire, m))
      BY <1>12 DEF Resend
    <2>2. phase' = phase
      BY <1>12 DEF Resend, process
    <2>3. CASE wire' = wire
      BY <1>4, <2>2, <2>3
    <2>4. CASE m \in store /\ wire' = Append(wire, m)
      <3>1. phase # "down" /\ m.topic # "disconnect"
        BY <1>1, <2>4 DEF WireInv, Types, MTypeOK, StorePackets
      <3> QED
        BY <1>5, <2>4, <3>1
    <2> QED
      BY <2>1, <2>3, <2>4
  <1>13. CASE \/ Start \/ Tick \/ Connect \/ Break \/ Lose \/ Will \/ Stop \/ Die \/ UNCHANGED mvars
              \/ \E p \in publishers : PublishReturns(p)
    <2>1. \/ wire' = <<>>
          \/ wire' = wire /\ (phase' = phase \/ phase # "down")
      BY <1>13 DEF Start, Tick, Connect, Break, Lose, Will, Stop, Die, PublishReturns, mvars, process, client
    <2> QED
      BY <1>3, <1>4, <2>1
  <1> QED
    BY <1>6, <1>7, <1>8, <1>9, <1>10, <1>11, <1>12, <1>13 DEF MNext, GoesOn

-----------------------------------------------------------------------------
(* Types *)

(* What a delivery may change on the broker. *)
LEMMA DeliveredTypes ==
    ASSUME WireInv, Deliver
    PROVE  /\ retained' \in [Topic -> Nat]
           /\ \A t \in Topic : \/ retained'[t] = retained[t]
                                \/ retained'[t] \in 0 .. (IF t = "config" THEN starts ELSE Len(snaps))
           /\ status' \in {"", "online", "offline"}
           /\ conn' = conn \/ (conn' = "closed" /\ phase = "down" /\ wire' = <<>>)
           /\ Connected
  <1>1. /\ IsSeq(wire) /\ IsSeq(snaps) /\ wire # <<>> /\ Packets /\ starts \in Nat
        /\ status \in {"", "online", "offline"} /\ retained \in [Topic -> Nat]
    BY DEF WireInv, Types, MTypeOK, Deliver
  <1>2. Len(wire) \in Nat /\ 1 \in 1 .. Len(wire) /\ wire[1] = Head(wire) /\ Len(snaps) \in Nat
    <2>1. Len(wire) \in Nat /\ Len(wire) >= 1 /\ wire[1] = Head(wire)
      BY <1>1, Beheaded
    <2>2. Len(snaps) \in Nat
      BY <1>1, LengthIsNat
    <2> QED
      BY <2>1, <2>2
  <1>3. Packet(Head(wire), starts, Len(snaps))
    BY <1>1, <1>2 DEF Packets
  <1>4. Head(wire).topic = "disconnect" => phase = "down" /\ wire' = <<>>
    <2> SUFFICES ASSUME Head(wire).topic = "disconnect" PROVE phase = "down" /\ wire' = <<>>
      OBVIOUS
    <2>1. phase = "down" /\ Len(wire) = 1
      BY <1>2 DEF WireInv, DisconnectIsLast
    <2>2. wire' = Tail(wire)
      BY DEF Deliver
    <2>3. IsSeq(Tail(wire)) /\ Len(Tail(wire)) = Len(wire) - 1
      BY <1>1, Beheaded
    <2>4. IsSeq(wire') /\ Len(wire') = 0
      BY <2>1, <2>2, <2>3
    <2> QED
      BY <2>1, <2>4, LengthIsNat
  <1>5. Connected
    BY DEF Deliver
  <1>6. CASE Head(wire).topic = "status"
    <2>1. status' = Shown(Head(wire).val) /\ conn' = conn /\ retained' = retained
      BY <1>6 DEF Deliver
    <2> QED
      BY <1>1, <1>5, <2>1 DEF Shown
  <1>7. CASE Head(wire).topic = "disconnect"
    <2>1. status' = status /\ conn' = "closed" /\ retained' = retained
      BY <1>7 DEF Deliver
    <2> QED
      BY <1>1, <1>4, <1>7, <1>5, <2>1
  <1>8. CASE Head(wire).topic \notin {"status", "disconnect"}
    <2>1. /\ retained' = [retained EXCEPT ![Head(wire).topic] = Head(wire).val]
          /\ status' = status /\ conn' = conn
      BY <1>8 DEF Deliver
    <2>2. /\ Head(wire).topic \in Topic
          /\ Head(wire).val \in 0 .. (IF Head(wire).topic = "config" THEN starts ELSE Len(snaps))
      <3>1. CASE Head(wire).topic = "config" /\ Head(wire).val \in 0 .. starts
        BY <3>1 DEF Topic
      <3>2. CASE Head(wire).topic \in SnapTopic /\ Head(wire).val \in 1 .. Len(snaps)
        <4>1. Head(wire).topic \in Topic /\ Head(wire).topic # "config"
          BY <3>2 DEF SnapTopic, Topic
        <4>2. Head(wire).val \in 0 .. Len(snaps)
          BY <1>2, <3>2
        <4> QED
          BY <4>1, <4>2
      <3> QED
        BY <1>3, <1>8, <3>1, <3>2 DEF Packet
    <2>3. Head(wire).val \in Nat
      <3>1. \A n \in Nat : 0 .. n \subseteq Nat
        OBVIOUS
      <3> QED
        BY <1>1, <1>2, <2>2, <3>1
    <2> QED
      BY <1>1, <1>5, <2>1, <2>2, <2>3
  <1> QED
    BY <1>6, <1>7, <1>8

(* What the type invariant says of the connection, and of what is in it or *)
(* stored for it.                                                          *)
ConnectionTypes ==
    /\ conn \in {"closed", "connecting", "reconnecting", "open", "deaf"}
    /\ ~Connected => wire = <<>> /\ resend = {}
    /\ phase = "down" => store = {} /\ resend = {}
    /\ phase # "down" => conn # "closed"

LEMMA ConnectionTypesKept ==
    ASSUME WireInv, [MNext]_mvars
    PROVE  ConnectionTypes'
  <1>1. ConnectionTypes
    BY DEF WireInv, Types, MTypeOK, ConnectionTypes
  <1>2. CASE Start \/ Connect \/ Break \/ Lose \/ Disconnect \/ Die
    <2>1. CASE Start
      BY <2>1 DEF Start, Forget, ConnectionTypes, Connected
    <2>2. CASE Connect
      BY <2>2 DEF Connect, process, ConnectionTypes, Connected
    <2>3. CASE Break
      BY <1>1, <2>3 DEF Break, process, kept, ConnectionTypes, Connected
    <2>4. CASE Lose
      BY <1>1, <2>4 DEF Lose, process, ConnectionTypes, Connected
    <2>5. CASE Disconnect
      BY <1>1, <2>5 DEF Disconnect, Forget, ConnectionTypes, Connected
    <2>6. CASE Die
      BY <2>6 DEF Die, Forget, ConnectionTypes, Connected
    <2> QED
      BY <1>2, <2>1, <2>2, <2>3, <2>4, <2>5, <2>6
  <1>3. CASE \/ PublishDiscovery \/ Close \/ (\E n \in handlers : OnConnect(n))
             \/ \E p \in publishers : PublishNext(p)
    <2>1. /\ phase # "down" /\ phase' # "down" /\ conn' = conn /\ resend' = resend
          /\ ~Connected => wire' = wire
      BY <1>3 DEF PublishDiscovery, Close, OnConnect, PublishNext, Queue, process, kept
    <2> QED
      BY <1>1, <2>1 DEF ConnectionTypes, Connected
  <1>4. ASSUME NEW m \in resend, Resend(m)
        PROVE  ConnectionTypes'
    <2>1. conn' = conn /\ phase' = phase /\ store' = store /\ resend' \subseteq resend
      BY <1>4 DEF Resend, process
    <2> QED
      BY <1>1, <1>4, <2>1 DEF ConnectionTypes, Connected
  <1>5. CASE Deliver
    <2>1. phase' = phase /\ store' \subseteq store /\ resend' = resend
      BY <1>5 DEF Deliver, process
    <2>2. Connected /\ (conn' = conn \/ (conn' = "closed" /\ phase = "down" /\ wire' = <<>>))
      BY <1>5, DeliveredTypes
    <2> QED
      BY <1>1, <2>1, <2>2 DEF ConnectionTypes, Connected
  <1>6. CASE \/ Tick \/ Will \/ Stop \/ UNCHANGED mvars
             \/ \E p \in publishers : PublishReturns(p)
    <2>1. UNCHANGED client /\ (phase' = phase \/ (phase # "down" /\ phase' # "down"))
      BY <1>6 DEF Tick, Will, Stop, PublishReturns, mvars, process
    <2> QED
      BY <1>1, <2>1 DEF ConnectionTypes, Connected, client, kept
  <1> QED
    BY <1>2, <1>3, <1>4, <1>5, <1>6 DEF MNext, GoesOn

LEMMA TypesKept ==
    ASSUME WireInv, [MNext]_mvars, Publishers'
    PROVE  Types'
  <1>1. Types
    BY DEF WireInv
  <1>2. /\ IsSeq(snaps) /\ IsSeq(snaps') /\ IsSeq(wire') /\ SnapsGrow
        /\ starts' \in Nat /\ starts <= starts' /\ starts \in Nat
    BY <1>1, SnapsOnlyGrow, StartsOnlyGrow, HowTheWireMoves DEF Types, SnapsGrow
  <1>3. Len(snaps) \in Nat /\ Len(snaps') \in Nat /\ Len(snaps) <= Len(snaps')
    BY <1>2, LengthIsNat DEF SnapsGrow
  <1>4. /\ phase' \in {"down", "starting", "looping", "draining", "closing"}
        /\ phase' # "down" => phase # "down" \/ conn' = "connecting"
    BY <1>1 DEF Types, MTypeOK, MNext, GoesOn, Start, PublishDiscovery, Tick, PublishNext, PublishReturns,
           Connect, Resend, OnConnect, Break, Lose, Deliver, Will, Stop, Close, Disconnect, Die, mvars, process
  <1>5. ConnectionTypes'
    BY ConnectionTypesKept
  <1>6. qos' \in {0, 1}
    <2>1. qos' = qos
      BY DEF MNext, GoesOn, Start, PublishDiscovery, Tick, PublishNext, PublishReturns, Connect, Resend,
             OnConnect, Break, Lose, Deliver, Will, Stop, Close, Disconnect, Die, mvars
    <2> QED
      BY <1>1, <2>1 DEF Types
  <1>7. /\ retained' \in [Topic -> Nat]
        /\ \A t \in Topic : retained'[t] \in 0 .. (IF t = "config" THEN starts' ELSE Len(snaps'))
        /\ status' \in {"", "online", "offline"}
    <2>1. /\ retained \in [Topic -> Nat] /\ status \in {"", "online", "offline"}
          /\ \A t \in Topic : retained[t] \in 0 .. (IF t = "config" THEN starts ELSE Len(snaps))
      BY <1>1 DEF Types, MTypeOK
    <2>2. /\ retained' \in [Topic -> Nat] /\ status' \in {"", "online", "offline"}
          /\ \A t \in Topic : \/ retained'[t] = retained[t]
                              \/ retained'[t] \in 0 .. (IF t = "config" THEN starts ELSE Len(snaps))
      <3>1. CASE Deliver
        BY <3>1, DeliveredTypes
      <3>2. CASE ~Deliver
        <4>1. retained' = retained /\ status' \in {status, "offline"}
          BY <3>2 DEF MNext, GoesOn, Start, PublishDiscovery, Tick, PublishNext, PublishReturns, Connect,
                      Resend, OnConnect, Break, Lose, Will, Stop, Close, Disconnect, Die, mvars, broker
        <4> QED
          BY <2>1, <4>1
      <3> QED
        BY <3>1, <3>2
    <2>3. \A t \in Topic : retained'[t] \in 0 .. (IF t = "config" THEN starts ELSE Len(snaps))
      BY <2>1, <2>2
    <2>4. 0 .. starts \subseteq 0 .. starts' /\ 0 .. Len(snaps) \subseteq 0 .. Len(snaps')
      BY <1>2, <1>3
    <2> QED
      BY <2>2, <2>3, <2>4
  <1>8. \A p \in publishers' : p.tick \in DOMAIN snaps'
    BY <1>2, LengthIsNat DEF Publishers
  <1> QED
    BY <1>2, <1>4, <1>5, <1>6, <1>7, <1>8 DEF Types, MTypeOK, ConnectionTypes

-----------------------------------------------------------------------------
(* The publishers *)

LEMMA UpdatedRecords ==
    ASSUME NEW tick, NEW todo, NEW returned, NEW x, NEW p,
           p = [tick |-> tick, todo |-> todo, returned |-> returned]
    PROVE  /\ [p EXCEPT !.todo = x] = [tick |-> tick, todo |-> x, returned |-> returned]
           /\ [p EXCEPT !.returned = x] = [tick |-> tick, todo |-> todo, returned |-> x]
  <1>1. [p EXCEPT !.todo = x] = [tick |-> tick, todo |-> x, returned |-> returned]
    OBVIOUS
  <1>2. [p EXCEPT !.returned = x] = [tick |-> tick, todo |-> todo, returned |-> x]
    OBVIOUS
  <1> QED
    BY <1>1, <1>2

(* A publisher that goes on, with the number of its tick unchanged. *)
LEMMA PublisherGoesOn ==
    ASSUME WireInv, NEW p \in publishers
    PROVE  /\ p.todo # <<>> =>
              [p EXCEPT !.todo = Tail(@)] =
                 [tick |-> p.tick, todo |-> Tail(p.todo), returned |-> p.returned]
           /\ [p EXCEPT !.returned = TRUE] = [tick |-> p.tick, todo |-> p.todo, returned |-> TRUE]
  <1>1. PICK tick, todo, returned : p = [tick |-> tick, todo |-> todo, returned |-> returned]
    BY DEF WireInv, Publishers
  <1>2. p.tick = tick /\ p.todo = todo /\ p.returned = returned
    BY <1>1
  <1>3. \A x : [p EXCEPT !.todo = x] = [tick |-> tick, todo |-> x, returned |-> returned]
    BY <1>1, UpdatedRecords
  <1>4. \A x : [p EXCEPT !.returned = x] = [tick |-> tick, todo |-> todo, returned |-> x]
    BY <1>1, UpdatedRecords
  <1> QED
    BY <1>2, <1>3, <1>4, Zenon

(* A tick adds its snapshot, and the publisher of it. *)
LEMMA WhatATickAdds ==
    ASSUME Tick
    PROVE  \E snap :
              /\ snaps' = Append(snaps, snap) /\ snap.during = Running \cup Unacknowledged
              /\ publishers' = publishers \cup
                    {[tick |-> Len(snaps) + 1, todo |-> TopicsOf(snap), returned |-> FALSE]}
  <1>1. PICK o \in TickOutcome :
           /\ snaps' = Append(snaps, [known |-> o.known, during |-> Running \cup Unacknowledged])
           /\ publishers' = publishers \cup
                 {[tick |-> Len(snaps) + 1,
                   todo |-> TopicsOf([known |-> o.known, during |-> Running \cup Unacknowledged]),
                   returned |-> FALSE]}
    BY DEF Tick
  <1> DEFINE snap == [known |-> o.known, during |-> Running \cup Unacknowledged]
  <1>2. snap.during = Running \cup Unacknowledged
    OBVIOUS
  <1>3. /\ snaps' = Append(snaps, snap)
        /\ publishers' = publishers \cup
              {[tick |-> Len(snaps) + 1, todo |-> TopicsOf(snap), returned |-> FALSE]}
    BY <1>1
  <1> HIDE DEF snap
  <1> QED
    BY <1>2, <1>3

(* Where the publishers after a step come from. *)
LEMMA WhatThePublishersAre ==
    ASSUME WireInv, [MNext]_mvars, NEW q \in publishers'
    PROVE  \/ q \in publishers
           \/ /\ Tick
              /\ q = [tick |-> Len(snaps'), todo |-> TopicsOf(snaps'[Len(snaps')]), returned |-> FALSE]
           \/ \E p \in publishers :
                 /\ PublishNext(p) /\ phase # "down" /\ p.todo # <<>>
                 /\ q = [tick |-> p.tick, todo |-> Tail(p.todo), returned |-> p.returned]
           \/ \E p \in publishers :
                 /\ PublishReturns(p) /\ p.todo = <<>>
                 /\ q = [tick |-> p.tick, todo |-> p.todo, returned |-> TRUE]
  <1>1. CASE Tick
    <2>1. PICK snap :
             /\ snaps' = Append(snaps, snap)
             /\ publishers' = publishers \cup
                   {[tick |-> Len(snaps) + 1, todo |-> TopicsOf(snap), returned |-> FALSE]}
      BY <1>1, WhatATickAdds
    <2>2. Len(snaps') = Len(snaps) + 1 /\ snaps'[Len(snaps')] = snap
      BY <2>1, Appended DEF WireInv, Types
    <2> QED
      BY <1>1, <2>1, <2>2
  <1>2. ASSUME NEW p \in publishers, PublishNext(p), q \notin publishers
        PROVE  /\ phase # "down" /\ p.todo # <<>>
               /\ q = [tick |-> p.tick, todo |-> Tail(p.todo), returned |-> p.returned]
    <2>1. phase # "down" /\ p.todo # <<>> /\ q = [p EXCEPT !.todo = Tail(@)]
      BY <1>2 DEF PublishNext, Update
    <2> QED
      BY <2>1, PublisherGoesOn
  <1>3. ASSUME NEW p \in publishers, PublishReturns(p), q \notin publishers
        PROVE  p.todo = <<>> /\ q = [tick |-> p.tick, todo |-> p.todo, returned |-> TRUE]
    <2>1. p.todo = <<>> /\ q = [p EXCEPT !.returned = TRUE]
      BY <1>3 DEF PublishReturns, Update
    <2> QED
      BY <2>1, PublisherGoesOn
  <1>4. CASE \/ Start \/ PublishDiscovery \/ Connect \/ Break \/ Lose \/ Deliver \/ Will \/ Stop
             \/ Close \/ Disconnect \/ Die \/ UNCHANGED mvars
             \/ (\E m \in resend : Resend(m)) \/ (\E n \in handlers : OnConnect(n))
    BY <1>4 DEF Start, PublishDiscovery, Connect, Resend, OnConnect, Break, Lose, Deliver, Will, Stop,
                Close, Disconnect, Die, mvars, process
  <1> QED
    BY <1>1, <1>2, <1>3, <1>4 DEF MNext, GoesOn

LEMMA PublishersKept ==
    ASSUME WireInv, [MNext]_mvars
    PROVE  Publishers'
  <1>1. /\ Publishers /\ IsSeq(snaps) /\ SnapsGrow
    BY SnapsOnlyGrow DEF WireInv, Types
  <1>2. Len(snaps) \in Nat /\ Len(snaps') \in Nat /\ Len(snaps) <= Len(snaps')
    BY <1>1, LengthIsNat DEF SnapsGrow
  <1>3. 1 .. Len(snaps) \subseteq 1 .. Len(snaps')
    BY <1>2
  <1>4. ASSUME phase' \in {"closing", "down"}, publishers' # {}
        PROVE  /\ \A p \in publishers : p.todo = <<>>
               /\ ~Tick
    <2>1. CASE Close
      <3>1. \A p \in publishers : p.returned
        BY <2>1 DEF Close, Running
      <3>2. ~Tick
        BY <2>1 DEF Close, Tick
      <3> QED
        BY <1>1, <3>1, <3>2 DEF Publishers
    <2>2. CASE ~Close
      <3>1. phase \in {"closing", "down"} /\ ~Tick
        BY <1>4, <2>2 DEF MNext, GoesOn, Start, PublishDiscovery, Tick, PublishNext, PublishReturns,
                      Connect, Resend, OnConnect, Break, Lose, Deliver, Will, Stop, Disconnect, Die, mvars, process
      <3> QED
        BY <1>1, <3>1 DEF Publishers
    <2> QED
      BY <2>1, <2>2
  <1> SUFFICES ASSUME NEW q \in publishers'
               PROVE  /\ q = [tick |-> q.tick, todo |-> q.todo, returned |-> q.returned]
                      /\ q.tick \in 1 .. Len(snaps')
                      /\ IsSeq(q.todo)
                      /\ \A i \in 1 .. Len(q.todo) : q.todo[i] \in SnapTopic
                      /\ q.returned => q.todo = <<>>
                      /\ phase' \in {"closing", "down"} => q.todo = <<>>
    BY DEF Publishers
  <1>5. CASE q \in publishers
    BY <1>1, <1>3, <1>4, <1>5 DEF Publishers
  <1>6. CASE /\ Tick
             /\ q = [tick |-> Len(snaps'), todo |-> TopicsOf(snaps'[Len(snaps')]), returned |-> FALSE]
    <2>1. Len(snaps') = Len(snaps) + 1
      BY <1>1, <1>6, Appended DEF Tick
    <2>2. q.tick \in 1 .. Len(snaps')
      BY <1>2, <1>6, <2>1
    <2>3. IsSeq(q.todo) /\ \A i \in 1 .. Len(q.todo) : q.todo[i] \in SnapTopic
      BY <1>6, TopicsAreTold
    <2>4. phase' \notin {"closing", "down"}
      BY <1>4, <1>6
    <2> QED
      BY <1>6, <2>2, <2>3, <2>4
  <1>7. ASSUME NEW p \in publishers, p.todo # <<>>,
               q = [tick |-> p.tick, todo |-> Tail(p.todo), returned |-> p.returned]
        PROVE  /\ q.tick \in 1 .. Len(snaps')
               /\ IsSeq(q.todo)
               /\ \A i \in 1 .. Len(q.todo) : q.todo[i] \in SnapTopic
               /\ ~q.returned
               /\ phase' \notin {"closing", "down"}
    <2>1. /\ p.tick \in 1 .. Len(snaps) /\ IsSeq(p.todo) /\ ~p.returned
          /\ \A i \in 1 .. Len(p.todo) : p.todo[i] \in SnapTopic
      BY <1>1, <1>7 DEF Publishers
    <2>2. /\ IsSeq(q.todo) /\ Len(p.todo) \in Nat /\ Len(q.todo) = Len(p.todo) - 1
          /\ \A i \in 1 .. Len(q.todo) : q.todo[i] = p.todo[i + 1]
      BY <1>7, <2>1, Beheaded
    <2>3. \A i \in 1 .. Len(q.todo) : i + 1 \in 1 .. Len(p.todo)
      BY <2>2
    <2> QED
      BY <1>3, <1>4, <1>7, <2>1, <2>2, <2>3
  <1>8. ASSUME NEW p \in publishers, p.todo = <<>>,
               q = [tick |-> p.tick, todo |-> p.todo, returned |-> TRUE]
        PROVE  /\ q.tick \in 1 .. Len(snaps') /\ q.todo = <<>>
               /\ IsSeq(q.todo) /\ \A i \in 1 .. Len(q.todo) : q.todo[i] \in SnapTopic
    BY <1>1, <1>3, <1>8, EmptyIsSeq DEF Publishers
  <1> QED
    BY <1>5, <1>6, <1>7, <1>8, WhatThePublishersAre

LEMMA WireInvKept ==
    ASSUME WireInv, [MNext]_mvars
    PROVE  WireInv'
  BY PacketsKept, DisconnectStaysLast, PublishersKept, TypesKept DEF WireInv

LEMMA WireInvInit == MInit => WireInv
  <1> SUFFICES ASSUME MInit PROVE WireInv
    OBVIOUS
  <1>1. /\ snaps = <<>> /\ wire = <<>> /\ publishers = {} /\ starts = 0
        /\ store = {} /\ resend = {} /\ qos \in {0, 1}
    BY QosAssumption DEF MInit
  <1>2. Types
    <2>1. /\ retained \in [Topic -> Nat] /\ \A t \in Topic : retained[t] = 0
      BY DEF MInit
    <2>2. \A n \in Nat : 0 \in 0 .. n
      OBVIOUS
    <2>3. \A t \in Topic : retained[t] \in 0 .. (IF t = "config" THEN starts ELSE Len(snaps))
      BY <1>1, <2>1, <2>2, EmptyIsSeq
    <2>4. /\ phase = "down" /\ conn = "closed" /\ status = ""
      BY DEF MInit
    <2> QED
      BY <1>1, <2>1, <2>3, <2>4, EmptyIsSeq DEF Types, MTypeOK
  <1>3. Packets /\ StorePackets /\ DisconnectIsLast /\ Publishers
    BY <1>1, EmptyIsSeq DEF Packets, StorePackets, DisconnectIsLast, Publishers
  <1> QED
    BY <1>2, <1>3 DEF WireInv

LEMMA WireInvariance == MSpec => []WireInv
  BY WireInvInit, WireInvKept, PTL DEF MSpec

(* The broker shows nothing but ticks that were taken and processes that   *)
(* were started; there is something on the wire only while there is a      *)
(* connection and something stored only while there is a process; and as   *)
(* long as there is one it has a connection or is about to have one:       *)
(* however often connections break and processes end and are started anew. *)
THEOREM MqttTypeCorrect == MSpec => []MTypeOK
  <1>1. WireInv => MTypeOK
    BY DEF WireInv, Types
  <1> QED
    BY <1>1, WireInvariance, PTL

-----------------------------------------------------------------------------
(* The order of the packets *)

(* What is excused stays so, for the snapshots that were taken. *)
LEMMA ExcusedStays ==
    ASSUME IsSeq(snaps), SnapsGrow, NEW k \in Nat, NEW a \in 0 .. Len(snaps),
           Excused(k, a, snaps)
    PROVE  Excused(k, a, snaps')
  <1>1. CASE a = 0
    BY <1>1 DEF Excused
  <1>2. CASE a # 0
    <2>1. a \in 1 .. Len(snaps)
      BY <1>2, LengthIsNat
    <2> QED
      BY <2>1 DEF Excused, SnapsGrow
  <1> QED
    BY <1>1, <1>2

(* Values of the topics of snapshots are numbers of ticks that were taken. *)
LEMMA ValuesAreTicks ==
    ASSUME WireInv
    PROVE  /\ Len(snaps) \in Nat /\ Len(wire) \in Nat
           /\ \A i \in 1 .. Len(wire) :
                 wire[i].topic \in SnapTopic => wire[i].val \in 1 .. Len(snaps)
           /\ \A t \in SnapTopic : retained[t] \in 0 .. Len(snaps)
           /\ \A p \in publishers : p.tick \in 1 .. Len(snaps)
  <1>1. Len(snaps) \in Nat /\ Len(wire) \in Nat
    BY LengthIsNat DEF WireInv, Types
  <1>2. ASSUME NEW i \in 1 .. Len(wire), wire[i].topic \in SnapTopic
        PROVE  wire[i].val \in 1 .. Len(snaps)
    BY <1>2 DEF WireInv, Packets, Packet, SnapTopic
  <1>3. \A t \in SnapTopic : retained[t] \in 0 .. Len(snaps)
    BY DEF WireInv, Types, MTypeOK, SnapTopic, Topic
  <1>4. \A p \in publishers : p.tick \in 1 .. Len(snaps)
    BY DEF WireInv, Publishers
  <1> QED
    BY <1>1, <1>2, <1>3, <1>4

LEMMA PendingStaysExcused ==
    ASSUME WireInv, PendingExcused, [MNext]_mvars
    PROVE  PendingExcused'
  <1>1. /\ IsSeq(snaps) /\ SnapsGrow /\ (Tick \/ snaps' = snaps)
    BY SnapsOnlyGrow DEF WireInv, Types
  <1>2. Len(snaps) \in Nat /\ \A p \in publishers : p.tick \in 1 .. Len(snaps)
    BY ValuesAreTicks
  <1> SUFFICES ASSUME NEW q \in publishers', q.todo # <<>>, NEW a \in 1 .. Len(snaps')
               PROVE  Excused(q.tick, a, snaps')
    BY DEF PendingExcused
  <1>3. ASSUME NEW p \in publishers, p.todo # <<>>, NEW b \in 1 .. Len(snaps)
        PROVE  Excused(p.tick, b, snaps')
    <2>1. b \in 0 .. Len(snaps) /\ p.tick \in Nat
      BY <1>2, <1>3
    <2> QED
      BY <1>1, <1>3, <2>1, ExcusedStays DEF PendingExcused
  <1>4. CASE Tick
    <2>1. PICK snap :
             /\ snaps' = Append(snaps, snap) /\ snap.during = Running \cup Unacknowledged
             /\ publishers' = publishers \cup
                   {[tick |-> Len(snaps) + 1, todo |-> TopicsOf(snap), returned |-> FALSE]}
      BY <1>4, WhatATickAdds
    <2>2. Len(snaps') = Len(snaps) + 1 /\ Running \subseteq snaps'[Len(snaps) + 1].during
      BY <1>1, <2>1, Appended
    <2>3. CASE q \in publishers
      <3>1. ~q.returned
        BY <2>3 DEF WireInv, Publishers
      <3>2. q.tick \in Running
        BY <2>3, <3>1 DEF Running
      <3>3. a \in 1 .. Len(snaps) \/ a = Len(snaps) + 1
        BY <1>2, <2>2
      <3> QED
        BY <1>3, <2>2, <2>3, <3>2, <3>3 DEF Excused
    <2>4. CASE q \notin publishers
      <3>1. q.tick = Len(snaps) + 1
        BY <2>1, <2>4
      <3> QED
        BY <1>2, <2>2, <3>1 DEF Excused
    <2> QED
      BY <2>3, <2>4
  <1>5. CASE ~Tick
    <2>1. \E p \in publishers : p.todo # <<>> /\ p.tick = q.tick
      BY <1>5, WhatThePublishersAre
    <2> QED
      BY <1>1, <1>3, <1>5, <2>1
  <1> QED
    BY <1>4, <1>5

(* What is published has a publisher that is running, and what is in the   *)
(* store is not acknowledged: a new snapshot excuses both.                 *)
LEMMA StoreStaysExcused ==
    ASSUME WireInv, PendingExcused, StoreExcused, [MNext]_mvars
    PROVE  StoreExcused'
  <1>1. /\ IsSeq(snaps) /\ SnapsGrow /\ (Tick \/ snaps' = snaps)
    BY SnapsOnlyGrow DEF WireInv, Types
  <1>2. Len(snaps) \in Nat /\ \A p \in publishers : p.tick \in 1 .. Len(snaps)
    BY ValuesAreTicks
  <1> SUFFICES ASSUME NEW m \in store', m.topic \in SnapTopic, NEW a \in 1 .. Len(snaps')
               PROVE  Excused(m.val, a, snaps')
    BY DEF StoreExcused
  <1>3. CASE Tick
    <2>1. store' = store
      BY <1>3 DEF Tick, client, kept
    <2>2. PICK snap :
             /\ snaps' = Append(snaps, snap) /\ snap.during = Running \cup Unacknowledged
      BY <1>3, WhatATickAdds
    <2>3. Len(snaps') = Len(snaps) + 1 /\ Unacknowledged \subseteq snaps'[Len(snaps) + 1].during
      BY <1>1, <2>2, Appended
    <2>4. CASE a = Len(snaps) + 1
      <3>1. m.val \in Unacknowledged
        BY <2>1 DEF Unacknowledged, SnapTopic
      <3> QED
        BY <2>3, <2>4, <3>1 DEF Excused
    <2>5. CASE a # Len(snaps) + 1
      <3>1. a \in 1 .. Len(snaps)
        BY <1>2, <2>3, <2>5
      <3>2. Excused(m.val, a, snaps)
        BY <2>1, <3>1 DEF StoreExcused
      <3> QED
        BY <1>1, <3>1, <3>2 DEF Excused, SnapsGrow
    <2> QED
      BY <2>4, <2>5
  <1>4. CASE ~Tick
    <2>1. snaps' = snaps
      BY <1>1, <1>4
    <2>2. CASE m \in store
      BY <2>1, <2>2 DEF StoreExcused
    <2>3. CASE m \notin store
      <3>1. m.topic \notin {"config", "status"}
        BY DEF SnapTopic
      <3>2. PICK p \in publishers : p.todo # <<>> /\ m = Message(Head(p.todo), p.tick)
        BY <2>3, <3>1, HowTheStoreMoves DEF StoreStep
      <3>3. m.val = p.tick
        BY <3>2 DEF Message
      <3> QED
        BY <2>1, <3>2, <3>3 DEF PendingExcused
    <2> QED
      BY <2>2, <2>3
  <1> QED
    BY <1>3, <1>4

(* A packet that is handed over now is excused for all that came before. *)
LEMMA NewcomerIsExcused ==
    ASSUME WireInv, PendingExcused, NEW p \in publishers, p.todo # <<>>, SnapsGrow,
           NEW a \in 0 .. Len(snaps)
    PROVE  Excused(p.tick, a, snaps')
  <1>1. /\ IsSeq(snaps) /\ Len(snaps) \in Nat /\ p.tick \in Nat /\ p.tick >= 1
    BY ValuesAreTicks DEF WireInv, Types
  <1>2. CASE a = 0
    BY <1>1, <1>2 DEF Excused
  <1>3. CASE a # 0
    <2>1. a \in 1 .. Len(snaps)
      BY <1>1, <1>3
    <2>2. Excused(p.tick, a, snaps)
      BY <2>1 DEF PendingExcused
    <2> QED
      BY <1>1, <2>2, ExcusedStays
  <1> QED
    BY <1>2, <1>3

(* So is one that is sent again. *)
LEMMA ResentIsExcused ==
    ASSUME WireInv, StoreExcused, NEW m \in store, m.topic \in SnapTopic, SnapsGrow,
           NEW a \in 0 .. Len(snaps)
    PROVE  Excused(m.val, a, snaps')
  <1>1. /\ IsSeq(snaps) /\ Len(snaps) \in Nat /\ m.val \in 1 .. Len(snaps)
    BY ValuesAreTicks DEF WireInv, Types, StorePackets, Packet, SnapTopic
  <1>2. m.val \in Nat
    BY <1>1
  <1>3. CASE a = 0
    BY <1>1, <1>3 DEF Excused
  <1>4. CASE a # 0
    <2>1. a \in 1 .. Len(snaps)
      BY <1>1, <1>4
    <2>2. Excused(m.val, a, snaps)
      BY <2>1 DEF StoreExcused
    <2> QED
      BY <1>1, <1>2, <2>2, ExcusedStays
  <1> QED
    BY <1>3, <1>4

LEMMA WireStaysExcused ==
    ASSUME WireInv, PendingExcused, StoreExcused, WireExcused, [MNext]_mvars
    PROVE  WireExcused'
  <1>1. /\ IsSeq(snaps) /\ SnapsGrow /\ IsSeq(wire') /\ WireStep
    BY SnapsOnlyGrow, HowTheWireMoves DEF WireInv, Types
  <1>2. /\ Len(wire) \in Nat /\ Len(wire') \in Nat /\ Len(snaps) \in Nat
        /\ \A i \in 1 .. Len(wire) :
              wire[i].topic \in SnapTopic => wire[i].val \in 1 .. Len(snaps)
    BY <1>1, ValuesAreTicks, LengthIsNat
  <1>3. ASSUME NEW i \in 1 .. Len(wire), NEW j \in 1 .. Len(wire), i < j,
               wire[i].topic = wire[j].topic, wire[j].topic \in SnapTopic
        PROVE  Excused(wire[j].val, wire[i].val, snaps')
    <2>1. Excused(wire[j].val, wire[i].val, snaps)
      BY <1>3 DEF WireExcused
    <2>2. wire[j].val \in Nat /\ wire[i].val \in 0 .. Len(snaps)
      BY <1>2, <1>3
    <2> QED
      BY <1>1, <2>1, <2>2, ExcusedStays
  <1> SUFFICES ASSUME NEW i \in 1 .. Len(wire'), NEW j \in 1 .. Len(wire'), i < j,
                      wire'[i].topic = wire'[j].topic, wire'[j].topic \in SnapTopic
               PROVE  Excused(wire'[j].val, wire'[i].val, snaps')
    BY DEF WireExcused
  <1>4. CASE \E d \in Nat : Shortened(d)
    <2>1. PICK d \in Nat : Shortened(d)
      BY <1>4
    <2>2. /\ i + d \in 1 .. Len(wire) /\ wire'[i] = wire[i + d]
          /\ j + d \in 1 .. Len(wire) /\ wire'[j] = wire[j + d] /\ i + d < j + d
      BY <1>2, <2>1, SMTT(30) DEF Shortened
    <2> QED
      BY <1>3, <2>2
  <1>5. ASSUME NEW n \in Nat, NEW m, Extended(n, m),
               m.topic \in SnapTopic =>
                  \A b \in 1 .. Len(wire) : wire[b].topic \in SnapTopic => Excused(m.val, wire[b].val, snaps')
        PROVE  Excused(wire'[j].val, wire'[i].val, snaps')
    <2>1. i \in 1 .. n /\ i \in 1 .. Len(wire) /\ wire'[i] = wire[i]
      BY <1>2, <1>5 DEF Extended
    <2>2. j = n + 1 \/ (j \in 1 .. Len(wire) /\ wire'[j] = wire[j])
      BY <1>2, <1>5 DEF Extended
    <2>3. CASE j = n + 1
      BY <1>5, <2>1, <2>3 DEF Extended
    <2>4. CASE j \in 1 .. Len(wire) /\ wire'[j] = wire[j]
      BY <1>3, <2>1, <2>4
    <2> QED
      BY <2>2, <2>3, <2>4
  <1>6. ASSUME NEW p \in publishers, p.todo # <<>>,
               Extended(Len(wire), Message(Head(p.todo), p.tick))
        PROVE  Excused(wire'[j].val, wire'[i].val, snaps')
    <2>1. \A b \in 1 .. Len(wire) :
             wire[b].topic \in SnapTopic => Excused(p.tick, wire[b].val, snaps')
      <3> SUFFICES ASSUME NEW b \in 1 .. Len(wire), wire[b].topic \in SnapTopic
                   PROVE  Excused(p.tick, wire[b].val, snaps')
        OBVIOUS
      <3>1. wire[b].val \in 0 .. Len(snaps)
        BY <1>2
      <3> QED
        BY <1>1, <1>6, <3>1, NewcomerIsExcused
    <2>2. Message(Head(p.todo), p.tick).val = p.tick
      BY DEF Message
    <2> QED
      BY <1>2, <1>5, <1>6, <2>1, <2>2
  <1>7. ASSUME NEW m \in store, Extended(Len(wire), m)
        PROVE  Excused(wire'[j].val, wire'[i].val, snaps')
    <2>1. ASSUME m.topic \in SnapTopic, NEW b \in 1 .. Len(wire), wire[b].topic \in SnapTopic
          PROVE  Excused(m.val, wire[b].val, snaps')
      <3>1. wire[b].val \in 0 .. Len(snaps)
        BY <1>2, <2>1
      <3> QED
        BY <1>1, <2>1, <3>1, ResentIsExcused
    <2> QED
      BY <1>2, <1>5, <1>7, <2>1
  <1> QED
    BY <1>1, <1>4, <1>5, <1>6, <1>7 DEF WireStep

(* What a delivery shows: the head of the wire, under its topic. *)
LEMMA WhatIsShown ==
    ASSUME WireInv, Deliver, NEW t \in SnapTopic
    PROVE  /\ 1 \in 1 .. Len(wire)
           /\ retained'[t] = IF wire[1].topic = t THEN wire[1].val ELSE retained[t]
  <1>1. /\ IsSeq(wire) /\ wire # <<>> /\ retained \in [Topic -> Nat]
    BY DEF WireInv, Types, Deliver
  <1>2. /\ Len(wire) \in Nat /\ Len(wire) >= 1 /\ Head(wire) = wire[1]
    BY <1>1, Beheaded
  <1>3. 1 \in 1 .. Len(wire)
    BY <1>2
  <1>4. t \in Topic /\ t # "status" /\ t # "disconnect"
    BY DEF SnapTopic, Topic
  <1>5. CASE Head(wire).topic = "status"
    BY <1>2, <1>3, <1>4, <1>5 DEF Deliver
  <1>6. CASE Head(wire).topic = "disconnect"
    BY <1>2, <1>3, <1>4, <1>6 DEF Deliver
  <1>7. CASE Head(wire).topic \notin {"status", "disconnect"}
    <2>1. retained' = [retained EXCEPT ![wire[1].topic] = wire[1].val]
      BY <1>2, <1>7 DEF Deliver
    <2> QED
      BY <1>1, <1>3, <1>4, <2>1
  <1> QED
    BY <1>5, <1>6, <1>7

(* Nothing but a delivery changes what is shown. *)
LEMMA OnlyDeliveryShows ==
    ASSUME [MNext]_mvars, ~Deliver
    PROVE  retained' = retained
  BY DEF MNext, GoesOn, Start, PublishDiscovery, Tick, PublishNext, PublishReturns, Connect, Resend,
         OnConnect, Break, Lose, Will, Stop, Close, Disconnect, Die, mvars, broker

LEMMA ShownStaysExcused ==
    ASSUME WireInv, OrderInv, [MNext]_mvars
    PROVE  ShownExcused'
  <1>1. /\ IsSeq(snaps) /\ SnapsGrow /\ IsSeq(wire') /\ WireStep
    BY SnapsOnlyGrow, HowTheWireMoves DEF WireInv, Types
  <1>2. /\ Len(wire) \in Nat /\ Len(wire') \in Nat /\ Len(snaps) \in Nat
        /\ \A i \in 1 .. Len(wire) :
              wire[i].topic \in SnapTopic => wire[i].val \in 1 .. Len(snaps)
        /\ \A t \in SnapTopic : retained[t] \in 0 .. Len(snaps)
    BY <1>1, ValuesAreTicks, LengthIsNat
  <1>3. ASSUME NEW j \in 1 .. Len(wire), wire[j].topic \in SnapTopic
        PROVE  Excused(wire[j].val, retained[wire[j].topic], snaps')
    <2>1. Excused(wire[j].val, retained[wire[j].topic], snaps)
      BY <1>3 DEF OrderInv, ShownExcused
    <2>2. wire[j].val \in Nat /\ retained[wire[j].topic] \in 0 .. Len(snaps)
      BY <1>2, <1>3
    <2> QED
      BY <1>1, <2>1, <2>2, ExcusedStays
  <1> SUFFICES ASSUME NEW j \in 1 .. Len(wire'), wire'[j].topic \in SnapTopic
               PROVE  Excused(wire'[j].val, retained'[wire'[j].topic], snaps')
    BY DEF ShownExcused
  <1>4. CASE retained' = retained /\ \E d \in Nat : Shortened(d)
    <2>1. PICK d \in Nat : Shortened(d)
      BY <1>4
    <2>2. j + d \in 1 .. Len(wire) /\ wire'[j] = wire[j + d]
      BY <1>2, <2>1 DEF Shortened
    <2> QED
      BY <1>3, <1>4, <2>2
  <1>5. ASSUME NEW n \in Nat, NEW m, Extended(n, m), retained' = retained,
               m.topic \in SnapTopic => Excused(m.val, retained[m.topic], snaps')
        PROVE  Excused(wire'[j].val, retained'[wire'[j].topic], snaps')
    <2>1. j = n + 1 \/ (j \in 1 .. Len(wire) /\ wire'[j] = wire[j])
      BY <1>2, <1>5 DEF Extended
    <2> QED
      BY <1>3, <1>5, <2>1 DEF Extended
  <1>6. ASSUME NEW p \in publishers, p.todo # <<>>, retained' = retained,
               Extended(Len(wire), Message(Head(p.todo), p.tick))
        PROVE  Excused(wire'[j].val, retained'[wire'[j].topic], snaps')
    <2>1. Head(p.todo) \in SnapTopic
      BY <1>6, Beheaded DEF WireInv, Publishers
    <2>2. Excused(p.tick, retained[Head(p.todo)], snaps')
      BY <1>1, <1>2, <1>6, <2>1, NewcomerIsExcused DEF OrderInv
    <2>3. /\ Message(Head(p.todo), p.tick).val = p.tick
          /\ Message(Head(p.todo), p.tick).topic = Head(p.todo)
      BY DEF Message
    <2> QED
      BY <1>2, <1>5, <1>6, <2>2, <2>3
  <1>7. CASE Deliver /\ Shortened(1)
    <2>1. j + 1 \in 1 .. Len(wire) /\ wire'[j] = wire[j + 1] /\ 1 < j + 1
      BY <1>2, <1>7 DEF Shortened
    <2>2. /\ 1 \in 1 .. Len(wire)
          /\ retained'[wire'[j].topic] =
                IF wire[1].topic = wire'[j].topic THEN wire[1].val ELSE retained[wire'[j].topic]
      BY <1>7, WhatIsShown
    <2>3. CASE wire[1].topic = wire'[j].topic
      <3>1. Excused(wire[j + 1].val, wire[1].val, snaps)
        BY <2>1, <2>2, <2>3 DEF OrderInv, WireExcused
      <3>2. wire[j + 1].val \in Nat /\ wire[1].val \in 0 .. Len(snaps)
        BY <1>2, <2>1, <2>2, <2>3
      <3>3. Excused(wire[j + 1].val, wire[1].val, snaps')
        BY <1>1, <3>1, <3>2, ExcusedStays
      <3> QED
        BY <2>1, <2>2, <2>3, <3>3
    <2>4. CASE wire[1].topic # wire'[j].topic
      BY <1>3, <2>1, <2>2, <2>4
    <2> QED
      BY <2>3, <2>4
  <1>8. ASSUME NEW m \in store, retained' = retained, Extended(Len(wire), m)
        PROVE  Excused(wire'[j].val, retained'[wire'[j].topic], snaps')
    <2>1. m.topic \in SnapTopic => Excused(m.val, retained[m.topic], snaps')
      BY <1>1, <1>2, ResentIsExcused DEF OrderInv
    <2> QED
      BY <1>2, <1>5, <1>8, <2>1
  <1> QED
    BY <1>1, <1>2, <1>4, <1>5, <1>6, <1>7, <1>8 DEF WireStep

LEMMA OrderInvKept ==
    ASSUME WireInv, OrderInv, [MNext]_mvars
    PROVE  OrderInv'
  BY PendingStaysExcused, StoreStaysExcused, WireStaysExcused, ShownStaysExcused DEF OrderInv

LEMMA OrderInvariance == MSpec => [](WireInv /\ OrderInv)
  <1>1. MInit => OrderInv
    <2> SUFFICES ASSUME MInit PROVE OrderInv
      OBVIOUS
    <2>1. snaps = <<>> /\ wire = <<>> /\ publishers = {} /\ store = {}
      BY DEF MInit
    <2> QED
      BY <2>1, EmptyIsSeq DEF OrderInv, PendingExcused, StoreExcused, WireExcused, ShownExcused
  <1> QED
    BY <1>1, OrderInvKept, WireInvInit, WireInvKept, PTL DEF MSpec

(* What is shown of a topic goes back only to a tick that was not finished *)
(* when the newer snapshot was taken, its publisher still running or some  *)
(* of it not acknowledged: for any number of ticks, outages and restarts,  *)
(* and in whatever order the client sends its store again.                 *)
THEOREM ShownGoesBackOnlyToUnfinished == MSpec => BackOnlyToUnfinished
  <1> DEFINE Backwards == \A t \in {"fan_percent", "last_update"} :
                             retained'[t] < retained[t] =>
                                retained'[t] \in snaps[retained[t]].during
  <1>1. WireInv /\ OrderInv /\ [MNext]_mvars => [Backwards]_mvars
    <2> SUFFICES ASSUME WireInv, OrderInv, [MNext]_mvars,
                        NEW t \in SnapTopic, retained'[t] < retained[t]
                 PROVE  retained'[t] \in snaps[retained[t]].during
      BY DEF SnapTopic
    <2>1. retained[t] \in Nat
      BY DEF WireInv, Types, SnapTopic, Topic
    <2>2. Deliver
      BY <2>1, OnlyDeliveryShows
    <2>3. /\ 1 \in 1 .. Len(wire)
          /\ retained'[t] = IF wire[1].topic = t THEN wire[1].val ELSE retained[t]
      BY <2>2, WhatIsShown
    <2>4. wire[1].topic = t /\ retained'[t] = wire[1].val
      BY <2>1, <2>3
    <2>5. Excused(wire[1].val, retained[t], snaps)
      BY <2>3, <2>4 DEF OrderInv, ShownExcused
    <2> QED
      BY <2>4, <2>5 DEF Excused
  <1> QED
    BY <1>1, OrderInvariance, PTL DEF MSpec, BackOnlyToUnfinished

-----------------------------------------------------------------------------
(* Nothing is cut off *)

(* A topic that has been handed over stays so when the wire is left alone, *)
(* when a packet is added that is recent or of another topic, and when the *)
(* head of the wire is delivered.                                          *)
LEMMA HandedStaysPut ==
    ASSUME NEW t, Handed(t), snaps' = snaps, wire' = wire, retained' = retained
    PROVE  Handed(t)'
  BY DEF Handed, OnlyRecent, Recent

LEMMA RecentStaysBehind ==
    ASSUME NEW t, Len(wire) \in Nat, snaps' = snaps, NEW m, Extended(Len(wire), m),
           m.topic = t => m.val \in Recent, OnlyRecent(t, 1)
    PROVE  OnlyRecent(t, 1)'
  <1>1. Recent' = Recent
    BY DEF Recent
  <1> SUFFICES ASSUME NEW j \in 1 .. Len(wire'), wire'[j].topic = t
               PROVE  wire'[j].val \in Recent
    BY <1>1 DEF OnlyRecent
  <1>2. j = Len(wire) + 1 \/ (j \in 1 .. Len(wire) /\ wire'[j] = wire[j])
    BY DEF Extended
  <1> QED
    BY <1>2 DEF Extended, OnlyRecent

LEMMA HandedStaysBehind ==
    ASSUME NEW t, Handed(t), Len(wire) \in Nat, snaps' = snaps, retained' = retained,
           NEW m, Extended(Len(wire), m), m.topic = t => m.val \in Recent
    PROVE  Handed(t)'
  <1>1. Recent' = Recent
    BY DEF Recent
  <1>2. ASSUME NEW from \in Nat \ {0}, OnlyRecent(t, from)
        PROVE  \A j \in 1 .. Len(wire') : j >= from /\ wire'[j].topic = t => wire'[j].val \in Recent
    <2> SUFFICES ASSUME NEW j \in 1 .. Len(wire'), j >= from, wire'[j].topic = t
                 PROVE  wire'[j].val \in Recent
      OBVIOUS
    <2>1. j = Len(wire) + 1 \/ (j \in 1 .. Len(wire) /\ wire'[j] = wire[j])
      BY DEF Extended
    <2> QED
      BY <1>2, <2>1 DEF Extended, OnlyRecent
  <1>3. CASE retained[t] \in Recent /\ OnlyRecent(t, 1)
    <2>1. 1 \in Nat \ {0}
      OBVIOUS
    <2>2. \A j \in 1 .. Len(wire') : j >= 1 /\ wire'[j].topic = t => wire'[j].val \in Recent
      BY <1>2, <1>3, <2>1
    <2> QED
      BY <1>1, <1>3, <2>2 DEF Handed, OnlyRecent
  <1>4. CASE \E i \in 1 .. Len(wire) : wire[i].topic = t /\ OnlyRecent(t, i)
    <2>1. PICK i \in 1 .. Len(wire) : wire[i].topic = t /\ OnlyRecent(t, i)
      BY <1>4
    <2>2. i \in 1 .. Len(wire') /\ wire'[i] = wire[i] /\ i \in Nat \ {0}
      BY DEF Extended
    <2>3. \A j \in 1 .. Len(wire') : j >= i /\ wire'[j].topic = t => wire'[j].val \in Recent
      BY <1>2, <2>1, <2>2
    <2> QED
      BY <1>1, <2>1, <2>2, <2>3 DEF Handed, OnlyRecent
  <1> QED
    BY <1>3, <1>4 DEF Handed

LEMMA NewlyHanded ==
    ASSUME NEW t, Len(wire) \in Nat, snaps' = snaps,
           NEW m, Extended(Len(wire), m), m.topic = t, m.val \in Recent
    PROVE  Handed(t)'
  <1>1. Recent' = Recent
    BY DEF Recent
  <1>2. Len(wire) + 1 \in 1 .. Len(wire') /\ wire'[Len(wire) + 1] = m
    BY DEF Extended
  <1>3. \A j \in 1 .. Len(wire') : j >= Len(wire) + 1 => j = Len(wire) + 1
    BY DEF Extended
  <1> QED
    BY <1>1, <1>2, <1>3 DEF Handed, OnlyRecent

LEMMA HandedIsDelivered ==
    ASSUME WireInv, Deliver, NEW t \in SnapTopic, Handed(t)
    PROVE  Handed(t)'
  <1>1. /\ snaps' = snaps /\ IsSeq(wire) /\ wire # <<>> /\ wire' = Tail(wire)
    BY DEF Deliver, process, WireInv, Types
  <1>2. /\ Len(wire) \in Nat /\ Len(wire') = Len(wire) - 1
        /\ \A i \in 1 .. Len(wire') : wire'[i] = wire[i + 1]
    BY <1>1, Beheaded
  <1>3. /\ 1 \in 1 .. Len(wire)
        /\ retained'[t] = IF wire[1].topic = t THEN wire[1].val ELSE retained[t]
    BY WhatIsShown
  <1>4. Recent' = Recent
    BY <1>1 DEF Recent
  <1>5. CASE retained[t] \in Recent /\ OnlyRecent(t, 1)
    <2>1. retained'[t] \in Recent
      BY <1>3, <1>5 DEF OnlyRecent
    <2>2. \A j \in 1 .. Len(wire') : wire'[j].topic = t => wire'[j].val \in Recent
      BY <1>2, <1>5 DEF OnlyRecent
    <2> QED
      BY <1>4, <2>1, <2>2 DEF Handed, OnlyRecent
  <1>6. CASE \E i \in 1 .. Len(wire) : wire[i].topic = t /\ OnlyRecent(t, i)
    <2>1. PICK i \in 1 .. Len(wire) : wire[i].topic = t /\ OnlyRecent(t, i)
      BY <1>6
    <2>2. CASE i = 1
      <3>1. retained'[t] \in Recent
        BY <1>3, <2>1, <2>2 DEF OnlyRecent
      <3>2. \A j \in 1 .. Len(wire') : wire'[j].topic = t => wire'[j].val \in Recent
        BY <1>2, <2>1, <2>2 DEF OnlyRecent
      <3> QED
        BY <1>4, <3>1, <3>2 DEF Handed, OnlyRecent
    <2>3. CASE i # 1
      <3>1. i - 1 \in 1 .. Len(wire') /\ wire'[i - 1] = wire[i]
        BY <1>2, <2>3
      <3>2. \A j \in 1 .. Len(wire') :
               j >= i - 1 /\ wire'[j].topic = t => wire'[j].val \in Recent
        BY <1>2, <2>1 DEF OnlyRecent
      <3> QED
        BY <1>4, <2>1, <3>1, <3>2 DEF Handed, OnlyRecent
    <2> QED
      BY <2>2, <2>3
  <1> QED
    BY <1>5, <1>6 DEF Handed

(* A value that a publisher still has to hand over is recent. *)
LEMMA PendingIsRecent ==
    ASSUME WireInv, PendingExcused, NEW p \in publishers, p.todo # <<>>
    PROVE  p.tick \in Recent
  <1>1. Len(snaps) \in Nat /\ p.tick \in 1 .. Len(snaps)
    BY ValuesAreTicks
  <1>2. Len(snaps) \in 1 .. Len(snaps)
    BY <1>1
  <1>3. Excused(p.tick, Len(snaps), snaps)
    BY <1>2 DEF PendingExcused
  <1> QED
    BY <1>1, <1>3 DEF Excused, Recent

(* So is what is in the store. *)
LEMMA StoredIsRecent ==
    ASSUME WireInv, StoreExcused, NEW m \in store, m.topic \in SnapTopic
    PROVE  m.val \in Recent
  <1>1. Len(snaps) \in Nat /\ m.val \in 1 .. Len(snaps)
    BY ValuesAreTicks DEF WireInv, StorePackets, Packet, SnapTopic
  <1>2. Len(snaps) \in 1 .. Len(snaps)
    BY <1>1
  <1>3. Excused(m.val, Len(snaps), snaps)
    BY <1>2 DEF StoreExcused
  <1> QED
    BY <1>1, <1>3 DEF Excused, Recent

(* Whatever is appended to the wire, if it is recent or of another topic,  *)
(* what was handed over or kept stays so.                                  *)
LEMMA AppendedBehind ==
    ASSUME NEW t, Handed(t) \/ Kept(t), Len(wire) \in Nat, snaps' = snaps, retained' = retained,
           store \subseteq store', NEW m, Extended(Len(wire), m) \/ wire' = wire,
           m.topic = t => m.val \in Recent
    PROVE  Handed(t)' \/ Kept(t)'
  <1>1. CASE Handed(t)
    BY <1>1, HandedStaysPut, HandedStaysBehind
  <1>2. CASE Kept(t)
    <2>1. OnlyRecent(t, 1)'
      <3>1. CASE Extended(Len(wire), m)
        BY <1>2, <3>1, RecentStaysBehind DEF Kept
      <3>2. CASE wire' = wire
        BY <1>2, <3>2 DEF Kept, OnlyRecent, Recent
      <3> QED
        BY <3>1, <3>2
    <2>2. \E n \in store' : n.topic = t
      BY <1>2 DEF Kept
    <2> QED
      BY <2>1, <2>2 DEF Kept
  <1> QED
    BY <1>1, <1>2

(* A publisher hands over its next topic, and goes on waiting for others.  *)
LEMMA HandingOver ==
    ASSUME WireInv, PendingExcused, NEW p \in publishers, PublishNext(p), ~dropped',
           NEW t \in SnapTopic, Awaited(t) \/ Handed(t) \/ Kept(t)
    PROVE  Awaited(t)' \/ Handed(t)' \/ Kept(t)'
  <1> DEFINE m == Message(Head(p.todo), p.tick)
             q == [p EXCEPT !.todo = Tail(@)]
  <1>1. /\ p.todo # <<>> /\ snaps' = snaps /\ retained' = retained
        /\ publishers' = (publishers \ {p}) \cup {q}
        /\ wire' = Sent(m) /\ store \subseteq store'
        /\ ~Connected => qos # 0
        /\ qos = 1 => m \in store'
    BY DEF PublishNext, Queue, Sent, Update, broker
  <1>2. Len(wire) \in Nat /\ (Extended(Len(wire), m) \/ (~Connected /\ wire' = wire))
    BY <1>1, SentPacket, LengthIsNat DEF WireInv, Types
  <1>3. m.val = p.tick /\ m.topic = Head(p.todo) /\ p.tick \in Recent
    BY <1>1, PendingIsRecent DEF Message
  <1>4. ~Connected => m \in store' /\ wire = <<>>
    BY <1>1 DEF WireInv, Types, MTypeOK
  <1> HIDE DEF m
  <1>5. CASE Handed(t) \/ Kept(t)
    BY <1>1, <1>2, <1>3, <1>5, AppendedBehind
  <1>6. CASE Awaited(t)
    <2>1. PICK r \in publishers : r.tick = Len(snaps) /\ \E k \in 1 .. Len(r.todo) : r.todo[k] = t
      BY <1>6 DEF Awaited
    <2>2. CASE r # p
      <3>1. r \in publishers'
        BY <1>1, <2>2
      <3> QED
        BY <1>1, <2>1, <3>1 DEF Awaited
    <2>3. CASE r = p
      <3>1. PICK k \in 1 .. Len(p.todo) : p.todo[k] = t
        BY <2>1, <2>3
      <3>2. /\ Len(p.todo) \in Nat /\ Len(Tail(p.todo)) = Len(p.todo) - 1
            /\ Head(p.todo) = p.todo[1]
            /\ \A i \in 1 .. Len(Tail(p.todo)) : Tail(p.todo)[i] = p.todo[i + 1]
        BY <1>1, Beheaded DEF WireInv, Publishers
      <3>3. q = [tick |-> p.tick, todo |-> Tail(p.todo), returned |-> p.returned]
        BY <1>1, PublisherGoesOn
      <3>4. CASE k = 1
        <4>1. m.topic = t
          BY <1>3, <3>1, <3>2, <3>4
        <4>2. CASE Extended(Len(wire), m)
          BY <1>1, <1>2, <1>3, <4>1, <4>2, NewlyHanded
        <4>3. CASE ~Connected /\ wire' = wire
          <5>1. m \in store' /\ wire' = <<>>
            BY <1>4, <4>3
          <5>2. OnlyRecent(t, 1)'
            BY <5>1, EmptyIsSeq DEF OnlyRecent
          <5> QED
            BY <4>1, <5>1, <5>2 DEF Kept
        <4> QED
          BY <1>2, <4>2, <4>3
      <3>5. CASE k # 1
        <4>1. k - 1 \in 1 .. Len(Tail(p.todo)) /\ Tail(p.todo)[k - 1] = t
          BY <3>1, <3>2, <3>5
        <4>2. q \in publishers' /\ q.tick = Len(snaps) /\ q.todo = Tail(p.todo)
          BY <1>1, <2>1, <2>3, <3>3
        <4> HIDE DEF q
        <4> QED
          BY <1>1, <4>1, <4>2 DEF Awaited
      <3> QED
        BY <3>4, <3>5
    <2> QED
      BY <2>2, <2>3
  <1> QED
    BY <1>5, <1>6

(* The broker shows what it receives, and the client forgets it.           *)
LEMMA Delivering ==
    ASSUME WireInv, StoreExcused, Deliver, NEW t \in SnapTopic, Handed(t) \/ Kept(t)
    PROVE  Handed(t)' \/ Kept(t)'
  <1>1. CASE Handed(t)
    BY <1>1, HandedIsDelivered
  <1>2. CASE Kept(t)
    <2>1. /\ snaps' = snaps /\ IsSeq(wire) /\ wire # <<>> /\ wire' = Tail(wire)
      BY DEF Deliver, process, WireInv, Types
    <2>2. /\ Len(wire) \in Nat /\ Len(wire') = Len(wire) - 1 /\ Head(wire) = wire[1]
          /\ \A i \in 1 .. Len(wire') : wire'[i] = wire[i + 1]
      BY <2>1, Beheaded
    <2>3. Recent' = Recent
      BY <2>1 DEF Recent
    <2>4. \A j \in 1 .. Len(wire') : wire'[j].topic = t => wire'[j].val \in Recent
      BY <1>2, <2>2 DEF Kept, OnlyRecent
    <2>5. OnlyRecent(t, 1)'
      BY <2>3, <2>4 DEF OnlyRecent
    <2>6. PICK m \in store : m.topic = t
      BY <1>2 DEF Kept
    <2>7. CASE m \in store'
      BY <2>5, <2>6, <2>7 DEF Kept
    <2>8. CASE m \notin store'
      <3>1. m = wire[1]
        BY <2>2, <2>8 DEF Deliver
      <3>2. retained'[t] = m.val
        BY <2>6, <3>1, WhatIsShown
      <3>3. m.val \in Recent
        BY <2>6, StoredIsRecent
      <3> QED
        BY <2>3, <2>5, <3>2, <3>3 DEF Handed
    <2> QED
      BY <2>7, <2>8
  <1> QED
    BY <1>1, <1>2

(* A lost connection takes the wire with it; what was on it is still in    *)
(* the store, or something was dropped.                                    *)
LEMMA LosingTheWire ==
    ASSUME WireInv, Lose, ~dropped', NEW t, Handed(t) \/ Kept(t)
    PROVE  Handed(t)' \/ Kept(t)'
  <1>1. /\ wire' = <<>> /\ store' = store /\ snaps' = snaps /\ retained' = retained
        /\ UnderWay \subseteq store
    BY DEF Lose, process, broker
  <1>2. OnlyRecent(t, 1)' /\ Recent' = Recent
    BY <1>1, EmptyIsSeq DEF OnlyRecent, Recent
  <1>3. CASE retained[t] \in Recent
    BY <1>1, <1>2, <1>3 DEF Handed
  <1>4. CASE \E i \in 1 .. Len(wire) : wire[i].topic = t
    <2>1. PICK i \in 1 .. Len(wire) : wire[i].topic = t
      BY <1>4
    <2>2. i \in DOMAIN wire
      BY LengthIsNat DEF WireInv, Types
    <2>3. wire[i] \in store
      BY <1>1, <2>2 DEF UnderWay
    <2> QED
      BY <1>1, <1>2, <2>1, <2>3 DEF Kept
  <1>5. CASE \E m \in store : m.topic = t
    BY <1>1, <1>2, <1>5 DEF Kept
  <1> QED
    BY <1>3, <1>4, <1>5 DEF Handed, Kept

(* Disconnecting, the client forgets its store; what was in it is on the   *)
(* wire, or something was dropped.                                         *)
LEMMA Disconnecting ==
    ASSUME WireInv, Disconnect, ~dropped', NEW t \in SnapTopic, Handed(t) \/ Kept(t)
    PROVE  Handed(t)'
  <1>1. /\ snaps' = snaps /\ retained' = retained /\ IsSeq(wire) /\ Len(wire) \in Nat
    BY LengthIsNat DEF Disconnect, broker, WireInv, Types
  <1>2. CASE ~Connected
    <2>1. store = {} /\ wire' = <<>>
      BY <1>2 DEF Disconnect
    <2>2. wire = <<>> /\ Handed(t)
      BY <1>2, <2>1 DEF WireInv, Types, MTypeOK, Kept
    <2> QED
      BY <1>1, <2>1, <2>2, HandedStaysPut
  <1>3. CASE Connected
    <2>1. PICK n \in 0 .. Len(wire) :
             /\ wire' = Append(SubSeq(wire, 1, n), Message("disconnect", 0))
             /\ dropped' = (dropped \/ n < Len(wire) \/ ~(store \subseteq UnderWay))
      BY <1>3 DEF Disconnect
    <2>2. n = Len(wire) /\ store \subseteq UnderWay
      <3>1. ~(n < Len(wire)) /\ store \subseteq UnderWay
        BY <2>1, Zenon
      <3> QED
        BY <1>1, <3>1
    <2>3. Handed(t)
      <3>1. CASE Kept(t)
        <4>1. PICK m \in store : m.topic = t
          BY <3>1 DEF Kept
        <4>2. PICK i \in DOMAIN wire : m = wire[i]
          BY <2>2, <4>1 DEF UnderWay
        <4>3. i \in 1 .. Len(wire)
          BY <1>1, LengthIsNat
        <4>4. OnlyRecent(t, i)
          BY <3>1, <4>3 DEF Kept, OnlyRecent
        <4> QED
          BY <4>1, <4>2, <4>3, <4>4 DEF Handed
      <3> QED
        BY <3>1
    <2>4. /\ IsSeq(SubSeq(wire, 1, n)) /\ Len(SubSeq(wire, 1, n)) = n
          /\ \A i \in 1 .. n : SubSeq(wire, 1, n)[i] = wire[i]
      BY <1>1, Cut
    <2>5. Extended(Len(wire), Message("disconnect", 0))
      BY <1>1, <2>1, <2>2, <2>4, Appended DEF Extended
    <2>6. Message("disconnect", 0).topic # t
      BY DEF Message, SnapTopic
    <2> QED
      BY <1>1, <2>3, <2>5, <2>6, HandedStaysBehind
  <1> QED
    BY <1>2, <1>3

(* Nothing else touches a snapshot's message, but to send it again.        *)
LEMMA HandedStays ==
    ASSUME WireInv, StoreExcused, [MNext]_mvars, ~dropped', NEW t \in SnapTopic,
           Handed(t) \/ Kept(t),
           ~Start, ~Tick, ~Die, ~Deliver, \A p \in publishers : ~PublishNext(p)
    PROVE  Handed(t)' \/ Kept(t)'
  <1>1. /\ snaps' = snaps /\ retained' = retained /\ IsSeq(wire) /\ Len(wire) \in Nat
        /\ t \notin {"status", "disconnect", "config"}
    BY SnapsOnlyGrow, OnlyDeliveryShows, LengthIsNat DEF WireInv, Types, SnapTopic
  <1>2. ASSUME NEW m, wire' = Sent(m) \/ wire' = wire, store \subseteq store', m.topic # t
        PROVE  Handed(t)' \/ Kept(t)'
    <2>1. Extended(Len(wire), m) \/ wire' = wire
      BY <1>1, <1>2, SentPacket
    <2> QED
      BY <1>1, <1>2, <2>1, AppendedBehind
  <1>3. CASE \/ Connect \/ Break \/ Will \/ Stop \/ UNCHANGED mvars
             \/ \E p \in publishers : PublishReturns(p)
    <2>1. wire' = wire /\ store' = store
      BY <1>3 DEF Connect, Break, Will, Stop, PublishReturns, mvars, client, kept
    <2>2. Message("config", 0).topic # t
      BY <1>1 DEF Message
    <2> QED
      BY <1>2, <2>1, <2>2
  <1>4. CASE PublishDiscovery \/ Close \/ \E n \in handlers : OnConnect(n)
    <2>1. store \subseteq store'
      BY <1>4 DEF PublishDiscovery, OnConnect, Close, Queue, kept
    <2>2. \/ wire' = Sent(Message("config", starts))
          \/ \E n \in handlers : wire' = Sent(Message("status", n))
          \/ wire' = Sent(Message("status", Offline))
          \/ wire' = wire
      BY <1>4 DEF PublishDiscovery, OnConnect, Close, Queue, Sent
    <2>3. /\ Message("config", starts).topic # t /\ Message("status", Offline).topic # t
          /\ \A n \in handlers : Message("status", n).topic # t
      BY <1>1 DEF Message
    <2> QED
      BY <1>2, <2>1, <2>2, <2>3
  <1>5. ASSUME NEW m \in resend, Resend(m)
        PROVE  Handed(t)' \/ Kept(t)'
    <2>1. store' = store
      BY <1>5 DEF Resend
    <2>2. CASE m \in store
      <3>1. wire' = Append(wire, m)
        BY <1>5, <2>2 DEF Resend
      <3>2. Extended(Len(wire), m)
        BY <1>1, <3>1, Appended DEF Extended
      <3>3. m.topic = t => m.val \in Recent
        BY <2>2, StoredIsRecent
      <3> QED
        BY <1>1, <2>1, <3>2, <3>3, AppendedBehind
    <2>3. CASE m \notin store
      <3>1. wire' = wire
        BY <1>5, <2>3 DEF Resend
      <3>2. Message("config", 0).topic # t
        BY <1>1 DEF Message
      <3> QED
        BY <1>2, <2>1, <3>1, <3>2
    <2> QED
      BY <2>2, <2>3
  <1>6. CASE Lose
    BY <1>6, LosingTheWire
  <1>7. CASE Disconnect
    BY <1>7, Disconnecting
  <1> QED
    BY <1>3, <1>4, <1>5, <1>6, <1>7 DEF MNext, GoesOn

(* A publisher that returns had nothing left to hand over.                 *)
LEMMA AwaitedStays ==
    ASSUME WireInv, [MNext]_mvars, NEW t, Awaited(t),
           ~Start, ~Tick, ~Die, \A p \in publishers : ~PublishNext(p)
    PROVE  Awaited(t)'
  <1>1. snaps' = snaps
    BY SnapsOnlyGrow DEF WireInv, Types
  <1>2. PICK r \in publishers : r.tick = Len(snaps) /\ \E k \in 1 .. Len(r.todo) : r.todo[k] = t
    BY DEF Awaited
  <1>3. r.todo # <<>>
    BY <1>2, EmptyIsSeq
  <1>4. r \in publishers'
    <2>1. ASSUME NEW p \in publishers, PublishReturns(p)
          PROVE  r \in publishers'
      <3>1. p.todo = <<>> /\ publishers' = (publishers \ {p}) \cup {[p EXCEPT !.returned = TRUE]}
        BY <2>1 DEF PublishReturns, Update
      <3> QED
        BY <1>3, <3>1
    <2>2. CASE publishers' = publishers
      BY <2>2
    <2> QED
      BY <2>1, <2>2 DEF MNext, GoesOn, PublishDiscovery, Connect, Resend, OnConnect, Break, Lose,
                        Deliver, Will, Stop, Close, Disconnect, mvars, process
  <1> QED
    BY <1>1, <1>2, <1>4 DEF Awaited

LEMMA NoneLostKept ==
    ASSUME WireInv, PendingExcused, StoreExcused, NoneLost, [MNext]_mvars
    PROVE  NoneLost'
  <1> SUFFICES ASSUME ~dropped', publishers' # {}, NEW t \in Told(snaps'[Len(snaps')])
               PROVE  Awaited(t)' \/ Handed(t)' \/ Kept(t)'
    BY DEF NoneLost
  <1>1. ~Start /\ ~Die
    BY DEF Start, Die
  <1>2. CASE Tick
    <2>1. \E q \in publishers' :
             q.tick = Len(snaps') /\ q.todo = TopicsOf(snaps'[Len(snaps')])
      <3>1. PICK snap :
               /\ snaps' = Append(snaps, snap)
               /\ publishers' = publishers \cup
                     {[tick |-> Len(snaps) + 1, todo |-> TopicsOf(snap), returned |-> FALSE]}
        BY <1>2, WhatATickAdds
      <3>2. Len(snaps') = Len(snaps) + 1 /\ snaps'[Len(snaps')] = snap
        BY <3>1, Appended DEF WireInv, Types
      <3> DEFINE q == [tick |-> Len(snaps'), todo |-> TopicsOf(snaps'[Len(snaps')]), returned |-> FALSE]
      <3>3. q \in publishers'
        BY <3>1, <3>2, Zenon
      <3>4. q.tick = Len(snaps') /\ q.todo = TopicsOf(snaps'[Len(snaps')])
        OBVIOUS
      <3> QED
        BY <3>3, <3>4, Zenon
    <2>2. \E i \in 1 .. Len(TopicsOf(snaps'[Len(snaps')])) : TopicsOf(snaps'[Len(snaps')])[i] = t
      BY TopicsAreTold
    <2> QED
      BY <2>1, <2>2 DEF Awaited
  <1>3. CASE ~Tick
    <2>1. snaps' = snaps
      BY <1>3, SnapsOnlyGrow DEF WireInv, Types
    <2>2. ~dropped
      <3>1. ASSUME NEW p \in publishers, PublishNext(p) \/ PublishReturns(p)
            PROVE  ~dropped
        BY <3>1, Zenon DEF PublishNext, PublishReturns, Queue, history
      <3>2. CASE PublishDiscovery \/ Connect \/ Break \/ Lose \/ Deliver \/ Will
        BY <3>2, Zenon DEF PublishDiscovery, Connect, Break, Lose, Deliver, Will, Queue, history
      <3>3. CASE Stop \/ Close \/ Disconnect \/ UNCHANGED mvars
        BY <3>3, Zenon DEF Stop, Close, Disconnect, Queue, mvars, history
      <3>4. CASE (\E m \in resend : Resend(m)) \/ (\E n \in handlers : OnConnect(n))
        BY <3>4, Zenon DEF Resend, OnConnect, Queue, history
      <3> QED
        BY <1>1, <1>3, <3>1, <3>2, <3>3, <3>4 DEF MNext, GoesOn
    <2>3. publishers # {}
      BY <1>3, WhatThePublishersAre
    <2>4. t \in SnapTopic /\ (Awaited(t) \/ Handed(t) \/ Kept(t))
      BY <2>1, <2>2, <2>3, TopicsAreTold DEF NoneLost
    <2>5. CASE \E p \in publishers : PublishNext(p)
      BY <2>4, <2>5, HandingOver
    <2>6. CASE Deliver
      <3>1. Awaited(t) => Awaited(t)'
        BY <2>1, <2>6 DEF Awaited, Deliver, process
      <3> QED
        BY <2>4, <2>6, <3>1, Delivering
    <2>7. CASE ~Deliver /\ \A p \in publishers : ~PublishNext(p)
      <3>1. Handed(t) \/ Kept(t) => Handed(t)' \/ Kept(t)'
        BY <1>1, <1>3, <2>4, <2>7, HandedStays
      <3>2. Awaited(t) => Awaited(t)'
        BY <1>1, <1>3, <2>7, AwaitedStays
      <3> QED
        BY <2>4, <3>1, <3>2
    <2> QED
      BY <2>5, <2>6, <2>7
  <1> QED
    BY <1>2, <1>3

LEMMA MInvariance == MSpec => []MInv
  <1>1. MInit => NoneLost
    BY DEF MInit, NoneLost
  <1>2. WireInv /\ OrderInv /\ NoneLost /\ [MNext]_mvars => NoneLost'
    BY NoneLostKept DEF OrderInv
  <1>3. MInv <=> WireInv /\ OrderInv /\ NoneLost
    BY DEF MInv
  <1> QED
    BY <1>1, <1>2, <1>3, OrderInvariance, PTL DEF MSpec

(* A process that ended by itself, none of whose messages was dropped, has *)
(* left its last snapshot on the broker, or one that was not finished when *)
(* that was taken: Run waits for the publishers before Close, and the      *)
(* client keeps what is not acknowledged, however the publishers, the      *)
(* connect handlers, the packets and the losses were interleaved.          *)
THEOREM NothingIsCutOff == MSpec => []NothingCutOff
  <1>1. MInv => NothingCutOff
    <2> SUFFICES ASSUME MInv, phase = "down", conn = "closed", ~dropped, publishers # {},
                        NEW i \in DOMAIN TopicsOf(snaps[Len(snaps)])
                 PROVE  retained[TopicsOf(snaps[Len(snaps)])[i]]
                           \in {Len(snaps)} \cup snaps[Len(snaps)].during
      BY DEF NothingCutOff
    <2> DEFINE t == TopicsOf(snaps[Len(snaps)])[i]
    <2>1. t \in Told(snaps[Len(snaps)])
      <3>1. i \in 1 .. Len(TopicsOf(snaps[Len(snaps)]))
        BY TopicsAreTold, LengthIsNat
      <3> QED
        BY <3>1, TopicsAreTold
    <2> HIDE DEF t
    <2>2. Len(wire) = 0 /\ store = {}
      BY EmptyIsSeq DEF MInv, WireInv, Types, MTypeOK, Connected
    <2>3. \A p \in publishers : Len(p.todo) = 0
      BY EmptyIsSeq DEF MInv, WireInv, Publishers
    <2>4. ~Awaited(t) /\ ~Kept(t)
      BY <2>2, <2>3 DEF Awaited, Kept
    <2>5. Handed(t)
      BY <2>1, <2>4 DEF MInv, NoneLost
    <2>6. retained[t] \in Recent
      BY <2>2, <2>5 DEF Handed
    <2> QED
      BY <2>6 DEF Recent, t
  <1> QED
    BY <1>1, MInvariance, PTL
=============================================================================
