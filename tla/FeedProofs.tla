----------------------------- MODULE FeedProofs ------------------------------
(***************************************************************************)
(* What a browser tab shows is true.  The feed: the useBroadcast hook      *)
(* never has two EventSources, nor one it cannot close, the feed           *)
(* implements the abstract one, and a stream that stays up misses nothing, *)
(* for any number of streams, visits, outages and events.  The zone panels: *)
(* what a tab shows of reservations, activities, menu and conversations is *)
(* what the services hold, for any guests, requests and failures.          *)
(***************************************************************************)
EXTENDS LiveFeed, IslandPanels, FiniteSetTheorems, SequenceTheorems, TLAPS

ReadyStates == {"unused", "connecting", "open", "closed"}
Live == {c \in BrowserStreams : es[c] \in {"connecting", "open"}}

\* The part of the state the argument is about: a positive back-off makes
\* every scheduled reconnect a pending timer.
HookOK ==
  /\ es \in [BrowserStreams -> ReadyStates]
  /\ active \in BOOLEAN
  /\ connection \in BrowserStreams \cup {None}
  /\ backoff \in Nat \ {0}
  /\ timer \in Nat

FeedInv == HookOK /\ OneStream

\* OneStream in terms of Live.
LEMMA OneStreamLive ==
  OneStream <=> /\ Live \subseteq {connection}
                /\ timer # 0 => Live = {}
                /\ ~active => Live = {} /\ timer = 0
                /\ active => timer # 0 \/ Live # {}
  BY DEF OneStream, Live

\* Steps that leave the hook and its EventSources alone.
LEMMA HookKept ==
  ASSUME FeedInv, UNCHANGED <<hook, es>> PROVE FeedInv'
  BY DEF FeedInv, HookOK, OneStream, hook

\* A new EventSource, while there is no other, is the one the hook knows.
LEMMA OpenedAlone ==
  ASSUME HookOK, Live = {}, Opened
  PROVE  /\ es' \in [BrowserStreams -> ReadyStates]
         /\ Live' = {connection'}
         /\ connection' \in BrowserStreams
<1>1. PICK c \in BrowserStreams : connection' = c /\ es' = [es EXCEPT ![c] = "connecting"]
  BY DEF Opened
<1>2. es'[c] = "connecting" /\ \A b \in BrowserStreams \ {c} : es'[b] = es[b]
  BY <1>1 DEF HookOK
<1>3. es' \in [BrowserStreams -> ReadyStates]
  BY <1>1 DEF HookOK, ReadyStates
<1>4. Live' = {c}
  BY <1>1, <1>2 DEF Live
<1> QED BY <1>1, <1>3, <1>4

\* Closing the only EventSource leaves none.
LEMMA ClosedLast ==
  ASSUME HookOK, NEW c \in BrowserStreams, Live \subseteq {c}, Closed(c)
  PROVE  /\ es' \in [BrowserStreams -> ReadyStates]
         /\ Live' = {}
<1>1. es' = [es EXCEPT ![c] = "closed"]
  BY DEF Closed
<1>2. es'[c] = "closed" /\ \A b \in BrowserStreams \ {c} : es'[b] = es[b]
  BY <1>1 DEF HookOK
<1>3. es' \in [BrowserStreams -> ReadyStates]
  BY <1>1 DEF HookOK, ReadyStates
<1>4. Live' = {}
  BY <1>2 DEF Live
<1> QED BY <1>3, <1>4

\* A page that was never visited has no EventSource.
LEMMA FeedInitOK == Init => FeedInv
<1> SUFFICES ASSUME Init PROVE FeedInv
  OBVIOUS
<1>1. HookOK
  BY FeedAssumption DEF Init, HookOK, ReadyStates
<1>2. Live = {}
  BY DEF Init, Live
<1>3. OneStream
  BY <1>2, OneStreamLive DEF Init
<1> QED BY <1>1, <1>3 DEF FeedInv

\* Every callback of the hook keeps the invariant; other steps do not touch it.
LEMMA FeedStep ==
  ASSUME FeedInv, [Next]_vars PROVE FeedInv'
<1> USE DEF FeedInv
<1>0. /\ Live \subseteq {connection}
      /\ timer # 0 => Live = {}
      /\ ~active => Live = {} /\ timer = 0
      /\ active => timer # 0 \/ Live # {}
  BY OneStreamLive
<1>a. ASSUME HookOK', Live' \subseteq {connection'},
             timer' # 0 => Live' = {},
             ~active' => Live' = {} /\ timer' = 0,
             active' => timer' # 0 \/ Live' # {}
      PROVE  FeedInv'
  BY <1>a, OneStreamLive DEF OneStream, Live
<1>1. CASE HubNext
  BY <1>1, HookKept DEF HubNext, Aside, hook
<1>2. CASE Mount
  <2>1. active' = TRUE /\ timer' = 0 /\ backoff' = BACKOFF_INITIAL_MS /\ Opened /\ Live = {}
    BY <1>2, <1>0 DEF Mount
  <2>2. es' \in [BrowserStreams -> ReadyStates] /\ Live' = {connection'}
        /\ connection' \in BrowserStreams
    BY <2>1, OpenedAlone
  <2>3. HookOK'
    BY <2>1, <2>2, FeedAssumption DEF HookOK
  <2> QED BY <2>1, <2>2, <2>3, <1>a
<1>3. CASE Unmount
  <2>1. active' = FALSE /\ timer' = 0 /\ backoff' = backoff /\ connection' = None
    BY <1>3 DEF Unmount
  <2>2. es' \in [BrowserStreams -> ReadyStates] /\ Live' = {}
    <3>1. CASE connection \in BrowserStreams
      <4>1. Closed(connection)
        BY <1>3, <3>1, FeedAssumption DEF Unmount
      <4> QED BY <3>1, <4>1, <1>0, ClosedLast
    <3>2. CASE connection \notin BrowserStreams
      <4>1. Live = {}
        BY <3>2, <1>0 DEF Live
      <4>2. es' = es
        BY <1>3, <3>2 DEF Unmount, Closed, HookOK
      <4> QED BY <4>1, <4>2 DEF HookOK, Live
    <3> QED BY <3>1, <3>2
  <2>3. HookOK'
    BY <2>1, <2>2 DEF HookOK
  <2> QED BY <2>1, <2>2, <2>3, <1>a
<1>4. CASE TimerFires
  <2>1. timer' = 0 /\ active' = active /\ backoff' = backoff /\ Live = {} /\ active /\ Opened
    BY <1>4, <1>0 DEF TimerFires, HookOK
  <2>2. es' \in [BrowserStreams -> ReadyStates] /\ Live' = {connection'}
        /\ connection' \in BrowserStreams
    BY <2>1, OpenedAlone
  <2>3. HookOK'
    BY <2>1, <2>2 DEF HookOK
  <2> QED BY <2>1, <2>2, <2>3, <1>a
<1>5. ASSUME NEW c \in BrowserStreams, OnOpen(c) PROVE FeedInv'
  <2>1. es' = [es EXCEPT ![c] = "open"] /\ es[c] = "connecting"
        /\ backoff' = BACKOFF_INITIAL_MS /\ active' = active /\ timer' = timer
        /\ connection' = connection
    BY <1>5 DEF OnOpen
  <2>2. Live' = Live
    BY <2>1 DEF Live, HookOK
  <2>3. HookOK'
    BY <2>1, FeedAssumption DEF HookOK, ReadyStates
  <2> QED BY <2>1, <2>2, <2>3, <1>0, <1>a
<1>6. ASSUME NEW c \in BrowserStreams, OnMessage(c) PROVE FeedInv'
  BY <1>6, HookKept DEF OnMessage
<1>7. ASSUME NEW c \in BrowserStreams, OnError(c) PROVE FeedInv'
  <2>1. c \in Live /\ Closed(c) /\ connection' = None /\ active' = active
    BY <1>7 DEF OnError, Live
  <2>2. Live \subseteq {c} /\ active
    BY <2>1, <1>0
  <2>3. es' \in [BrowserStreams -> ReadyStates] /\ Live' = {}
    BY <2>1, <2>2, ClosedLast
  <2>4. timer' = backoff /\ backoff' = IF 2 * backoff < BACKOFF_MAX_MS THEN 2 * backoff
                                                                       ELSE BACKOFF_MAX_MS
    BY <1>7, <2>2 DEF OnError
  <2>5. timer' \in Nat \ {0} /\ backoff' \in Nat \ {0}
    BY <2>4, FeedAssumption DEF HookOK
  <2>6. HookOK'
    BY <2>1, <2>2, <2>3, <2>5 DEF HookOK
  <2> QED BY <2>1, <2>2, <2>3, <2>5, <2>6, <1>a
<1>8. ASSUME NEW z \in Zones, PulseEnds(z) PROVE FeedInv'
  BY <1>8, HookKept DEF PulseEnds
<1>9. CASE UNCHANGED vars
  BY <1>9, HookKept DEF vars, hook
<1> QED BY <1>1, <1>2, <1>3, <1>4, <1>5, <1>6, <1>7, <1>8, <1>9 DEF Next, BrowserStep

\* use-broadcast.ts: at most one EventSource is live and the hook knows it, a
\* live one and a pending reconnect exclude each other, and a page that was
\* left has neither.
THEOREM NeverTwoStreams == Spec => []OneStream
<1>1. FeedInv /\ [Next]_vars => FeedInv'
  BY FeedStep
<1>2. FeedInv => OneStream
  BY DEF FeedInv
<1> QED BY FeedInitOK, <1>1, <1>2, PTL DEF Spec

-----------------------------------------------------------------------------
(* The refinement.  Unread events wait only on the live connection, in     *)
(* order, and all of them are newer than what the page shows.              *)
EventTypes ==
  {"airport.arrival", "hotel.reservation_confirmed", "hotel.reservation_cancelled",
   "beach.activity_full", "beach.activity_available", "crab.order_placed", "crab.sold_out",
   "parrot.cursed", "public.announcement", "admin.announcement"}
EventSet == [channel : Channels, event_type : EventTypes, data : SUBSET UNION Bodies]
LinkStates == {"unused", "requested", "up", "broken", "refused"}

Top == IF events[ResortWide] = <<>> THEN 0 ELSE Head(events[ResortWide])

WireTypes ==
  /\ published \in Seq(EventSet)
  /\ link \in [Streams -> LinkStates]
  /\ wire \in [Streams -> Seq(Nat)]
  /\ events \in [Channels -> Seq(Nat)]

OnlyLiveWires ==
  \A c \in BrowserStreams \ Live : wire[c] = <<>> /\ link[c] \notin {"requested", "up"}

Unread(w, low, high) ==
  /\ \A i \in 1..Len(w) : low < w[i] /\ w[i] <= high
  /\ \A i, j \in 1..Len(w) : i < j => w[i] < w[j]

WireInv ==
  /\ WireTypes
  /\ OnlyLiveWires
  /\ Top <= Len(published)
  /\ \A c \in BrowserStreams : Unread(wire[c], Top, Len(published))

FullInv == FeedInv /\ WireInv

\* Every route broadcasts one event of a known channel.
LEMMA RouteBroadcasts ==
  ASSUME Routes
  PROVE  \E event \in EventSet : Broadcast(event) /\ UNCHANGED <<link, clients, drops>>
<1> DEFINE P(event) == Broadcast(event) /\ UNCHANGED <<link, clients, drops>>
<1>1. ASSUME NEW ch \in Channels, NEW type \in EventTypes, NEW schema, NEW moved,
             Publish(ch, type, schema, moved)
      PROVE  \E event \in EventSet : P(event)
  <2>1. PICK body \in Bodies :
          Broadcast([channel |-> ch, event_type |-> type, data |-> body \ moved])
    BY <1>1 DEF Publish
  <2> DEFINE event == [channel |-> ch, event_type |-> type, data |-> body \ moved]
  <2>2. event \in EventSet
    BY DEF EventSet
  <2> QED BY <1>1, <2>1, <2>2 DEF Publish
<1> HIDE DEF P
<1>0. {"airport", "hotel", "beach", "crab", "parrot", "broadcast", ResortWide} \subseteq Channels
  BY DEF Channels, ResortWide
<1>3. \E event \in EventSet : P(event)
  <2>1. CASE AirportArrival
    BY <2>1, <1>0, <1>1 DEF AirportArrival, EventTypes
  <2>2. CASE HotelConfirm
    BY <2>2, <1>0, <1>1 DEF HotelConfirm, EventTypes
  <2>3. CASE HotelCancel
    BY <2>3, <1>0, <1>1 DEF HotelCancel, EventTypes
  <2>4. CASE BeachFull
    BY <2>4, <1>0, <1>1 DEF BeachFull, EventTypes
  <2>5. CASE BeachAvailable
    BY <2>5, <1>0, <1>1 DEF BeachAvailable, EventTypes
  <2>6. CASE CrabOrder
    BY <2>6, <1>0, <1>1 DEF CrabOrder, EventTypes
  <2>7. CASE CrabSoldOut
    BY <2>7, <1>0, <1>1 DEF CrabSoldOut, EventTypes
  <2>8. CASE Cursed
    BY <2>8, <1>0, <1>1 DEF Cursed, EventTypes
  <2>9. CASE PublicAnnouncement
    BY <2>9, <1>0, <1>1 DEF PublicAnnouncement, EventTypes
  <2>10. CASE AdminAnnouncement
    BY <2>10, <1>0, <1>1 DEF AdminAnnouncement, EventTypes
  <2> QED BY <2>1, <2>2, <2>3, <2>4, <2>5, <2>6, <2>7, <2>8, <2>9, <2>10 DEF Routes
<1> QED BY <1>3 DEF P

\* The resort-wide list has every event.
LEMMA BucketsOK ==
  ASSUME NEW event \in EventSet
  PROVE  Buckets(event) \in SUBSET Channels /\ ResortWide \in Buckets(event)
  BY DEF Buckets, EventSet, Channels, ResortWide

\* prepend puts the event first and keeps a list of numbers.
LEMMA PrependOK ==
  ASSUME NEW n \in Nat, NEW s \in Seq(Nat)
  PROVE  /\ Prepend(n, s) \in Seq(Nat)
         /\ Prepend(n, s) # <<>>
         /\ Head(Prepend(n, s)) = n
<1> DEFINE k == IF Len(s) < MAX_EVENTS THEN Len(s) + 1 ELSE MAX_EVENTS
           t == <<n>> \o s
<1>1. k \in 1..(Len(s) + 1)
  BY FeedAssumption
<1>2. t \in Seq(Nat) /\ Len(t) = Len(s) + 1 /\ t[1] = n
  OBVIOUS
<1>3. SubSeq(t, 1, k) \in Seq(Nat) /\ Len(SubSeq(t, 1, k)) = k /\ SubSeq(t, 1, k)[1] = n
  BY <1>1, <1>2
<1>4. Prepend(n, s) = SubSeq(t, 1, k)
  BY DEF Prepend
<1> QED BY <1>1, <1>3, <1>4

\* The newest event shown is a number.
LEMMA TopIsNat == ASSUME WireTypes PROVE Top \in Nat
<1>1. events[ResortWide] \in Seq(Nat)
  BY DEF WireTypes, Channels
<1> QED BY <1>1 DEF Top

\* A broadcast event is newer than everything shown or waiting, and only a
\* live connection gets it.
LEMMA BroadcastKeeps ==
  ASSUME WireInv, NEW event \in EventSet, Broadcast(event),
         UNCHANGED <<link, es, events>>
  PROVE  WireInv'
<1>1. published \in Seq(EventSet) /\ wire \in [Streams -> Seq(Nat)] /\ Top \in Nat
      /\ BrowserStreams \subseteq Streams
  BY TopIsNat, FeedAssumption DEF WireInv, WireTypes
<1>2. published' \in Seq(EventSet) /\ Len(published') = Len(published) + 1
      /\ published'[Len(published) + 1] = event
      /\ \A n \in 1..Len(published) : published'[n] = published[n]
  BY <1>1 DEF Broadcast
<1>3. \A c \in Streams :
        \/ wire'[c] = wire[c]
        \/ link[c] = "up" /\ wire'[c] = Append(wire[c], Len(published) + 1)
  BY DEF Broadcast
<1>4. wire' \in [Streams -> Seq(Nat)]
  <2>1. ASSUME NEW c \in Streams PROVE wire'[c] \in Seq(Nat)
    <3>1. wire[c] \in Seq(Nat) /\ Len(published) + 1 \in Nat
      BY <1>1
    <3>2. Append(wire[c], Len(published) + 1) \in Seq(Nat)
      BY <3>1
    <3> QED BY <3>1, <3>2, <1>3
  <2>2. wire' = [c \in Streams |-> wire'[c]]
    BY DEF Broadcast
  <2> QED BY <2>1, <2>2
<1>5. WireTypes'
  BY <1>2, <1>4 DEF WireInv, WireTypes
<1>6. Top' = Top /\ Live' = Live
  BY DEF Top, Live
<1>7. OnlyLiveWires'
  BY <1>1, <1>3, <1>6 DEF WireInv, OnlyLiveWires
<1>8. Top' <= Len(published')
  BY <1>1, <1>2, <1>6 DEF WireInv
<1>9. ASSUME NEW c \in BrowserStreams PROVE Unread(wire[c], Top, Len(published))'
  <2>1. wire[c] \in Seq(Nat) /\ Unread(wire[c], Top, Len(published)) /\ Top <= Len(published)
        /\ Len(published) \in Nat
    BY <1>1 DEF WireInv
  <2>2. CASE wire'[c] = wire[c]
    BY <2>1, <2>2, <1>1, <1>2, <1>6 DEF Unread
  <2>3. CASE wire'[c] = Append(wire[c], Len(published) + 1)
    <3> DEFINE w == wire[c]
               v == Append(w, Len(published) + 1)
    <3>1. Len(v) = Len(w) + 1 /\ Len(w) \in Nat /\ v[Len(w) + 1] = Len(published) + 1
          /\ \A i \in 1..Len(w) : v[i] = w[i] /\ w[i] \in Nat
      BY <2>1
    <3>2. \A i \in 1..Len(v) : Top < v[i] /\ v[i] <= Len(published) + 1
      BY <3>1, <2>1, <1>1 DEF Unread
    <3>3. ASSUME NEW i \in 1..Len(v), NEW j \in 1..Len(v), i < j PROVE v[i] < v[j]
      <4> HIDE DEF v, w
      <4>1. i \in 1..Len(w) /\ v[i] = w[i] /\ w[i] \in Nat
        BY <3>1, <3>3
      <4>2. w[i] <= Len(published)
        BY <4>1, <2>1 DEF Unread, w
      <4>3. CASE j \in 1..Len(w)
        BY <4>1, <4>3, <3>1, <3>3, <2>1 DEF Unread, w
      <4>4. CASE j = Len(w) + 1
        BY <4>1, <4>2, <4>4, <3>1, <2>1
      <4> QED BY <4>3, <4>4, <3>1
    <3> QED BY <2>3, <3>2, <3>3, <1>2, <1>6 DEF Unread
  <2> QED BY <2>2, <2>3, <1>1, <1>3
<1> QED BY <1>5, <1>7, <1>8, <1>9 DEF WireInv

\* Steps that publish and show nothing only empty wires.
LEMMA QuietKeeps ==
  ASSUME WireInv, UNCHANGED <<published, events>>,
         link' \in [Streams -> LinkStates], wire' \in [Streams -> Seq(Nat)], OnlyLiveWires',
         \A c \in BrowserStreams : wire'[c] = wire[c] \/ wire'[c] = <<>>
  PROVE  WireInv'
<1>1. WireTypes' /\ Top' = Top
  BY DEF WireInv, WireTypes, Top
<1>2. ASSUME NEW c \in BrowserStreams PROVE Unread(wire[c], Top, Len(published))'
  <2>1. CASE wire'[c] = wire[c]
    BY <2>1, <1>1 DEF WireInv, Unread
  <2>2. CASE wire'[c] = <<>>
    BY <2>2 DEF Unread
  <2> QED BY <2>1, <2>2
<1> QED BY <1>1, <1>2 DEF WireInv

\* Opening the hook's EventSource keeps wires on live ones only.
LEMMA OpenedWires ==
  ASSUME WireInv, HookOK, Live = {}, Opened, UNCHANGED <<wire, published, events>>
  PROVE  WireInv'
<1>1. PICK c \in BrowserStreams : /\ es' = [es EXCEPT ![c] = "connecting"]
                                 /\ link' = [link EXCEPT ![c] = "requested"]
  BY DEF Opened
<1>2. link' \in [Streams -> LinkStates] /\ wire' \in [Streams -> Seq(Nat)]
  BY <1>1 DEF WireInv, WireTypes, LinkStates
<1>3. ASSUME NEW b \in BrowserStreams, b \notin Live'
      PROVE  wire'[b] = <<>> /\ link'[b] \notin {"requested", "up"}
  <2>1. b # c
    BY <1>1, <1>3 DEF Live, HookOK
  <2>2. link'[b] = link[b]
    BY <1>1, <2>1, FeedAssumption DEF WireInv, WireTypes
  <2> QED BY <2>2, <1>3 DEF WireInv, OnlyLiveWires
<1>4. OnlyLiveWires'
  BY <1>3 DEF OnlyLiveWires
<1> QED BY <1>2, <1>4, QuietKeeps

\* Closing the hook's EventSource empties its wire.
LEMMA ClosedWires ==
  ASSUME WireInv, HookOK, NEW c \in BrowserStreams, Live \subseteq {c}, Closed(c),
         UNCHANGED <<published, events>>
  PROVE  WireInv'
<1>0. c \in Streams
  BY FeedAssumption
<1>1. /\ link' = [link EXCEPT ![c] = IF @ = "refused" THEN @ ELSE "broken"]
      /\ wire' = [wire EXCEPT ![c] = <<>>]
  BY DEF Closed
<1>2. link' \in [Streams -> LinkStates] /\ wire' \in [Streams -> Seq(Nat)]
  <2>1. <<>> \in Seq(Nat)
    OBVIOUS
  <2>2. wire' \in [Streams -> Seq(Nat)]
    BY <1>1, <2>1 DEF WireInv, WireTypes
  <2>3. link' \in [Streams -> LinkStates]
    BY <1>1 DEF WireInv, WireTypes, LinkStates
  <2> QED BY <2>2, <2>3
<1>3. wire'[c] = <<>> /\ link'[c] \in {"refused", "broken"}
  BY <1>0, <1>1 DEF WireInv, WireTypes
<1>4. \A b \in BrowserStreams \ {c} : wire'[b] = wire[b] /\ link'[b] = link[b] /\ b \notin Live
  BY <1>1, FeedAssumption DEF WireInv, WireTypes
<1>5. OnlyLiveWires'
  BY <1>3, <1>4 DEF WireInv, OnlyLiveWires
<1>6. \A b \in BrowserStreams : wire'[b] = wire[b] \/ wire'[b] = <<>>
  BY <1>3, <1>4
<1> QED BY <1>2, <1>5, <1>6, QuietKeeps

\* The page reads the oldest event of its connection, and shows it on top.
LEMMA MessageKeeps ==
  ASSUME FullInv, NEW c \in BrowserStreams, OnMessage(c)
  PROVE  /\ WireInv'
         /\ Head(wire[c]) \in 1..Len(published)
         /\ Head(wire[c]) > Top
<1> DEFINE n == Head(wire[c])
<1>0. c \in Streams /\ WireInv /\ WireTypes /\ Top \in Nat /\ c \in Live
  BY TopIsNat, FeedAssumption DEF FullInv, WireInv, OnMessage, Live
<1>1. /\ wire[c] \in Seq(Nat) /\ wire[c] # <<>> /\ Unread(wire[c], Top, Len(published))
      /\ Len(published) \in Nat
  BY <1>0 DEF OnMessage, WireInv, WireTypes
<1>2. n = wire[c][1] /\ 1 \in 1..Len(wire[c]) /\ n \in Nat
  BY <1>1
<1>3. n \in 1..Len(published) /\ n > Top
  BY <1>0, <1>1, <1>2 DEF Unread
<1>4. published[n] \in EventSet
  BY <1>0, <1>3 DEF WireTypes
<1>6. events' \in [Channels -> Seq(Nat)]
  <2>1. \A ch \in Channels : events[ch] \in Seq(Nat) /\ Prepend(n, events[ch]) \in Seq(Nat)
    BY <1>0, <1>2, PrependOK DEF WireTypes
  <2> QED BY <2>1 DEF OnMessage, IngestEvent
<1>7. Top' = n
  <2>1. ResortWide \in Buckets(published[n]) /\ ResortWide \in Channels
    BY <1>4, BucketsOK DEF Channels
  <2>2. events'[ResortWide] = Prepend(n, events[ResortWide])
    BY <2>1 DEF OnMessage, IngestEvent
  <2>3. events[ResortWide] \in Seq(Nat)
    BY <1>0, <2>1 DEF WireTypes
  <2> QED BY <2>2, <2>3, <1>2, PrependOK DEF Top
<1>8. wire' = [wire EXCEPT ![c] = Tail(@)] /\ UNCHANGED <<link, published, es>>
  BY DEF OnMessage
<1>9. Tail(wire[c]) \in Seq(Nat) /\ Len(Tail(wire[c])) = Len(wire[c]) - 1
      /\ \A i \in 1..Len(Tail(wire[c])) : Tail(wire[c])[i] = wire[c][i + 1]
  BY <1>1
<1>10. wire' \in [Streams -> Seq(Nat)] /\ wire'[c] = Tail(wire[c])
       /\ \A b \in BrowserStreams \ {c} : wire'[b] = wire[b]
  BY <1>0, <1>8, <1>9, FeedAssumption DEF WireTypes
<1>11. WireTypes' /\ Live' = Live
  BY <1>0, <1>6, <1>8, <1>10 DEF WireTypes, Live
<1>12. OnlyLiveWires'
  BY <1>0, <1>8, <1>10, <1>11 DEF WireInv, OnlyLiveWires
<1>13. Unread(Tail(wire[c]), n, Len(published))
  <2> DEFINE w == wire[c]
             v == Tail(w)
  <2>1. Len(w) \in Nat /\ \A i \in 1..Len(w) : w[i] \in Nat
    BY <1>1
  <2>2. ASSUME NEW i \in 1..Len(v) PROVE i + 1 \in 1..Len(w) /\ v[i] = w[i + 1] /\ 1 < i + 1
    BY <1>9, <2>1
  <2>3. \A i \in 1..Len(v) : n < v[i] /\ v[i] <= Len(published)
    BY <2>2, <1>1, <1>2 DEF Unread
  <2>4. ASSUME NEW i \in 1..Len(v), NEW j \in 1..Len(v), i < j PROVE v[i] < v[j]
    <3>1. i + 1 \in 1..Len(w) /\ j + 1 \in 1..Len(w) /\ i + 1 < j + 1
      BY <2>2, <2>4, <1>9, <2>1
    <3> QED BY <3>1, <2>2, <1>1 DEF Unread
  <2> QED BY <2>3, <2>4 DEF Unread
<1>14. ASSUME NEW b \in BrowserStreams PROVE Unread(wire[b], Top, Len(published))'
  <2>1. CASE b = c
    BY <2>1, <1>7, <1>8, <1>10, <1>13 DEF Unread
  <2>2. CASE b # c
    <3>1. b \notin Live
      BY <1>0, <2>2 DEF FullInv, FeedInv, OneStream, Live
    <3>2. wire'[b] = <<>>
      BY <2>2, <3>1, <1>0, <1>10 DEF WireInv, OnlyLiveWires
    <3> QED BY <3>2 DEF Unread
  <2> QED BY <2>1, <2>2
<1>15. Top' <= Len(published')
  BY <1>1, <1>3, <1>7, <1>8
<1> QED BY <1>3, <1>11, <1>12, <1>14, <1>15 DEF WireInv

\* Nothing is published, written or shown at the start.
LEMMA WireInit == ASSUME Init PROVE FullInv
<1>1. \A S : <<>> \in Seq(S)
  OBVIOUS
<1>2. WireTypes
  BY <1>1 DEF Init, HubInit, WireTypes, LinkStates
<1>3. OnlyLiveWires
  BY FeedAssumption DEF Init, HubInit, OnlyLiveWires
<1>4. Top = 0
  BY DEF Init, Top, Channels
<1>5. \A c \in BrowserStreams : wire[c] = <<>>
  BY FeedAssumption DEF Init, HubInit
<1>6. published = <<>> /\ Len(published) = 0
  BY DEF Init, HubInit
<1>7. \A c \in BrowserStreams : Unread(wire[c], Top, Len(published))
  BY <1>5 DEF Unread
<1> QED BY <1>2, <1>3, <1>4, <1>6, <1>7, FeedInitOK DEF FullInv, WireInv

\* The hub's own steps on one connection write nothing to it.
LEMMA LinkKeeps ==
  ASSUME FullInv, NEW c \in Streams, UNCHANGED <<published, es, events>>,
         AddClient(c) \/ RefuseClient(c) \/ RemoveClient(c) \/ Drop(c)
  PROVE  WireInv'
<1>0. WireInv /\ WireTypes /\ OnlyLiveWires /\ BrowserStreams \subseteq Streams /\ Live' = Live
  BY FeedAssumption DEF FullInv, WireInv, Live
<1>1. <<>> \in Seq(Nat)
  OBVIOUS
<1>2. wire' = wire \/ wire' = [wire EXCEPT ![c] = <<>>]
  BY DEF AddClient, RefuseClient, RemoveClient, Drop
<1>3. wire' \in [Streams -> Seq(Nat)]
      /\ \A b \in Streams : wire'[b] = wire[b] \/ wire'[b] = <<>>
  BY <1>0, <1>1, <1>2 DEF WireTypes
<1>4. \/ link' = link
      \/ /\ link[c] \in {"requested", "up"}
         /\ \E l \in LinkStates : link' = [link EXCEPT ![c] = l]
  BY DEF AddClient, RefuseClient, RemoveClient, Drop, LinkStates
<1>5. link' \in [Streams -> LinkStates]
      /\ \A b \in Streams : link'[b] = link[b] \/ link[b] \in {"requested", "up"}
  BY <1>0, <1>4 DEF WireTypes
<1>6. OnlyLiveWires'
  BY <1>0, <1>3, <1>5 DEF OnlyLiveWires
<1> QED BY <1>0, <1>3, <1>5, <1>6, QuietKeeps

\* Steps that leave connections, events and the page's lists alone.
LEMMA WireKept ==
  ASSUME FullInv, UNCHANGED <<published, link, wire, events>>, Live' = Live
  PROVE  WireInv'
<1>1. WireInv /\ WireTypes /\ OnlyLiveWires
  BY DEF FullInv, WireInv
<1>2. OnlyLiveWires'
  BY <1>1 DEF OnlyLiveWires
<1>3. link' \in [Streams -> LinkStates] /\ wire' \in [Streams -> Seq(Nat)]
  BY <1>1 DEF WireTypes
<1> QED BY <1>1, <1>2, <1>3, QuietKeeps

\* The whole invariant is inductive.
LEMMA FullStep ==
  ASSUME FullInv, [Next]_vars PROVE FullInv'
<1>0. /\ FeedInv /\ HookOK /\ WireInv
      /\ Live \subseteq {connection}
      /\ timer # 0 => Live = {}
      /\ ~active => Live = {}
  BY OneStreamLive DEF FullInv, FeedInv
<1>a. FeedInv'
  BY <1>0, FeedStep
<1>1. CASE HubNext
  <2>1. UNCHANGED <<es, events>>
    BY <1>1 DEF HubNext, Aside, store
  <2>2. CASE Routes
    <3>1. PICK event \in EventSet : Broadcast(event) /\ UNCHANGED <<link, clients, drops>>
      BY <2>2, RouteBroadcasts
    <3> QED BY <3>1, <2>1, <1>0, <1>a, BroadcastKeeps DEF FullInv
  <2>3. ASSUME NEW c \in Streams,
               AddClient(c) \/ RefuseClient(c) \/ RemoveClient(c) \/ Drop(c)
        PROVE  FullInv'
    <3>1. published' = published
      BY <2>3 DEF AddClient, RefuseClient, RemoveClient, Drop
    <3> QED BY <2>3, <3>1, <2>1, <1>a, LinkKeeps DEF FullInv
  <2> QED BY <1>1, <2>2, <2>3, FeedAssumption DEF HubNext
<1>2. CASE Mount
  BY <1>2, <1>0, <1>a, OpenedWires DEF Mount, store, FullInv
<1>3. CASE Unmount
  <2>1. UNCHANGED <<published, events>>
    BY <1>3 DEF Unmount, store
  <2>2. CASE connection \in BrowserStreams
    <3>1. Closed(connection)
      BY <1>3, <2>2, FeedAssumption DEF Unmount
    <3> QED BY <3>1, <2>1, <2>2, <1>0, <1>a, ClosedWires DEF FullInv
  <2>3. CASE connection = None
    <3>1. UNCHANGED <<es, link, wire>>
      BY <1>3, <2>3 DEF Unmount
    <3>2. Live' = Live
      BY <3>1 DEF Live
    <3> QED BY <3>1, <3>2, <2>1, <1>a, WireKept DEF FullInv
  <2> QED BY <2>2, <2>3, <1>0 DEF HookOK
<1>4. CASE TimerFires
  <2>1. Live = {} /\ active /\ Opened /\ UNCHANGED <<wire, published, events>>
    BY <1>4, <1>0 DEF TimerFires, store, FullInv, FeedInv, OneStream
  <2> QED BY <2>1, <1>0, <1>a, OpenedWires DEF FullInv
<1>5. ASSUME NEW c \in BrowserStreams, OnOpen(c) PROVE FullInv'
  <2>1. UNCHANGED <<published, link, wire, events>>
        /\ es[c] = "connecting" /\ es' = [es EXCEPT ![c] = "open"]
    BY <1>5 DEF OnOpen, hubVars, store
  <2>2. Live' = Live
    BY <2>1, <1>0 DEF Live, HookOK
  <2> QED BY <2>1, <2>2, <1>a, WireKept DEF FullInv
<1>6. ASSUME NEW c \in BrowserStreams, OnMessage(c) PROVE FullInv'
  BY <1>6, <1>a, MessageKeeps DEF FullInv
<1>7. ASSUME NEW c \in BrowserStreams, OnError(c) PROVE FullInv'
  <2>1. c \in Live /\ Closed(c) /\ UNCHANGED <<published, events>>
    BY <1>7 DEF OnError, Live, store
  <2>2. Live \subseteq {c}
    BY <2>1, <1>0
  <2> QED BY <2>1, <2>2, <1>0, <1>a, ClosedWires DEF FullInv
<1>8. ASSUME UNCHANGED <<hubVars, es, store>> PROVE FullInv'
  <2>1. UNCHANGED <<published, link, wire, events>> /\ Live' = Live
    BY <1>8 DEF hubVars, store, Live
  <2> QED BY <2>1, <1>a, WireKept DEF FullInv
<1>9. CASE \E z \in Zones : PulseEnds(z)
  BY <1>9, <1>8 DEF PulseEnds
<1>10. CASE UNCHANGED vars
  BY <1>10, <1>8 DEF vars
<1> QED BY <1>1, <1>2, <1>3, <1>4, <1>5, <1>6, <1>7, <1>9, <1>10 DEF Next, BrowserStep

-----------------------------------------------------------------------------
(* Nothing is missed on a stream that stays up.  The hub writes only to    *)
(* registered streams, so those that are up must be; and a list that is    *)
(* full drops its oldest entry only because it is in descending order.     *)
Registered == \A c \in BrowserStreams : link[c] = "up" => c \in clients

Descending(s, high) ==
  /\ \A i \in 1..Len(s) : s[i] <= high
  /\ \A i, j \in 1..Len(s) : i < j => s[i] > s[j]

GapInv ==
  /\ Registered
  /\ \A ch \in Channels : Descending(events[ch], Top)
  /\ joined \in Nat
  /\ NoGap

\* What prepend returns: the event, then the list without what does not fit.
LEMMA PrependEntries ==
  ASSUME NEW n \in Nat, NEW s \in Seq(Nat)
  PROVE  LET v == Prepend(n, s)
             k == IF Len(s) < MAX_EVENTS THEN Len(s) + 1 ELSE MAX_EVENTS
         IN  /\ Len(v) = k /\ k \in 1..(Len(s) + 1) /\ v[1] = n
             /\ \A i \in 2..k : i - 1 \in 1..Len(s) /\ v[i] = s[i - 1]
<1> DEFINE k == IF Len(s) < MAX_EVENTS THEN Len(s) + 1 ELSE MAX_EVENTS
           t == <<n>> \o s
<1>1. k \in 1..(Len(s) + 1) /\ k \in Nat
  BY FeedAssumption
<1>2. t \in Seq(Nat) /\ Len(t) = Len(s) + 1 /\ t[1] = n
      /\ \A i \in 2..(Len(s) + 1) : t[i] = s[i - 1]
  OBVIOUS
<1>3. Prepend(n, s) = SubSeq(t, 1, k)
  BY DEF Prepend
<1>4. Len(SubSeq(t, 1, k)) = k /\ \A i \in 1..k : SubSeq(t, 1, k)[i] = t[i]
  BY <1>1, <1>2
<1>5. \A i \in 2..k : i - 1 \in 1..Len(s) /\ i \in 1..k /\ i \in 2..(Len(s) + 1)
  BY <1>1
<1> HIDE DEF k, t
<1>6. \A i \in 2..k : SubSeq(t, 1, k)[i] = s[i - 1]
  BY <1>2, <1>4, <1>5
<1>7. SubSeq(t, 1, k)[1] = n
  BY <1>1, <1>2, <1>4
<1> QED BY <1>1, <1>3, <1>4, <1>5, <1>6, <1>7 DEF k

\* A newer event goes on top of a descending list.
LEMMA PrependDescends ==
  ASSUME NEW n \in Nat, NEW s \in Seq(Nat), NEW high \in Nat, Descending(s, high), n > high
  PROVE  Descending(Prepend(n, s), n)
<1> DEFINE v == Prepend(n, s)
           k == IF Len(s) < MAX_EVENTS THEN Len(s) + 1 ELSE MAX_EVENTS
<1>1. /\ Len(v) = k /\ k \in 1..(Len(s) + 1) /\ v[1] = n
      /\ \A i \in 2..k : i - 1 \in 1..Len(s) /\ v[i] = s[i - 1]
  BY PrependEntries
<1>2. Len(s) \in Nat /\ \A i \in 1..Len(s) : s[i] \in Nat /\ s[i] < n
  BY DEF Descending
<1> HIDE DEF v, k
<1>3. \A i \in 2..k : v[i] \in Nat /\ v[i] < n
  BY <1>1, <1>2
<1>4. \A i \in 1..k : i = 1 \/ i \in 2..k
  BY <1>1
<1>5. ASSUME NEW i \in 1..k PROVE v[i] <= n
  <2>1. CASE i = 1
    BY <2>1, <1>1
  <2>2. CASE i \in 2..k
    BY <2>2, <1>3
  <2> QED BY <2>1, <2>2, <1>4
<1>6. ASSUME NEW i \in 1..k, NEW j \in 1..k, i < j PROVE v[i] > v[j]
  <2>1. j \in 2..k
    BY <1>1, <1>6
  <2>2. CASE i = 1
    BY <2>1, <2>2, <1>1, <1>3
  <2>3. CASE i \in 2..k
    <3>1. i - 1 \in 1..Len(s) /\ j - 1 \in 1..Len(s) /\ i - 1 < j - 1
      BY <2>1, <2>3, <1>1, <1>6
    <3>2. s[i - 1] > s[j - 1]
      BY <3>1 DEF Descending
    <3> QED BY <2>1, <2>3, <3>2, <1>1
  <2> QED BY <2>2, <2>3, <1>4
<1> QED BY <1>1, <1>5, <1>6 DEF Descending, v

\* A newer event does not hide that an older one was received.
LEMMA PrependReceives ==
  ASSUME NEW n \in Nat, NEW s \in Seq(Nat), NEW high \in Nat, Descending(s, high), n > high,
         NEW m \in Nat, Received(m, s)
  PROVE  Received(m, Prepend(n, s))
<1> DEFINE v == Prepend(n, s)
           k == IF Len(s) < MAX_EVENTS THEN Len(s) + 1 ELSE MAX_EVENTS
<1>1. /\ Len(v) = k /\ k \in 1..(Len(s) + 1) /\ v[1] = n
      /\ \A i \in 2..k : i - 1 \in 1..Len(s) /\ v[i] = s[i - 1]
  BY PrependEntries
<1>2. Len(s) \in Nat /\ MAX_EVENTS \in Nat \ {0} /\ \A i \in 1..Len(s) : s[i] \in Nat /\ s[i] < n
  BY FeedAssumption DEF Descending
<1>3. k = IF Len(s) < MAX_EVENTS THEN Len(s) + 1 ELSE MAX_EVENTS
  OBVIOUS
<1> HIDE DEF v, k
<1>4. \A i \in 1..k : i = 1 \/ i \in 2..k
  BY <1>1
<1>5. ASSUME NEW i \in 1..Len(s), s[i] = m
      PROVE  \/ \E j \in 1..Len(v) : v[j] = m
             \/ Len(v) = MAX_EVENTS /\ \A j \in 1..Len(v) : v[j] > m
  <2>1. CASE i + 1 \in 2..k
    <3>1. i + 1 \in 1..k /\ v[i + 1] = m
      BY <2>1, <1>1, <1>5
    <3> QED BY <3>1, <1>1
  <2>2. CASE i + 1 \notin 2..k
    <3>1. k = MAX_EVENTS /\ \A j \in 2..k : j - 1 < i
      BY <2>2, <1>2, <1>3
    <3>2. m < n
      BY <1>2, <1>5
    <3>3. ASSUME NEW j \in 2..k PROVE v[j] > m
      <4>1. j - 1 \in 1..Len(s) /\ v[j] = s[j - 1] /\ j - 1 < i
        BY <1>1, <3>1
      <4>2. s[j - 1] > s[i]
        BY <4>1 DEF Descending
      <4> QED BY <4>1, <4>2, <1>5
    <3> QED BY <3>1, <3>2, <3>3, <1>1, <1>4
  <2> QED BY <2>1, <2>2
<1>6. ASSUME Len(s) = MAX_EVENTS, \A i \in 1..Len(s) : s[i] > m
      PROVE  Len(v) = MAX_EVENTS /\ \A j \in 1..Len(v) : v[j] > m
  <2>1. k = MAX_EVENTS
    BY <1>3, <1>6, <1>2
  <2>2. 1 \in 1..Len(s)
    BY <1>2, <1>6
  <2>3. n > m
    <3>1. s[1] > m /\ s[1] < n /\ s[1] \in Nat
      BY <2>2, <1>2, <1>6
    <3> QED BY <3>1
  <2>4. \A j \in 2..k : v[j] > m
    BY <1>1, <1>6
  <2> QED BY <2>1, <2>3, <2>4, <1>1, <1>4
<1> QED BY <1>5, <1>6 DEF v, Received

\* Steps that neither publish, show nor bring a stream up.
LEMMA GapKept ==
  ASSUME NoGap, UNCHANGED <<published, events, joined>>,
         \A b \in BrowserStreams :
           b \in Live' /\ link'[b] = "up" => b \in Live /\ link[b] = "up" /\ wire'[b] = wire[b]
  PROVE  NoGap'
<1> SUFFICES ASSUME NEW c \in BrowserStreams,
                    es'[c] \in {"connecting", "open"}, link'[c] = "up",
                    AllowedChannels[c] = Channels,
                    NEW n \in (joined' + 1)..Len(published')
             PROVE  \/ \E i \in 1..Len(wire'[c]) : wire'[c][i] = n
                    \/ \A ch \in Buckets(published'[n]) : Received(n, events'[ch])
  BY DEF NoGap
<1>1. es[c] \in {"connecting", "open"} /\ link[c] = "up" /\ wire'[c] = wire[c]
  BY DEF Live
<1>2. \/ \E i \in 1..Len(wire[c]) : wire[c][i] = n
      \/ \A ch \in Buckets(published[n]) : Received(n, events[ch])
  BY <1>1 DEF NoGap
<1> QED BY <1>1, <1>2 DEF Received

\* A broadcast event goes on the wire of every stream that is up.
LEMMA GapBroadcast ==
  ASSUME WireInv, GapInv, NEW event \in EventSet, Broadcast(event),
         UNCHANGED <<link, clients, es, events, joined>>
  PROVE  GapInv'
<1>1. published \in Seq(EventSet) /\ wire \in [Streams -> Seq(Nat)]
      /\ BrowserStreams \subseteq Streams /\ Len(published) \in Nat
  BY FeedAssumption DEF WireInv, WireTypes
<1>2. Len(published') = Len(published) + 1
      /\ \A n \in 1..Len(published) : published'[n] = published[n]
  BY <1>1 DEF Broadcast
<1>3. Registered' /\ joined' \in Nat /\ Top' = Top
      /\ \A ch \in Channels : Descending(events[ch], Top)'
  BY DEF GapInv, Registered, Top, Descending
<1>4. ASSUME NEW c \in BrowserStreams,
             es'[c] \in {"connecting", "open"}, link'[c] = "up",
             AllowedChannels[c] = Channels,
             NEW n \in (joined' + 1)..Len(published')
      PROVE  \/ \E i \in 1..Len(wire'[c]) : wire'[c][i] = n
             \/ \A ch \in Buckets(published'[n]) : Received(n, events'[ch])
  <2>1. c \in Streams /\ c \in clients /\ link[c] = "up" /\ event.channel \in AllowedChannels[c]
    BY <1>1, <1>4 DEF GapInv, Registered, EventSet
  <2>2. wire'[c] = Append(wire[c], Len(published) + 1) /\ wire[c] \in Seq(Nat)
    BY <2>1, <1>1 DEF Broadcast
  <2>3. Len(wire'[c]) = Len(wire[c]) + 1 /\ Len(wire[c]) \in Nat
        /\ wire'[c][Len(wire[c]) + 1] = Len(published) + 1
        /\ \A i \in 1..Len(wire[c]) : wire'[c][i] = wire[c][i]
    BY <2>2, <1>1
  <2>4. CASE n = Len(published) + 1
    <3>1. Len(wire[c]) + 1 \in 1..Len(wire'[c])
      BY <2>3
    <3> QED BY <2>3, <2>4, <3>1
  <2>5. CASE n # Len(published) + 1
    <3>1. n \in (joined + 1)..Len(published) /\ n \in 1..Len(published)
      BY <2>5, <1>1, <1>2, <1>4 DEF GapInv
    <3>2. \/ \E i \in 1..Len(wire[c]) : wire[c][i] = n
          \/ \A ch \in Buckets(published[n]) : Received(n, events[ch])
      BY <3>1, <1>4 DEF GapInv, NoGap
    <3>3. \A i \in 1..Len(wire[c]) : i \in 1..Len(wire'[c])
      BY <2>3
    <3>4. published'[n] = published[n]
      BY <3>1, <1>2
    <3> QED BY <3>2, <3>3, <3>4, <2>3 DEF Received
  <2> QED BY <2>4, <2>5
<1>5. NoGap'
  BY <1>4 DEF NoGap
<1> QED BY <1>3, <1>5 DEF GapInv

\* The page moves the oldest event of its stream from the wire to its lists.
LEMMA GapMessage ==
  ASSUME FullInv, GapInv, NEW c \in BrowserStreams, OnMessage(c)
  PROVE  GapInv'
<1> DEFINE m == Head(wire[c])
<1>0. /\ WireInv /\ WireTypes /\ Top \in Nat /\ c \in Streams /\ c \in Live
      /\ UNCHANGED <<link, clients, published, es, joined>>
      /\ wire' = [wire EXCEPT ![c] = Tail(@)]
  BY TopIsNat, FeedAssumption DEF FullInv, WireInv, OnMessage, Live
<1>1. m \in 1..Len(published) /\ m > Top
  BY MessageKeeps
<1>2. m \in Nat /\ published[m] \in EventSet /\ Len(published) \in Nat
  BY <1>0, <1>1 DEF WireTypes
<1>3. Top' = m
  <2>1. ResortWide \in Buckets(published[m]) /\ ResortWide \in Channels
    BY <1>2, BucketsOK DEF Channels
  <2>2. events'[ResortWide] = Prepend(m, events[ResortWide])
    BY <2>1 DEF OnMessage, IngestEvent
  <2>3. events[ResortWide] \in Seq(Nat)
    BY <1>0, <2>1 DEF WireTypes
  <2> QED BY <2>2, <2>3, <1>2, PrependOK DEF Top
<1> HIDE DEF m
<1>4. \A ch \in Channels : /\ events[ch] \in Seq(Nat) /\ Descending(events[ch], Top)
                           /\ events'[ch] = IF ch \in Buckets(published[m])
                                            THEN Prepend(m, events[ch]) ELSE events[ch]
  BY <1>0 DEF WireTypes, GapInv, OnMessage, IngestEvent, m
<1>5. ASSUME NEW ch \in Channels PROVE Descending(events'[ch], m)
  <2>1. CASE ch \in Buckets(published[m])
    BY <2>1, <1>0, <1>1, <1>2, <1>4, PrependDescends
  <2>2. CASE ch \notin Buckets(published[m])
    <3>1. events'[ch] = events[ch] /\ \A i \in 1..Len(events[ch]) : events[ch][i] \in Nat
      BY <2>2, <1>4
    <3> QED BY <3>1, <1>0, <1>1, <1>2, <1>4 DEF Descending
  <2> QED BY <2>1, <2>2
<1>6. ASSUME NEW n \in Nat, NEW ch \in Channels, Received(n, events[ch]) PROVE Received(n, events'[ch])
  <2>1. CASE ch \in Buckets(published[m])
    <3>1. events[ch] \in Seq(Nat) /\ Descending(events[ch], Top)
          /\ events'[ch] = Prepend(m, events[ch])
      BY <2>1, <1>4
    <3> QED BY <3>1, <1>0, <1>1, <1>2, <1>6, PrependReceives
  <2>2. CASE ch \notin Buckets(published[m])
    BY <2>2, <1>4, <1>6 DEF Received
  <2> QED BY <2>1, <2>2
<1>7. ASSUME NEW ch \in Buckets(published[m]) PROVE Received(m, events'[ch])
  <2>1. ch \in Channels
    BY <1>2, BucketsOK
  <2>2. events[ch] \in Seq(Nat) /\ events'[ch] = Prepend(m, events[ch])
    BY <2>1, <1>4
  <2>3. Len(events'[ch]) \in Nat \ {0} /\ events'[ch][1] = m
    BY <2>2, <1>2, PrependEntries
  <2>4. 1 \in 1..Len(events'[ch])
    BY <2>3
  <2> QED BY <2>3, <2>4 DEF Received
<1>8. ASSUME NEW b \in BrowserStreams,
             es'[b] \in {"connecting", "open"}, link'[b] = "up",
             AllowedChannels[b] = Channels,
             NEW n \in (joined' + 1)..Len(published')
      PROVE  \/ \E i \in 1..Len(wire'[b]) : wire'[b][i] = n
             \/ \A ch \in Buckets(published'[n]) : Received(n, events'[ch])
  <2>1. b = c
    BY <1>0, <1>8 DEF FullInv, FeedInv, OneStream, Live
  <2>2. /\ wire[c] \in Seq(Nat) /\ wire[c] # <<>> /\ wire'[c] = Tail(wire[c])
        /\ published' = published
    BY <1>0 DEF WireTypes, OnMessage
  <2>3. /\ m = wire[c][1] /\ Len(wire[c]) \in Nat \ {0}
        /\ Len(Tail(wire[c])) = Len(wire[c]) - 1
        /\ \A i \in 1..Len(Tail(wire[c])) : Tail(wire[c])[i] = wire[c][i + 1]
    BY <2>2 DEF m
  <2>4. n \in (joined + 1)..Len(published) /\ n \in 1..Len(published)
    BY <1>0, <1>2, <1>8 DEF GapInv
  <2>5. \/ \E i \in 1..Len(wire[c]) : wire[c][i] = n
        \/ \A ch \in Buckets(published[n]) : Received(n, events[ch])
    BY <2>1, <2>4, <1>0, <1>8 DEF GapInv, NoGap
  <2>6. ASSUME NEW i \in 1..Len(wire[c]), wire[c][i] = n, i # 1
        PROVE  \E j \in 1..Len(wire'[b]) : wire'[b][j] = n
    <3>1. i - 1 \in 1..Len(Tail(wire[c])) /\ (i - 1) + 1 = i
      BY <2>3, <2>6
    <3>2. Tail(wire[c])[i - 1] = n
      BY <3>1, <2>3, <2>6
    <3> QED BY <3>1, <3>2, <2>1, <2>2
  <2>7. CASE n = m
    BY <2>7, <2>2, <1>7
  <2>8. ASSUME \A ch \in Buckets(published[n]) : Received(n, events[ch])
        PROVE  \A ch \in Buckets(published'[n]) : Received(n, events'[ch])
    <3>1. published[n] \in EventSet /\ n \in Nat
      BY <2>4, <1>0 DEF WireTypes
    <3>2. Buckets(published[n]) \subseteq Channels
      BY <3>1, BucketsOK
    <3> QED BY <3>1, <3>2, <2>2, <2>8, <1>6
  <2> QED BY <2>3, <2>5, <2>6, <2>7, <2>8
<1>9. NoGap'
  BY <1>8 DEF NoGap
<1>10. Registered' /\ joined' \in Nat
  BY <1>0 DEF GapInv, Registered
<1>11. \A ch \in Channels : Descending(events[ch], Top)'
  BY <1>3, <1>5 DEF Descending
<1> QED BY <1>9, <1>10, <1>11 DEF GapInv

\* Nothing is published, shown or registered at the start.
LEMMA GapInit == ASSUME Init PROVE GapInv
<1>1. \A c \in BrowserStreams : link[c] # "up"
  BY FeedAssumption DEF Init
<1>2. \A ch \in Channels : events[ch] = <<>>
  BY DEF Init
<1>3. \A ch \in Channels : Descending(events[ch], Top)
  BY <1>2 DEF Descending
<1>4. joined \in Nat
  BY DEF Init
<1> QED BY <1>1, <1>3, <1>4 DEF GapInv, Registered, NoGap

\* Steps that neither publish nor show keep the lists and the registrations.
LEMMA GapQuiet ==
  ASSUME GapInv, UNCHANGED <<published, events>>, joined' \in Nat, NoGap', Registered'
  PROVE  GapInv'
<1>1. Top' = Top
  BY DEF Top
<1>2. \A ch \in Channels : Descending(events[ch], Top)'
  BY <1>1 DEF GapInv, Descending
<1> QED BY <1>2 DEF GapInv

\* The hub's own steps on one connection: a stream that comes up starts its
\* account, one that breaks closes it.
LEMMA GapLink ==
  ASSUME FullInv, GapInv, NEW c \in Streams, Aside,
         AddClient(c) \/ RefuseClient(c) \/ RemoveClient(c) \/ Drop(c)
  PROVE  GapInv'
<1>0. /\ BrowserStreams \subseteq Streams /\ UNCHANGED <<published, es, events>>
      /\ link \in [Streams -> LinkStates] /\ wire \in [Streams -> Seq(Nat)]
      /\ published \in Seq(EventSet)
  BY FeedAssumption
     DEF FullInv, WireInv, WireTypes, Aside, store, AddClient, RefuseClient, RemoveClient, Drop
<1>1. Registered'
  <2>1. ASSUME NEW b \in BrowserStreams, link'[b] = "up" PROVE b \in clients'
    BY <2>1, <1>0 DEF GapInv, Registered, AddClient, RefuseClient, RemoveClient, Drop
  <2> QED BY <2>1 DEF Registered
<1>2. CASE \E b \in BrowserStreams : link[b] # "up" /\ link'[b] = "up"
  <2>1. joined' = Len(published) /\ Len(published) \in Nat
    BY <1>0, <1>2 DEF Aside
  <2>2. (joined' + 1)..Len(published') = {}
    BY <2>1, <1>0
  <2>3. NoGap'
    BY <2>2 DEF NoGap
  <2> QED BY <2>1, <2>3, <1>0, <1>1, GapQuiet
<1>3. CASE ~\E b \in BrowserStreams : link[b] # "up" /\ link'[b] = "up"
  <2>1. joined' = joined /\ joined \in Nat
    BY <1>3 DEF Aside, GapInv
  <2>2. ASSUME NEW b \in BrowserStreams, b \in Live', link'[b] = "up"
        PROVE  b \in Live /\ link[b] = "up" /\ wire'[b] = wire[b]
    <3>1. b \in Live /\ link[b] = "up"
      BY <2>2, <1>0, <1>3 DEF Live
    <3>2. wire'[b] = wire[b]
      BY <2>2, <3>1, <1>0 DEF AddClient, RefuseClient, RemoveClient, Drop
    <3> QED BY <3>1, <3>2
  <2>3. NoGap'
    BY <2>1, <2>2, <1>0, GapKept DEF GapInv
  <2> QED BY <2>1, <2>3, <1>0, <1>1, GapQuiet
<1> QED BY <1>2, <1>3

\* Steps of the page that bring no stream up.
LEMMA GapPage ==
  ASSUME FullInv, GapInv, UNCHANGED <<clients, published, events, joined>>,
         \A b \in BrowserStreams :
           link'[b] = "up" => /\ link[b] = "up" /\ wire'[b] = wire[b]
                              /\ b \in Live' => b \in Live
  PROVE  GapInv'
<1>1. Registered' /\ joined' \in Nat
  BY DEF GapInv, Registered
<1>2. NoGap'
  BY GapKept DEF GapInv
<1> QED BY <1>1, <1>2, GapQuiet

\* A stream that is being opened is not up yet.
LEMMA GapOpened ==
  ASSUME FullInv, GapInv, Opened, UNCHANGED <<clients, wire, published, events, joined>>
  PROVE  GapInv'
<1>1. PICK c \in BrowserStreams : /\ es' = [es EXCEPT ![c] = "connecting"]
                                 /\ link' = [link EXCEPT ![c] = "requested"]
  BY DEF Opened
<1>2. /\ link \in [Streams -> LinkStates] /\ es \in [BrowserStreams -> ReadyStates]
      /\ BrowserStreams \subseteq Streams
  BY FeedAssumption DEF FullInv, FeedInv, HookOK, WireInv, WireTypes
<1>3. ASSUME NEW b \in BrowserStreams, link'[b] = "up"
      PROVE  link[b] = "up" /\ (b \in Live' => b \in Live)
  BY <1>1, <1>2, <1>3 DEF Live
<1> QED BY <1>3, GapPage

\* A stream that is closed is up no more.
LEMMA GapClosed ==
  ASSUME FullInv, GapInv, NEW c \in BrowserStreams, Closed(c),
         UNCHANGED <<clients, published, events, joined>>
  PROVE  GapInv'
<1>1. /\ link \in [Streams -> LinkStates] /\ es \in [BrowserStreams -> ReadyStates]
      /\ wire \in [Streams -> Seq(Nat)] /\ BrowserStreams \subseteq Streams
  BY FeedAssumption DEF FullInv, FeedInv, HookOK, WireInv, WireTypes
<1>2. ASSUME NEW b \in BrowserStreams, link'[b] = "up"
      PROVE  link[b] = "up" /\ wire'[b] = wire[b] /\ (b \in Live' => b \in Live)
  <2>1. b # c
    BY <1>1, <1>2 DEF Closed
  <2> QED BY <2>1, <1>1, <1>2 DEF Closed, Live
<1> QED BY <1>2, GapPage

\* Every step of hub and page keeps the account.
LEMMA GapStep ==
  ASSUME FullInv, GapInv, [Next]_vars PROVE GapInv'
<1>1. CASE HubNext
  <2>1. Aside
    BY <1>1 DEF HubNext
  <2>2. CASE Routes
    <3>1. PICK event \in EventSet : Broadcast(event) /\ UNCHANGED <<link, clients, drops>>
      BY <2>2, RouteBroadcasts
    <3>2. UNCHANGED <<es, events, joined>>
      BY <2>1, <3>1 DEF Aside, store
    <3> QED BY <3>1, <3>2, GapBroadcast DEF FullInv
  <2> QED BY <1>1, <2>1, <2>2, GapLink, FeedAssumption DEF HubNext
<1>2. CASE Mount
  BY <1>2, GapOpened DEF Mount, store
<1>3. CASE Unmount
  <2>1. UNCHANGED <<clients, published, events, joined>>
    BY <1>3 DEF Unmount, store
  <2>2. CASE connection \in BrowserStreams
    <3>1. Closed(connection)
      BY <1>3, <2>2, FeedAssumption DEF Unmount
    <3> QED BY <3>1, <2>1, <2>2, GapClosed
  <2>3. CASE connection = None
    <3>1. UNCHANGED <<es, link, wire>>
      BY <1>3, <2>3 DEF Unmount
    <3>2. Live' = Live
      BY <3>1 DEF Live
    <3> QED BY <3>1, <3>2, <2>1, GapPage
  <2> QED BY <2>2, <2>3 DEF FullInv, FeedInv, HookOK
<1>4. CASE TimerFires
  <2>1. active /\ Opened /\ UNCHANGED <<clients, wire, published, events, joined>>
    BY <1>4 DEF TimerFires, store, FullInv, FeedInv, OneStream
  <2> QED BY <2>1, GapOpened
<1>5. ASSUME NEW c \in BrowserStreams, OnOpen(c) PROVE GapInv'
  <2>1. UNCHANGED <<clients, published, link, wire, events, joined>>
        /\ es[c] = "connecting" /\ es' = [es EXCEPT ![c] = "open"]
    BY <1>5 DEF OnOpen, hubVars, store
  <2>2. Live' = Live
    BY <2>1 DEF Live, FullInv, FeedInv, HookOK
  <2> QED BY <2>1, <2>2, GapPage
<1>6. ASSUME NEW c \in BrowserStreams, OnMessage(c) PROVE GapInv'
  BY <1>6, GapMessage
<1>7. ASSUME NEW c \in BrowserStreams, OnError(c) PROVE GapInv'
  BY <1>7, GapClosed DEF OnError, store
<1>8. ASSUME UNCHANGED <<hubVars, es, store, joined>> PROVE GapInv'
  <2>1. UNCHANGED <<clients, published, link, wire, events, joined>> /\ Live' = Live
    BY <1>8 DEF hubVars, store, Live
  <2> QED BY <2>1, GapPage
<1>9. CASE \E z \in Zones : PulseEnds(z)
  BY <1>9, <1>8 DEF PulseEnds
<1>10. CASE UNCHANGED vars
  BY <1>10, <1>8 DEF vars
<1> QED BY <1>1, <1>2, <1>3, <1>4, <1>5, <1>6, <1>7, <1>9, <1>10 DEF Next, BrowserStep

\* eventBus.ts and events-store.ts: whatever other streams are dead but not
\* yet removed, everything published since the page's stream came up is on
\* its wire, in all of its lists, or pushed out of a full list by newer events.
THEOREM NothingMissed == Spec => []NoGap
<1>1. Init => FullInv /\ GapInv
  BY WireInit, GapInit
<1>2. FullInv /\ GapInv /\ [Next]_vars => (FullInv /\ GapInv)'
  BY FullStep, GapStep
<1>3. GapInv => NoGap
  BY DEF GapInv
<1> QED BY <1>1, <1>2, <1>3, PTL DEF Spec

-----------------------------------------------------------------------------
\* The abstract log: the lists of every event published.
Logged == [n \in DOMAIN published |-> Buckets(published[n])]

\* Broadcasting an event appends its lists to the abstract log.
LEMMA BroadcastPosts ==
  ASSUME published \in Seq(EventSet), NEW event \in EventSet, Broadcast(event)
  PROVE  \E lists \in SUBSET Channels : ResortWide \in lists /\ Logged' = Append(Logged, lists)
<1> DEFINE k == Len(published)
<1>1. k \in Nat /\ DOMAIN published = 1..k /\ \A n \in 1..k : published[n] \in EventSet
  OBVIOUS
<1>2. published' \in Seq(EventSet) /\ DOMAIN published' = 1..(k + 1)
      /\ published'[k + 1] = event /\ \A n \in 1..k : published'[n] = published[n]
  BY DEF Broadcast
<1>3. \A n \in 1..k : Buckets(published[n]) \in SUBSET Channels
  BY <1>1, BucketsOK
<1>4. Logged \in Seq(SUBSET Channels) /\ Len(Logged) = k
      /\ \A n \in 1..k : Logged[n] = Buckets(published[n])
  BY <1>1, <1>3 DEF Logged
<1>5. Logged' = [n \in 1..(k + 1) |-> Buckets(published'[n])]
  BY <1>2 DEF Logged, Buckets
<1>6. Buckets(event) \in SUBSET Channels /\ ResortWide \in Buckets(event)
  BY BucketsOK
<1> DEFINE extended == Append(Logged, Buckets(event))
<1>7. extended = [n \in 1..(k + 1) |-> IF n = k + 1 THEN Buckets(event) ELSE Logged[n]]
  <2>1. DOMAIN extended = 1..(k + 1) /\ extended \in Seq(SUBSET Channels)
    BY <1>1, <1>4, <1>6
  <2>2. \A n \in 1..(k + 1) : extended[n] = IF n = k + 1 THEN Buckets(event) ELSE Logged[n]
    BY <1>1, <1>4, <1>6
  <2> HIDE DEF extended, k
  <2>3. extended = [n \in 1..(k + 1) |-> extended[n]]
    BY <2>1
  <2> QED BY <2>2, <2>3
<1>8. \A n \in 1..(k + 1) :
        Buckets(published'[n]) = IF n = k + 1 THEN Buckets(event) ELSE Logged[n]
  BY <1>1, <1>2, <1>4
<1>9. Logged' = extended
  BY <1>5, <1>7, <1>8
<1> QED BY <1>6, <1>9

\* What happens to the abstract state: an event is posted, the oldest unread
\* one is shown, or nothing.
LEMMA AbstractStep ==
  ASSUME FullInv, [Next]_vars
  PROVE  \/ /\ \E lists \in SUBSET Channels : /\ ResortWide \in lists
                                              /\ Logged' = Append(Logged, lists)
            /\ events' = events
         \/ /\ \E n \in DOMAIN Logged :
                 /\ n > Top
                 /\ events' = [l \in Channels |-> IF l \in Logged[n] THEN Prepend(n, events[l])
                                                                     ELSE events[l]]
            /\ Logged' = Logged
         \/ UNCHANGED <<Logged, events>>
<1>0. published \in Seq(EventSet)
  BY DEF FullInv, WireInv, WireTypes
<1>1. CASE HubNext /\ Routes
  <2>1. PICK event \in EventSet : Broadcast(event)
    BY <1>1, RouteBroadcasts
  <2>2. events' = events
    BY <1>1 DEF HubNext, Aside, store
  <2> QED BY <2>1, <2>2, <1>0, BroadcastPosts
<1>2. ASSUME NEW c \in BrowserStreams, OnMessage(c)
      PROVE  /\ \E n \in DOMAIN Logged :
                  /\ n > Top
                  /\ events' = [l \in Channels |-> IF l \in Logged[n] THEN Prepend(n, events[l])
                                                                      ELSE events[l]]
             /\ Logged' = Logged
  <2> DEFINE n == Head(wire[c])
  <2>1. n \in 1..Len(published) /\ n > Top
    BY <1>2, MessageKeeps
  <2>2. n \in DOMAIN Logged /\ Logged[n] = Buckets(published[n])
    BY <2>1, <1>0 DEF Logged
  <2>3. events' = [l \in Channels |-> IF l \in Buckets(published[n]) THEN Prepend(n, events[l])
                                                                    ELSE events[l]]
    BY <1>2 DEF OnMessage, IngestEvent
  <2>4. Logged' = Logged
    BY <1>2 DEF OnMessage, Logged, Buckets
  <2> HIDE DEF n
  <2>5. events' = [l \in Channels |-> IF l \in Logged[n] THEN Prepend(n, events[l]) ELSE events[l]]
    BY <2>2, <2>3
  <2> QED BY <2>1, <2>2, <2>4, <2>5
<1>3. ASSUME UNCHANGED <<published, events>> PROVE UNCHANGED <<Logged, events>>
  BY <1>3 DEF Logged, Buckets
<1>4. CASE HubNext /\ ~Routes
  BY <1>4, <1>3 DEF HubNext, Aside, store, AddClient, RefuseClient, RemoveClient, Drop
<1>5. CASE Mount \/ Unmount \/ TimerFires
  BY <1>5, <1>3 DEF Mount, Unmount, TimerFires, store
<1>6. ASSUME NEW c \in BrowserStreams, OnOpen(c) \/ OnError(c) PROVE UNCHANGED <<Logged, events>>
  BY <1>6, <1>3 DEF OnOpen, OnError, store, hubVars
<1>7. CASE \E z \in Zones : PulseEnds(z)
  BY <1>7, <1>3 DEF PulseEnds, store, hubVars
<1>8. CASE UNCHANGED vars
  BY <1>8, <1>3 DEF vars, store, hubVars
<1> QED BY <1>1, <1>2, <1>4, <1>5, <1>6, <1>7, <1>8 DEF Next, BrowserStep

\* The hub and the page together implement the abstract feed: an event is
\* shown at most once, in order, in all of its lists at once, and a list keeps
\* its newest MAX_EVENTS entries (eventBus.ts, use-broadcast.ts,
\* events-store.ts).
THEOREM FeedImplementsIslandFeed == Spec => AtMostOnceInOrder
<1>1. Init => Abstract!FeedInit
  <2> SUFFICES ASSUME Init PROVE Abstract!FeedInit
    OBVIOUS
  <2>1. published = <<>> /\ events = [ch \in Channels |-> <<>>]
    BY DEF Init, HubInit
  <2>2. [n \in DOMAIN published |-> Buckets(published[n])] = <<>>
    BY <2>1
  <2> QED BY <2>1, <2>2 DEF Abstract!FeedInit
<1>2. FullInv /\ [Next]_vars => [Abstract!Post \/ Abstract!Show]_(Abstract!feedVars)
  <2> SUFFICES ASSUME FullInv, [Next]_vars
               PROVE  Abstract!Post \/ Abstract!Show \/ UNCHANGED Abstract!feedVars
    BY DEF Abstract!feedVars
  <2> QED BY AbstractStep DEF Logged, Top, Prepend, Abstract!Post, Abstract!Show,
                              Abstract!Newest, Abstract!Pushed, Abstract!feedVars
<1>3. Init => FullInv
  BY WireInit
<1>4. FullInv /\ [Next]_vars => FullInv'
  BY FullStep
<1> QED BY <1>1, <1>2, <1>3, <1>4, PTL DEF Spec, AtMostOnceInOrder, Abstract!FeedSpec

-----------------------------------------------------------------------------
(* The zone panels of a tab.  The inductive invariant: the shape of the    *)
(* state, and for each kind of query what its data and the answer under    *)
(* way may be, given the mutations whose callbacks are still to run.       *)

Pages == Guests \cup {Admin, Nobody}
Args == Nat \cup Activities \cup Messages

\* The page, the requests under way and the shape of the cache's entries.
PageOK ==
  /\ who \in Pages
  /\ panel \in Panels \cup {"none"}
  /\ list \in BOOLEAN
  /\ who = Nobody => panel = "none"
  /\ list => panel = "beach"

Posted == [n : Nat \ {0}, op : AllOps, guest : Guests \cup {Admin}, arg : Args,
         phase : {"sent", "ok", "error"}, result : Args, shown : BOOLEAN]

PostsOK ==
  /\ sent \in Nat
  /\ posts \subseteq Posted
  /\ \A p \in posts : p.n <= sent
  /\ \A p, r \in posts : p.n = r.n => p = r
  /\ \A p \in posts : p.op \notin {"add", "remove"} => p.guest \in Guests

Entry(values, statuses) ==
  [data : values, status : statuses, flight : {"idle", "sent", "read", "failed"},
   answer : values, missed : BOOLEAN, crossed : BOOLEAN]
EntryOK(e) == e \in Entry({e.data, e.answer}, {e.status})

CacheOK ==
  /\ q = [k \in Keys |-> q[k]]
  /\ \A k \in Keys : EntryOK(q[k])

Shape == PageOK /\ PostsOK /\ CacheOK

\* Reservations.
Held(g, i) ==
  /\ i \in DOMAIN reservations
  /\ reservations[i].guest = g
Standing(i) ==
  \/ reservations[i].status = "confirmed"
  \/ \E p \in posts : p.op = "cancel" /\ p.phase = "ok" /\ p.arg = i

CardOK(g, e) ==
  /\ e.data # <<>> => \E i \in Nat : e.data = <<i>> /\ Held(g, i) /\ (Standing(i) \/ e.missed)
  /\ e.flight = "read" =>
       \E i \in Nat : e.answer = <<i>> /\ Held(g, i) /\ (Standing(i) \/ e.crossed)

CardInv ==
  /\ reservations \in Seq([guest : Guests, status : {"confirmed", "cancelled"}])
  /\ \A p \in posts : p.op = "cancel" => Held(p.guest, p.arg)
  /\ \A p \in posts : p.op = "reserve" /\ p.phase = "ok" => Held(p.guest, p.result)
  /\ \A g \in Guests : CardOK(g, q[ReservationKey(g)])

\* Beach and menu.
ScreenKeys == {k \in Keys : k[1] \in {"booked", "activities", "menu"}}

Awaited(k) == \E p \in posts : p.phase = "ok" /\ k \in Touches(p)

ScreenOK(k, e) ==
  /\ e.flight = "read" /\ ~e.crossed => e.answer = <<Truth(k)>> \/ Awaited(k)
  /\ Observed(k) /\ e.flight = "idle" /\ e.status = "success" /\ ~e.missed =>
       e.data = <<Truth(k)>> \/ Awaited(k)

ScreenInv ==
  /\ bookings = [g \in Guests |-> bookings[g]]
  /\ \A k \in ScreenKeys : ScreenOK(k, q[k])

\* Chat.
Turn == Nat \X (Args \cup {"masked"})
Threads == [from : Parrots \cup {Nobody}, since : Nat, turns : Seq(Turn)]
Chats(g) == {p \in posts : p.op = "chat" /\ p.guest = g}

FailedOK == failedTurn = <<>> \/ \E text \in Args : failedTurn = <<text>>

KeptOK(turns) ==
  /\ \A a \in DOMAIN turns : turns[a][1] <= sent /\ Mask(turns[a][2]) = turns[a][2]
  /\ \A a, b \in DOMAIN turns : turns[a][1] = turns[b][1] => a = b

TurnsInv ==
  /\ conversation \in [Parrots -> [Guests -> Seq(Turn)]]
  /\ \A i \in Parrots : \A g \in Guests : KeptOK(conversation[i][g])
  /\ \A p \in posts : p.op = "chat" =>
       \A i \in Parrots : \A a \in DOMAIN conversation[i][p.guest] :
         LET t == conversation[i][p.guest][a] IN
           t[1] = p.n => p.phase # "sent" /\ t[2] = Mask(p.arg)

HistoryOK(g, e) ==
  /\ e.status = "success" => e.data # <<>>
  /\ Chats(g) # {} => e.data # <<>>
  /\ e.data # <<>> => \E t \in Threads : e.data = <<t>> /\ (TrueTo(g, t) \/ e.missed)
  /\ e.flight = "read" => \E t \in Threads : e.answer = <<t>> /\ (TrueTo(g, t) \/ e.crossed)

ChatInv == \A g \in Guests : HistoryOK(g, q[HistoryKey(g)])

PanelsInv == Shape /\ FailedOK /\ CardInv /\ ScreenInv /\ TurnsInv /\ ChatInv

-----------------------------------------------------------------------------
(* The steps of the tab and of the services, by what they do to the cache, *)
(* to the requests under way and to what the services hold.                *)

core == <<reservations, offered, bookings, stock, conversation>>

\* A component mounts, unmounts or fetches again.
Looks ==
  /\ posts' = posts \/ \E ops \in SUBSET AllOps : posts' = Unseen(ops)
  /\ q' = [k \in Keys |-> q'[k]]
  /\ \A k \in Keys : q'[k] = q[k] \/ q'[k] = Begin(q[k])
  /\ \A k \in ScreenKeys : Observed(k)' => Observed(k) \/ q'[k].flight # "idle"
  /\ PageOK'
  /\ UNCHANGED <<sent, core>>

\* A fetch fails, or its answer arrives.
FetchEnds(k) ==
  /\ \/ q[k].flight = "sent" /\ q' = [q EXCEPT ![k].flight = "failed"]
     \/ q[k].flight \in {"read", "failed"} /\ q' = [q EXCEPT ![k] = Settled(@)]
  /\ UNCHANGED <<page, posts, sent, core>>

\* A fetch reads the service.
Reads(k, value) ==
  /\ q[k].flight = "sent"
  /\ q' = [q EXCEPT ![k].flight = IF value = <<>> THEN "failed" ELSE "read",
                    ![k].answer = value]
  /\ \A g \in Guests :
       k = ReservationKey(g) /\ value # <<>> => \E i \in Confirmed(g) : value = <<i>>
  /\ \A g \in Guests : k = HistoryKey(g) =>
       \E i \in Parrots : value = <<Thread(i, sent, conversation[i][g])>>
  /\ k \in ScreenKeys => value = <<Truth(k)>>
  /\ UNCHANGED <<page, posts, sent, core>>

\* A component sends a mutation.
Sends(op, g, arg) ==
  /\ posts' = posts \cup {[n |-> sent + 1, op |-> op, guest |-> g, arg |-> arg,
                           phase |-> "sent", result |-> arg, shown |-> TRUE]}
  /\ op \notin {"add", "remove"} => g \in Guests
  /\ op = "cancel" => q[ReservationKey(g)].data = <<arg>>
  /\ op = "chat" => q[HistoryKey(g)].data # <<>>
  /\ sent' = sent + 1
  /\ UNCHANGED <<q, page, core>>

\* A mutation fails, or its failure is shown.
Errs(p) ==
  /\ \/ p.phase = "sent" /\ \E r \in Args : Replied(p, "error", r)
     \/ p.phase = "error" /\ posts' = posts \ {p}
  /\ UNCHANGED <<q, page, sent, core>>

\* A mutation's answer is lost.
Loses(p) ==
  /\ p.phase = "ok"
  /\ Replied(p, "error", p.result)
  /\ q' = [k \in Keys |-> IF k \in Touches(p) THEN Overlooked(q[k]) ELSE q[k]]
  /\ UNCHANGED <<page, sent, core>>

\* A service executes a mutation.
Serves(p, result) ==
  /\ p.phase = "sent"
  /\ Replied(p, "ok", result)
  /\ bookings' = [g \in Guests |-> bookings'[g]]
  /\ \A k \in ScreenKeys \ Touches(p) : Truth(k)' = Truth(k)
  /\ \/ /\ p.op = "reserve"
        /\ result = Len(reservations) + 1
        /\ reservations' = Append(reservations, [guest |-> p.guest, status |-> "confirmed"])
     \/ /\ p.op = "cancel"
        /\ reservations' = [reservations EXCEPT ![p.arg].status = "cancelled"]
     \/ p.op \notin {"reserve", "cancel"} /\ UNCHANGED reservations
  /\ \/ /\ p.op = "chat"
        /\ \E i \in Parrots : conversation' = [conversation EXCEPT ![i][p.guest] =
                                                 Trim(Append(@, <<p.n, Mask(p.arg)>>))]
     \/ p.op # "chat" /\ UNCHANGED conversation
  /\ UNCHANGED <<q, page, sent>>

\* The beach removes an activity, and the bookings of it.
Drops(p) ==
  /\ p.op = "remove"
  /\ p.phase = "sent"
  /\ \E phase \in {"ok", "error"} :
       /\ Replied(p, phase, p.arg)
       /\ phase = "error" => Overview' = Overview
  /\ q' = [k \in Keys |-> IF k \in {BookedKey(g) : g \in Booked(p.arg)} THEN Overlooked(q[k])
                                                                      ELSE q[k]]
  /\ bookings' = [g \in Guests |-> bookings'[g]]
  /\ \A g \in Guests : bookings'[g] = bookings[g] \/ g \in Booked(p.arg)
  /\ UNCHANGED <<page, sent, reservations, stock, conversation>>

\* The callbacks of a mutation run.
Succeeds(p) ==
  /\ OnBoarded(p) \/ OnReserved(p) \/ OnCancelled(p) \/ OnBeachChanged(p) \/ OnOrdered(p) \/ OnReply(p)
  /\ UNCHANGED core

\* A parrot forgets a conversation.
Expires(g, i) ==
  /\ conversation' = [conversation EXCEPT ![i][g] = <<>>]
  /\ UNCHANGED <<q, page, posts, sent, reservations, offered, bookings, stock>>

OneStep ==
  \/ Looks
  \/ \E k \in Keys : FetchEnds(k) \/ \E value : Reads(k, value)
  \/ \E op \in AllOps : \E g \in Guests \cup {Admin} : \E arg \in Args : Sends(op, g, arg)
  \/ \E p \in posts : \/ Errs(p) \/ Loses(p) \/ Drops(p) \/ Succeeds(p)
                      \/ \E result \in Args : Serves(p, result)
  \/ \E g \in Guests : \E i \in Parrots : Expires(g, i)

\* The keys are different.
LEMMA KeyFacts ==
  /\ \A g \in Guests : /\ ArrivalKey(g) \in Keys /\ ReservationKey(g) \in Keys
                       /\ BookedKey(g) \in Keys /\ HistoryKey(g) \in Keys
                       /\ ArrivalKey(g) \notin ScreenKeys /\ ReservationKey(g) \notin ScreenKeys
                       /\ BookedKey(g) \in ScreenKeys /\ HistoryKey(g) \notin ScreenKeys
  /\ ActivitiesKey \in ScreenKeys /\ MenuKey \in ScreenKeys
  /\ ScreenKeys \subseteq Keys
  /\ \A g, h \in Guests : /\ ReservationKey(g) # ArrivalKey(h) /\ ReservationKey(g) # HistoryKey(h)
                          /\ HistoryKey(g) # ArrivalKey(h)
                          /\ ReservationKey(g) = ReservationKey(h) => g = h
                          /\ HistoryKey(g) = HistoryKey(h) => g = h
                          /\ BookedKey(g) = BookedKey(h) => g = h
  /\ \A k \in ScreenKeys : \/ \E g \in Guests : k = BookedKey(g)
                           \/ k = ActivitiesKey
                           \/ k = MenuKey
  /\ \A g \in Guests : BookedKey(g) \notin {ActivitiesKey, MenuKey}
  /\ ActivitiesKey # MenuKey
  BY DEF ArrivalKey, ReservationKey, BookedKey, HistoryKey, ActivitiesKey, MenuKey, Keys, ScreenKeys

\* What a mutation touches.
LEMMA TouchFacts ==
  ASSUME NEW p, p.op \in AllOps
  PROVE  /\ p.op = "board" => Touches(p) = {ArrivalKey(p.guest)}
         /\ p.op \in {"reserve", "cancel"} => Touches(p) = {ReservationKey(p.guest)}
         /\ p.op \in {"book", "unbook"} => Touches(p) = {ActivitiesKey, BookedKey(p.guest)}
         /\ p.op \in {"add", "remove"} => Touches(p) = {ActivitiesKey}
         /\ p.op = "order" => Touches(p) = {MenuKey}
         /\ p.op = "chat" => Touches(p) = {HistoryKey(p.guest)}
  BY DEF Touches, AllOps

\* What the services hold, and what is on screen, by key.
LEMMA TruthFacts ==
  /\ \A g \in Guests : Truth(BookedKey(g)) = bookings[g] /\ Truth(BookedKey(g))' = bookings'[g]
  /\ Truth(ActivitiesKey) = Overview /\ Truth(ActivitiesKey)' = Overview'
  /\ Truth(MenuKey) = Menu /\ Truth(MenuKey)' = Menu'
  BY DEF Truth, BookedKey, ActivitiesKey, MenuKey

\* Which part of the page observes which query.
LEMMA ObservedFacts ==
  /\ \A g \in Guests : Observed(BookedKey(g)) <=> list /\ g = who
  /\ Observed(ActivitiesKey) <=> list \/ (panel = "beach" /\ who = Admin)
  /\ Observed(MenuKey) <=> panel = "crab"
  BY DEF Observed, BookedKey, ActivitiesKey, MenuKey

\* The same after a step.
LEMMA ObservedNext ==
  /\ \A g \in Guests : Observed(BookedKey(g))' <=> list' /\ g = who'
  /\ Observed(ActivitiesKey)' <=> list' \/ (panel' = "beach" /\ who' = Admin)
  /\ Observed(MenuKey)' <=> panel' = "crab"
  BY DEF Observed, BookedKey, ActivitiesKey, MenuKey

\* A step that leaves the page alone changes no observer.
LEMMA PageKept ==
  ASSUME UNCHANGED page, PageOK
  PROVE  PageOK' /\ \A k \in ScreenKeys : Observed(k)' <=> Observed(k)
<1>1. who' = who /\ panel' = panel /\ list' = list
  BY DEF page
<1> QED
  BY <1>1, KeyFacts, ObservedFacts, ObservedNext DEF PageOK

\* Mounting the components of a page.
LEMMA MountFacts ==
  ASSUME CacheOK, NEW keys, q' = MountAll(keys)
  PROVE  /\ q' = [k \in Keys |-> q'[k]]
         /\ \A k \in Keys : q'[k] = q[k] \/ q'[k] = Begin(q[k])
         /\ \A k \in Keys : k \in keys => q'[k].flight # "idle"
<1>1. \A k \in Keys : q'[k] = IF k \in keys THEN Mounted(q[k]) ELSE q[k]
  BY DEF MountAll
<1>2. q' = [k \in Keys |-> q'[k]]
  BY DEF MountAll
<1>3. ASSUME NEW k \in Keys
      PROVE  /\ q'[k] = q[k] \/ q'[k] = Begin(q[k])
             /\ k \in keys => q'[k].flight # "idle"
  <2>1. EntryOK(q[k])
    BY DEF CacheOK
  <2>2. Begin(q[k]).flight = "sent"
    BY <2>1 DEF Begin, EntryOK
  <2> QED
    BY <1>1, <2>1, <2>2 DEF Mounted
<1> QED
  BY <1>2, <1>3

\* Fetching one query again.
LEMMA RefetchFacts ==
  ASSUME CacheOK, NEW key \in Keys, q' = [q EXCEPT ![key] = Begin(@)]
  PROVE  /\ q' = [k \in Keys |-> q'[k]]
         /\ \A k \in Keys : q'[k] = q[k] \/ q'[k] = Begin(q[k])
  BY DEF CacheOK

\* The page's steps.
LEMMA PageSteps ==
  ASSUME PanelsInv, PageStep PROVE Looks
<1> USE DEF PanelsInv, Shape
<1>1. UNCHANGED core
  BY DEF PageStep, services, beachVars, core
<1>2. CASE \E w \in Guests \cup {Admin} : EnterMap(w)
  <2>1. PICK w \in Guests \cup {Admin} : EnterMap(w)
    BY <1>2
  <2>2. /\ who = Nobody /\ panel = "none" /\ ~list
        /\ who' = w /\ panel' = panel /\ list' = list /\ posts' = posts /\ sent' = sent
    BY <2>1 DEF EnterMap, PageOK
  <2>3. PageOK'
    BY <2>2, PanelsAssumption DEF PageOK, Pages
  <2>4. \A k \in ScreenKeys : ~Observed(k)'
    BY <2>2, KeyFacts, ObservedNext
  <2> QED
    BY <1>1, <2>1, <2>2, <2>3, <2>4, MountFacts DEF EnterMap, Looks
<1>3. CASE \E z \in Panels : OpenPanel(z)
  <2>1. PICK z \in Panels : OpenPanel(z)
    BY <1>3
  <2>2. /\ who # Nobody /\ panel = "none" /\ ~list
        /\ who' = who /\ panel' = z /\ list' = list /\ posts' = posts /\ sent' = sent
        /\ q' = MountAll(PanelKeys(z))
    BY <2>1 DEF OpenPanel, PageOK
  <2>3. PageOK'
    BY <2>2 DEF PageOK
  <2>4. ASSUME NEW k \in ScreenKeys, Observed(k)' PROVE k \in PanelKeys(z) /\ k \in Keys
    <3>1. ~list'
      BY <2>2
    <3>2. \/ k = MenuKey /\ z = "crab"
          \/ k = ActivitiesKey /\ z = "beach" /\ who = Admin
      BY <2>2, <2>4, <3>1, KeyFacts, ObservedNext
    <3> QED
      BY <3>2, KeyFacts DEF PanelKeys, MenuKey, ActivitiesKey
  <2> QED
    BY <1>1, <2>2, <2>3, <2>4, MountFacts DEF Looks
<1>4. CASE SwitchSession(AllOps) \/ ClosePanel(AllOps)
  <2>1. /\ panel' = "none" /\ list' = FALSE /\ q' = q /\ sent' = sent
        /\ posts' = Unseen(AllOps)
        /\ who' = who \/ who' = Nobody
    BY <1>4 DEF SwitchSession, ClosePanel, counters
  <2>2. PageOK'
    BY <2>1 DEF PageOK, Pages
  <2>3. \A k \in ScreenKeys : ~Observed(k)'
    BY <2>1, KeyFacts, ObservedNext
  <2> QED
    BY <1>1, <2>1, <2>2, <2>3 DEF Looks, CacheOK
<1> QED
  BY <1>2, <1>3, <1>4 DEF PageStep

\* The steps of the network.
LEMMA NetworkSteps ==
  ASSUME PanelsInv, NetworkStep PROVE OneStep
<1> USE DEF PanelsInv, Shape
<1>1. UNCHANGED core
  BY DEF NetworkStep, services, beachVars, core
<1>2. ASSUME NEW k \in Keys, Refetch(k) PROVE OneStep
  <2>1. Looks
    BY <1>1, <1>2, RefetchFacts, PageKept DEF Refetch, Looks
  <2> QED
    BY <2>1 DEF OneStep
<1>3. ASSUME NEW k \in Keys, FetchFails(k) \/ Settle(k) PROVE OneStep
  <2>1. FetchEnds(k)
    BY <1>1, <1>3 DEF FetchFails, Settle, FetchEnds, counters
  <2> QED
    BY <2>1 DEF OneStep
<1>4. ASSUME NEW p \in posts, PostFails(p) PROVE OneStep
  <2>1. p.result \in Args
    BY DEF PostsOK, Posted
  <2>2. Errs(p)
    BY <1>1, <1>4, <2>1 DEF PostFails, Errs
  <2> QED
    BY <2>2 DEF OneStep
<1>5. ASSUME NEW p \in posts, AnswerLost(p, Touches(p)) PROVE OneStep
  <2>1. Loses(p)
    BY <1>1, <1>5 DEF AnswerLost, Loses
  <2> QED
    BY <2>1 DEF OneStep
<1>6. ASSUME NEW p \in posts, OnMutationError(p) PROVE OneStep
  <2>1. Errs(p)
    BY <1>1, <1>6 DEF OnMutationError, Errs, counters
  <2> QED
    BY <2>1 DEF OneStep
<1> QED
  BY <1>2, <1>3, <1>4, <1>5, <1>6 DEF NetworkStep

\* The airport's steps.
LEMMA AirportSteps ==
  ASSUME PanelsInv, AirportStep,
         UNCHANGED <<reservations, beachVars, stock, conversation, failedTurn>>
  PROVE  OneStep
<1> USE DEF PanelsInv, Shape
<1>1. UNCHANGED core
  BY DEF beachVars, core
<1>2. CASE Board
  <2>1. who \in Guests /\ 0 \in Args /\ "board" \in AllOps
    BY <1>2 DEF Board, Args, AllOps
  <2>2. Sends("board", who, 0)
    BY <1>1, <1>2, <2>1 DEF Board, Mutate, Sends
  <2> QED
    BY <2>1, <2>2 DEF OneStep
<1>3. ASSUME NEW p \in posts, OnBoarded(p) PROVE OneStep
  <2>1. Succeeds(p)
    BY <1>1, <1>3 DEF Succeeds
  <2> QED
    BY <2>1 DEF OneStep
<1>4. ASSUME NEW p \in posts, PostArrival(p) PROVE OneStep
  <2>1. p.result \in Args
    BY DEF PostsOK, Posted
  <2>2. bookings' = [g \in Guests |-> bookings'[g]]
    BY <1>1 DEF ScreenInv, core
  <2>3. \A k \in ScreenKeys : Truth(k)' = Truth(k)
    BY <1>1 DEF core, Truth, Overview, Booked, Menu
  <2>4. Serves(p, p.result)
    BY <1>1, <1>4, <2>2, <2>3 DEF PostArrival, Serves, counters, core
  <2> QED
    BY <2>1, <2>4 DEF OneStep
<1>5. ASSUME NEW g \in Guests, PollArrival(g) PROVE OneStep
  <2>1. Looks
    BY <1>1, <1>5, RefetchFacts, KeyFacts, PageKept DEF PollArrival, Looks, counters
  <2> QED
    BY <2>1 DEF OneStep
<1>6. ASSUME NEW g \in Guests, GetArrival(g) PROVE OneStep
  <2>1. PICK value : Answer(ArrivalKey(g), value)
    BY <1>6 DEF GetArrival
  <2>2. ArrivalKey(g) \in Keys /\ Reads(ArrivalKey(g), value)
    BY <1>1, <2>1, KeyFacts DEF Answer, Reads, counters
  <2> QED
    BY <2>2 DEF OneStep
<1>7. ASSUME NEW g \in Guests, Process(g) PROVE OneStep
  <2>1. Looks
    BY <1>1, <1>7, PageKept DEF Process, appVars, counters, Looks, CacheOK
  <2> QED
    BY <2>1 DEF OneStep
<1> QED
  BY <1>2, <1>3, <1>4, <1>5, <1>6, <1>7 DEF AirportStep

\* The hotel's steps.
LEMMA HotelSteps ==
  ASSUME PanelsInv, HotelStep,
         UNCHANGED <<arrivals, beachVars, stock, conversation, failedTurn>>
  PROVE  OneStep
<1> USE DEF PanelsInv, Shape
<1>1. UNCHANGED <<offered, bookings, stock, conversation>>
  BY DEF beachVars
<1>2. /\ bookings' = [g \in Guests |-> bookings'[g]]
      /\ \A k \in ScreenKeys : Truth(k)' = Truth(k)
  BY <1>1 DEF ScreenInv, Truth, Overview, Booked, Menu
<1>3. CASE SubmitReservation
  <2>1. who \in Guests /\ 0 \in Args /\ "reserve" \in AllOps
    BY <1>3 DEF SubmitReservation, ShowsHotel, Landed, Args, AllOps
  <2>2. Sends("reserve", who, 0)
    BY <1>1, <1>3, <2>1 DEF SubmitReservation, Mutate, Sends, core
  <2> QED
    BY <2>1, <2>2 DEF OneStep
<1>4. CASE CancelReservation
  <2>1. who \in Guests /\ "cancel" \in AllOps /\ q[ReservationKey(who)].data # <<>>
    BY <1>4 DEF CancelReservation, ShowsHotel, Landed, AllOps, Reservation
  <2>2. CardOK(who, q[ReservationKey(who)])
    BY <2>1 DEF CardInv
  <2>3. PICK i \in Nat : q[ReservationKey(who)].data = <<i>>
    BY <2>1, <2>2 DEF CardOK
  <2>4. i \in Args /\ Reservation(who)[1] = i
    BY <2>3 DEF Args, Reservation
  <2>5. Sends("cancel", who, i)
    BY <1>1, <1>4, <2>1, <2>3, <2>4 DEF CancelReservation, Mutate, Sends, core
  <2> QED
    BY <2>1, <2>4, <2>5 DEF OneStep
<1>5. ASSUME NEW p \in posts, OnReserved(p) \/ OnCancelled(p) PROVE OneStep
  <2>1. Succeeds(p)
    BY <1>1, <1>5 DEF OnReserved, OnCancelled, Succeeds, core
  <2> QED
    BY <2>1 DEF OneStep
<1>6. ASSUME NEW p \in posts, PostReservation(p) PROVE OneStep
  <2>1. Len(reservations) + 1 \in Args /\ 0 \in Args
    BY DEF CardInv, Args
  <2>2. CASE /\ reservations' = Append(reservations, [guest |-> p.guest, status |-> "confirmed"])
             /\ Replied(p, "ok", Len(reservations) + 1)
    <3>1. Serves(p, Len(reservations) + 1)
      BY <1>1, <1>2, <1>6, <2>2 DEF PostReservation, Serves, counters
    <3> QED
      BY <2>1, <3>1 DEF OneStep
  <2>3. CASE Replied(p, "error", 0) /\ UNCHANGED reservations
    <3>1. Errs(p)
      BY <1>1, <1>6, <2>1, <2>3 DEF PostReservation, Errs, counters, core
    <3> QED
      BY <3>1 DEF OneStep
  <2> QED
    BY <1>6, <2>2, <2>3 DEF PostReservation
<1>7. ASSUME NEW p \in posts, DeleteReservation(p) PROVE OneStep
  <2>1. p.arg \in Args
    BY DEF PostsOK, Posted
  <2>2. Serves(p, p.arg)
    BY <1>1, <1>2, <1>7 DEF DeleteReservation, Serves, counters
  <2> QED
    BY <2>1, <2>2 DEF OneStep
<1>8. ASSUME NEW g \in Guests, GetReservation(g) PROVE OneStep
  <2>1. UNCHANGED core
    BY <1>1, <1>8 DEF GetReservation, core
  <2>2. PICK value : /\ Answer(ReservationKey(g), value)
                     /\ value # <<>> => \E i \in Confirmed(g) : value = <<i>>
    BY <1>8 DEF GetReservation
  <2>3. ReservationKey(g) \in Keys /\ Reads(ReservationKey(g), value)
    BY <2>1, <2>2, KeyFacts DEF Answer, Reads, counters
  <2> QED
    BY <2>3 DEF OneStep
<1> QED
  BY <1>3, <1>4, <1>5, <1>6, <1>7, <1>8 DEF HotelStep

\* The restaurant's steps.
LEMMA CrabSteps ==
  ASSUME PanelsInv, CrabStep,
         UNCHANGED <<arrivals, reservations, beachVars, conversation, failedTurn>>
  PROVE  OneStep
<1> USE DEF PanelsInv, Shape
<1>1. UNCHANGED <<reservations, offered, bookings, conversation>>
  BY DEF beachVars
<1>2. CASE Order
  <2>1. who \in Guests /\ 0 \in Args /\ "order" \in AllOps
    BY <1>2 DEF Order, Landed, Args, AllOps
  <2>2. Sends("order", who, 0)
    BY <1>1, <1>2, <2>1 DEF Order, Mutate, Sends, core
  <2> QED
    BY <2>1, <2>2 DEF OneStep
<1>3. ASSUME NEW p \in posts, OnOrdered(p) PROVE OneStep
  <2>1. Succeeds(p)
    BY <1>1, <1>3 DEF OnOrdered, Succeeds, core
  <2> QED
    BY <2>1 DEF OneStep
<1>4. ASSUME NEW p \in posts, PostOrder(p) PROVE OneStep
  <2>1. 0 \in Args
    BY DEF Args
  <2>2. CASE stock = 0
    <3>1. Errs(p)
      BY <1>1, <1>4, <2>1, <2>2 DEF PostOrder, Errs, counters, core
    <3> QED
      BY <3>1 DEF OneStep
  <2>3. CASE stock # 0
    <3>1. bookings' = [g \in Guests |-> bookings'[g]]
      BY <1>1 DEF ScreenInv
    <3>2. p.op = "order" /\ Touches(p) = {MenuKey}
      BY <1>4, TouchFacts DEF PostOrder, AllOps
    <3>3. \A k \in ScreenKeys \ Touches(p) : Truth(k)' = Truth(k)
      <4>1. \A k \in ScreenKeys \ Touches(p) : k[1] \in {"booked", "activities"}
        BY <3>2 DEF ScreenKeys, Keys, MenuKey
      <4> QED
        BY <1>1, <4>1 DEF Truth, Overview, Booked
    <3>4. Serves(p, 0)
      BY <1>1, <1>4, <2>3, <3>1, <3>2, <3>3 DEF PostOrder, Serves, counters
    <3> QED
      BY <2>1, <3>4 DEF OneStep
  <2> QED
    BY <2>2, <2>3
<1>5. CASE GetMenu
  <2>1. MenuKey \in Keys /\ Reads(MenuKey, <<Menu>>)
    BY <1>1, <1>5, KeyFacts, TruthFacts DEF GetMenu, Answer, Reads, counters, core,
       ReservationKey, HistoryKey, MenuKey
  <2> QED
    BY <2>1 DEF OneStep
<1> QED
  BY <1>2, <1>3, <1>4, <1>5 DEF CrabStep

\* The parrot's steps.
LEMMA ParrotSteps ==
  ASSUME PanelsInv, ParrotStep,
         UNCHANGED <<arrivals, reservations, beachVars, stock>>
  PROVE  OneStep
<1> USE DEF PanelsInv, Shape
<1>1. UNCHANGED <<reservations, offered, bookings, stock>>
  BY DEF beachVars
<1>2. /\ bookings' = [g \in Guests |-> bookings'[g]]
      /\ \A k \in ScreenKeys : Truth(k)' = Truth(k)
  BY <1>1 DEF ScreenInv, Truth, Overview, Booked, Menu
<1>3. CASE SendMessage \/ RetryFailedMessage
  <2>1. who \in Guests /\ "chat" \in AllOps
    BY <1>3 DEF SendMessage, RetryFailedMessage, Landed, AllOps
  <2>2. q[HistoryKey(who)].data # <<>>
    BY <1>3, <2>1 DEF SendMessage, RetryFailedMessage, History, ChatInv, HistoryOK
  <2>3. PICK text \in Args : Mutate("chat", who, text)
    BY <1>3 DEF SendMessage, RetryFailedMessage, FailedOK, Args
  <2>4. Sends("chat", who, text)
    BY <1>1, <1>3, <2>1, <2>2, <2>3 DEF SendMessage, RetryFailedMessage, Mutate, Sends, core
  <2> QED
    BY <2>1, <2>4 DEF OneStep
<1>4. ASSUME NEW p \in posts, OnReply(p) PROVE OneStep
  <2>1. Succeeds(p)
    BY <1>1, <1>4 DEF OnReply, Succeeds, core
  <2> QED
    BY <2>1 DEF OneStep
<1>5. ASSUME NEW p \in posts, OnChatError(p) PROVE OneStep
  <2>1. Errs(p)
    BY <1>1, <1>5 DEF OnChatError, OnMutationError, Errs, counters, core
  <2> QED
    BY <2>1 DEF OneStep
<1>6. ASSUME NEW p \in posts, NEW i \in Parrots, PostChat(p, i) PROVE OneStep
  <2>1. p.arg \in Args
    BY DEF PostsOK, Posted
  <2>2. CASE /\ conversation' = [conversation EXCEPT ![i][p.guest] =
                                    Trim(Append(@, <<p.n, Mask(p.arg)>>))]
             /\ Replied(p, "ok", p.arg)
    <3>1. Serves(p, p.arg)
      BY <1>1, <1>2, <1>6, <2>2 DEF PostChat, Serves, counters
    <3> QED
      BY <2>1, <3>1 DEF OneStep
  <2>3. CASE Replied(p, "error", p.arg) /\ UNCHANGED conversation
    <3>1. Errs(p)
      BY <1>1, <1>6, <2>1, <2>3 DEF PostChat, Errs, counters, core
    <3> QED
      BY <3>1 DEF OneStep
  <2> QED
    BY <1>6, <2>2, <2>3 DEF PostChat
<1>7. ASSUME NEW g \in Guests, NEW i \in Parrots, GetHistory(g, i) PROVE OneStep
  <2> DEFINE value == <<Thread(i, sent, conversation[i][g])>>
  <2>1. UNCHANGED core /\ Answer(HistoryKey(g), value)
    BY <1>1, <1>7 DEF GetHistory, core
  <2>2. HistoryKey(g) \in Keys /\ \A h \in Guests : HistoryKey(g) = HistoryKey(h) => g = h
    BY KeyFacts
  <2>3. Reads(HistoryKey(g), value)
    BY <2>1, <2>2, KeyFacts DEF Answer, Reads, counters
  <2> QED
    BY <2>2, <2>3 DEF OneStep
<1>8. ASSUME NEW g \in Guests, NEW i \in Parrots, Expire(g, i) PROVE OneStep
  <2>1. Expires(g, i)
    BY <1>1, <1>8 DEF Expire, Expires
  <2> QED
    BY <2>1 DEF OneStep
<1> QED
  BY <1>3, <1>4, <1>5, <1>6, <1>7, <1>8 DEF ParrotStep, Pick

\* The beach's steps.
LEMMA BeachSteps ==
  ASSUME PanelsInv, BeachStep,
         UNCHANGED <<arrivals, reservations, stock, conversation, failedTurn>>
  PROVE  OneStep
<1> USE DEF PanelsInv, Shape
<1>1. \A p \in posts : p.arg \in Args /\ p.op \in AllOps
  BY DEF PostsOK, Posted
<1>2. bookings = [g \in Guests |-> bookings[g]]
  BY DEF ScreenInv
<1>3. CASE ShowList
  <2>1. /\ panel = "beach" /\ who \in Guests /\ panel' = panel /\ who' = who /\ list' = TRUE
        /\ q' = MountAll({BookedKey(who), ActivitiesKey})
        /\ UNCHANGED <<posts, sent, core>>
    BY <1>3 DEF ShowList, GatesOpen, Landed, counters, beachVars, core
  <2>2. PageOK'
    BY <2>1 DEF PageOK
  <2>3. ASSUME NEW k \in ScreenKeys, Observed(k)'
        PROVE  k \in {BookedKey(who), ActivitiesKey} /\ k \in Keys
    BY <2>1, <2>3, KeyFacts, ObservedNext
  <2>4. Looks
    BY <2>1, <2>2, <2>3, MountFacts DEF Looks
  <2> QED
    BY <2>4 DEF OneStep
<1>4. CASE HideList
  <2>1. /\ panel' = panel /\ who' = who /\ list' = FALSE /\ q' = q
        /\ posts' = Unseen({"book", "unbook"}) /\ {"book", "unbook"} \in SUBSET AllOps
        /\ UNCHANGED <<sent, core>>
    BY <1>4 DEF HideList, counters, beachVars, core, AllOps
  <2>2. PageOK'
    BY <2>1 DEF PageOK
  <2>3. \A k \in ScreenKeys : Observed(k)' => Observed(k)
    BY <2>1, KeyFacts, ObservedFacts, ObservedNext
  <2>4. Looks
    BY <2>1, <2>2, <2>3 DEF Looks, CacheOK
  <2> QED
    BY <2>4 DEF OneStep
<1>5. ASSUME NEW a \in Activities, Book(a) \/ CancelActivity(a) PROVE OneStep
  <2>1. who \in Guests /\ a \in Args /\ {"book", "unbook"} \subseteq AllOps /\ UNCHANGED core
    BY <1>5 DEF Book, CancelActivity, ShowsList, GatesOpen, Landed, Args, AllOps, beachVars, core
  <2>2. Sends("book", who, a) \/ Sends("unbook", who, a)
    BY <1>5, <2>1 DEF Book, CancelActivity, Mutate, Sends
  <2> QED
    BY <2>1, <2>2 DEF OneStep
<1>6. ASSUME NEW a \in Activities, AddActivity(a) \/ RemoveActivity(a) PROVE OneStep
  <2>1. a \in Args /\ {"add", "remove"} \subseteq AllOps /\ UNCHANGED core
    BY <1>6 DEF AddActivity, RemoveActivity, Args, AllOps, beachVars, core
  <2>2. Sends("add", Admin, a) \/ Sends("remove", Admin, a)
    BY <1>6, <2>1 DEF AddActivity, RemoveActivity, Mutate, Sends
  <2> QED
    BY <2>1, <2>2 DEF OneStep
<1>7. ASSUME NEW p \in posts, OnBeachChanged(p) PROVE OneStep
  <2>1. Succeeds(p)
    BY <1>7 DEF OnBeachChanged, Succeeds, beachVars, core
  <2> QED
    BY <2>1 DEF OneStep
<1>8. ASSUME NEW p \in posts, BookActivity(p) PROVE OneStep
  <2> DEFINE accepted == /\ p.arg \in offered /\ p.guest \in visitors
                         /\ bookings[p.guest] = <<>>
                         /\ Cardinality(Booked(p.arg)) < Capacity
  <2>1. /\ p.op = "book" /\ p.phase = "sent" /\ UNCHANGED <<q, page, sent, offered>>
        /\ Replied(p, IF accepted THEN "ok" ELSE "error", p.arg)
        /\ bookings' = IF accepted THEN [bookings EXCEPT ![p.guest] = <<p.arg>>] ELSE bookings
    BY <1>8 DEF BookActivity, Execute, counters
  <2> HIDE DEF accepted
  <2>2. CASE ~accepted
    <3>1. Errs(p)
      BY <1>1, <2>1, <2>2 DEF Errs, core
    <3> QED
      BY <3>1 DEF OneStep
  <2>3. CASE accepted
    <3>1. Touches(p) = {ActivitiesKey, BookedKey(p.guest)}
      BY <1>1, <2>1, TouchFacts
    <3>2. bookings' = [g \in Guests |-> bookings'[g]]
      BY <1>2, <2>1, <2>3
    <3>3. \A g \in Guests : g # p.guest => bookings'[g] = bookings[g]
      BY <1>2, <2>1, <2>3
    <3>4. ASSUME NEW k \in ScreenKeys \ Touches(p) PROVE Truth(k)' = Truth(k)
      <4>1. \/ k[1] = "booked" /\ k[2] \in Guests /\ k[2] # p.guest
            \/ k[1] = "menu"
        BY <3>1 DEF ScreenKeys, Keys, ActivitiesKey, BookedKey
      <4> QED
        BY <3>3, <4>1 DEF Truth, Menu
    <3>5. Serves(p, p.arg)
      BY <2>1, <2>3, <3>2, <3>4 DEF Serves
    <3> QED
      BY <1>1, <3>5 DEF OneStep
  <2> QED
    BY <2>2, <2>3
<1>9. ASSUME NEW p \in posts, UnbookActivity(p) PROVE OneStep
  <2>1. /\ p.op = "unbook" /\ p.phase = "sent" /\ UNCHANGED <<q, page, sent, offered>>
        /\ Replied(p, IF bookings[p.guest] = <<p.arg>> THEN "ok" ELSE "error", p.arg)
        /\ bookings' = IF bookings[p.guest] = <<p.arg>> THEN [bookings EXCEPT ![p.guest] = <<>>]
                                                        ELSE bookings
    BY <1>9 DEF UnbookActivity, Execute, counters
  <2>2. CASE bookings[p.guest] # <<p.arg>>
    <3>1. Errs(p)
      BY <1>1, <2>1, <2>2 DEF Errs, core
    <3> QED
      BY <3>1 DEF OneStep
  <2>3. CASE bookings[p.guest] = <<p.arg>>
    <3>1. Touches(p) = {ActivitiesKey, BookedKey(p.guest)}
      BY <1>1, <2>1, TouchFacts
    <3>2. bookings' = [g \in Guests |-> bookings'[g]]
      BY <1>2, <2>1, <2>3
    <3>3. \A g \in Guests : g # p.guest => bookings'[g] = bookings[g]
      BY <1>2, <2>1, <2>3
    <3>4. ASSUME NEW k \in ScreenKeys \ Touches(p) PROVE Truth(k)' = Truth(k)
      <4>1. \/ k[1] = "booked" /\ k[2] \in Guests /\ k[2] # p.guest
            \/ k[1] = "menu"
        BY <3>1 DEF ScreenKeys, Keys, ActivitiesKey, BookedKey
      <4> QED
        BY <3>3, <4>1 DEF Truth, Menu
    <3>5. Serves(p, p.arg)
      BY <2>1, <2>3, <3>2, <3>4 DEF Serves
    <3> QED
      BY <1>1, <3>5 DEF OneStep
  <2> QED
    BY <2>2, <2>3
<1>10. ASSUME NEW p \in posts, CreateActivity(p) PROVE OneStep
  <2>1. /\ p.op = "add" /\ p.phase = "sent" /\ UNCHANGED <<q, page, sent, bookings>>
        /\ Replied(p, IF p.arg \notin offered THEN "ok" ELSE "error", p.arg)
        /\ offered' = offered \cup {p.arg}
    BY <1>10 DEF CreateActivity, Execute, counters
  <2>2. CASE p.arg \in offered
    <3>1. offered' = offered
      BY <2>1, <2>2
    <3>2. Errs(p)
      BY <1>1, <2>1, <2>2, <3>1 DEF Errs, core
    <3> QED
      BY <3>2 DEF OneStep
  <2>3. CASE p.arg \notin offered
    <3>1. Touches(p) = {ActivitiesKey}
      BY <1>1, <2>1, TouchFacts
    <3>2. \A k \in ScreenKeys \ Touches(p) : k[1] \in {"booked", "menu"}
      BY <3>1 DEF ScreenKeys, Keys, ActivitiesKey
    <3>3. \A k \in ScreenKeys \ Touches(p) : Truth(k)' = Truth(k)
      BY <2>1, <3>2 DEF Truth, Menu
    <3>4. Serves(p, p.arg)
      BY <1>2, <2>1, <2>3, <3>3 DEF Serves
    <3> QED
      BY <1>1, <3>4 DEF OneStep
  <2> QED
    BY <2>2, <2>3
<1>11. ASSUME NEW p \in posts, DropActivity(p) PROVE OneStep
  <2>1. /\ p.op = "remove" /\ p.phase = "sent" /\ UNCHANGED <<page, sent>>
        /\ Replied(p, IF p.arg \in offered THEN "ok" ELSE "error", p.arg)
        /\ offered' = offered \ {p.arg}
        /\ bookings' = [g \in Guests |-> IF bookings[g] = <<p.arg>> THEN <<>> ELSE bookings[g]]
        /\ q' = [k \in Keys |-> IF k \in {BookedKey(g) : g \in Booked(p.arg)} THEN Overlooked(q[k])
                                                                      ELSE q[k]]
    BY <1>11 DEF DropActivity, Execute, counters
  <2>2. /\ bookings' = [g \in Guests |-> bookings'[g]]
        /\ \A g \in Guests : bookings'[g] = bookings[g] \/ g \in Booked(p.arg)
    BY <2>1 DEF Booked
  <2>3. ASSUME p.arg \notin offered PROVE Overview' = Overview
    <3>1. offered' = offered
      BY <2>1, <2>3
    <3>2. ASSUME NEW a \in offered PROVE Booked(a)' = Booked(a)
      <4>1. <<a>> # <<p.arg>> /\ <<>> # <<a>>
        BY <2>3
      <4> QED
        BY <2>1, <4>1 DEF Booked
    <3>3. \A a \in offered : Cardinality(Booked(a))' = Cardinality(Booked(a))
      BY <3>2
    <3> QED
      BY <3>1, <3>3 DEF Overview
  <2>4. Drops(p)
    BY <2>1, <2>2, <2>3 DEF Drops
  <2> QED
    BY <2>4 DEF OneStep
<1>12. ASSUME NEW g \in Guests, CheckIn(g) PROVE OneStep
  <2>1. Looks
    BY <1>12, PageKept DEF CheckIn, appVars, counters, Looks, CacheOK, core
  <2> QED
    BY <2>1 DEF OneStep
<1>13. ASSUME NEW g \in Guests, GetBooked(g) PROVE OneStep
  <2>1. BookedKey(g) \in Keys /\ Reads(BookedKey(g), <<bookings[g]>>)
    BY <1>13, KeyFacts, TruthFacts DEF GetBooked, Answer, Reads, counters, core, beachVars,
       ReservationKey, HistoryKey, BookedKey
  <2> QED
    BY <2>1 DEF OneStep
<1>14. CASE GetActivities
  <2>1. ActivitiesKey \in Keys /\ Reads(ActivitiesKey, <<Overview>>)
    BY <1>14, KeyFacts, TruthFacts DEF GetActivities, Answer, Reads, counters, core, beachVars,
       ReservationKey, HistoryKey, ActivitiesKey
  <2> QED
    BY <2>1 DEF OneStep
<1> QED
  BY <1>3, <1>4, <1>5, <1>6, <1>7, <1>8, <1>9, <1>10, <1>11, <1>12, <1>13, <1>14 DEF BeachStep

\* Every step is one of these, or changes none of this.
LEMMA EveryStep ==
  ASSUME PanelsInv, PanelsNext PROVE OneStep
<1>1. CASE PageStep
  BY <1>1, PageSteps DEF OneStep
<1> QED
  BY <1>1, NetworkSteps, AirportSteps, HotelSteps, BeachSteps, CrabSteps, ParrotSteps DEF PanelsNext

-----------------------------------------------------------------------------
(* The shape of the state is kept.                                         *)

\* What the cache makes of an entry.
LEMMA InEntry ==
  ASSUME NEW values, NEW statuses, NEW e \in Entry(values, statuses) PROVE EntryOK(e)
  BY DEF Entry, EntryOK

\* What the operations of the cache do to an entry.
LEMMA EntryOps ==
  ASSUME NEW e, EntryOK(e)
  PROVE  /\ EntryOK(Begin(e)) /\ Begin(e).data = e.data /\ Begin(e).flight = "sent"
         /\ Begin(e).missed = e.missed /\ (Begin(e).status = "success" => e.status = "success")
         /\ EntryOK(Overlooked(e)) /\ Overlooked(e).data = e.data
         /\ Overlooked(e).flight = e.flight /\ Overlooked(e).answer = e.answer
         /\ Overlooked(e).status = e.status
         /\ Overlooked(e).missed /\ (e.flight = "read" => Overlooked(e).crossed)
         /\ EntryOK(Settled(e))
         /\ e.flight = "read" => /\ Settled(e).data = e.answer /\ Settled(e).missed = e.crossed
                                 /\ Settled(e).flight = "idle" /\ Settled(e).status = "success"
         /\ e.flight # "read" => /\ Settled(e).data = e.data /\ Settled(e).missed = e.missed
                                 /\ Settled(e).flight = "idle" /\ Settled(e).status = "error"
<1>1. /\ Begin(e) \in Entry({e.data, e.answer, <<>>}, {e.status, "pending"})
      /\ Begin(e).data = e.data /\ Begin(e).flight = "sent"
      /\ Begin(e).missed = e.missed /\ (Begin(e).status = "success" => e.status = "success")
  BY DEF Entry, EntryOK, Begin
<1>2. /\ EntryOK(Overlooked(e)) /\ Overlooked(e).data = e.data
      /\ Overlooked(e).flight = e.flight /\ Overlooked(e).answer = e.answer
      /\ Overlooked(e).status = e.status
      /\ Overlooked(e).missed /\ (e.flight = "read" => Overlooked(e).crossed)
  <2>1. (e.flight = "read") \in BOOLEAN
    OBVIOUS
  <2>2. \A c \in BOOLEAN :
          LET s == [e EXCEPT !.missed = TRUE, !.crossed = c]
          IN  /\ s \in Entry({e.data, e.answer}, {e.status})
              /\ s.data = e.data /\ s.status = e.status /\ s.flight = e.flight
              /\ s.answer = e.answer /\ s.missed = TRUE /\ s.crossed = c
    BY DEF Entry, EntryOK
  <2> QED
    BY <2>1, <2>2, InEntry DEF Overlooked
<1>3. e.flight = "read" => /\ Settled(e).data = e.answer /\ Settled(e).missed = e.crossed
                           /\ Settled(e).flight = "idle" /\ Settled(e).status = "success"
                           /\ Settled(e) \in Entry({e.data, e.answer, <<>>}, {"success"})
  BY DEF Entry, EntryOK, Settled, Fresh
<1>4. e.flight # "read" => /\ Settled(e).data = e.data /\ Settled(e).missed = e.missed
                           /\ Settled(e).flight = "idle" /\ Settled(e).status = "error"
                           /\ Settled(e) \in Entry({e.data, e.answer}, {"error"})
  BY DEF Entry, EntryOK, Settled
<1>5. EntryOK(Begin(e)) /\ EntryOK(Settled(e))
  BY <1>1, <1>3, <1>4, InEntry
<1> QED
  BY <1>1, <1>2, <1>3, <1>4, <1>5

\* A new entry.
LEMMA FreshOK ==
  /\ EntryOK(Fresh) /\ Fresh.data = <<>> /\ Fresh.flight = "idle" /\ Fresh.status = "pending"
  /\ EntryOK(Begin(Fresh)) /\ Begin(Fresh).data = <<>> /\ Begin(Fresh).flight = "sent"
  /\ Begin(Fresh).status # "success"
<1>1. Fresh.data = <<>> /\ Fresh.flight = "idle" /\ Fresh.status = "pending"
  BY DEF Fresh
<1>2. Fresh \in Entry({<<>>}, {"pending"})
  BY DEF Fresh, Entry
<1>3. EntryOK(Fresh)
  BY <1>2, InEntry
<1> QED
  BY <1>1, <1>3, EntryOps

\* A fetch that fails, and one that reads.
LEMMA EntryReads ==
  ASSUME NEW e, EntryOK(e), NEW f \in {"read", "failed"}, NEW value
  PROVE  /\ LET s == [e EXCEPT !.flight = f]
            IN  /\ EntryOK(s) /\ s.data = e.data /\ s.missed = e.missed /\ s.status = e.status
                /\ s.flight = f
         /\ LET s == [e EXCEPT !.flight = f, !.answer = value]
            IN  /\ EntryOK(s) /\ s.data = e.data /\ s.missed = e.missed /\ s.status = e.status
                /\ s.flight = f /\ s.answer = value
<1>1. LET s == [e EXCEPT !.flight = f]
      IN  /\ s \in Entry({e.data, e.answer}, {e.status}) /\ s.data = e.data
          /\ s.missed = e.missed /\ s.status = e.status /\ s.flight = f
  BY DEF Entry, EntryOK
<1>2. LET s == [e EXCEPT !.flight = f, !.answer = value]
      IN  /\ s \in Entry({e.data, value}, {e.status}) /\ s.data = e.data
          /\ s.missed = e.missed /\ s.status = e.status /\ s.flight = f /\ s.answer = value
  BY DEF Entry, EntryOK
<1> QED
  BY <1>1, <1>2, InEntry

ReadEntry(e, value) ==
  [e EXCEPT !.flight = IF value = <<>> THEN "failed" ELSE "read", !.answer = value]

\* A fetch that is answered holds what the service said.
LEMMA EntryRead ==
  ASSUME NEW e, EntryOK(e), NEW value
  PROVE  LET s == ReadEntry(e, value)
         IN  /\ EntryOK(s) /\ s.data = e.data /\ s.missed = e.missed /\ s.status = e.status
             /\ s.flight = (IF value = <<>> THEN "failed" ELSE "read") /\ s.answer = value
<1>1. PICK f \in {"read", "failed"} : f = IF value = <<>> THEN "failed" ELSE "read"
  OBVIOUS
<1>2. ReadEntry(e, value) = [e EXCEPT !.flight = f, !.answer = value]
  BY <1>1 DEF ReadEntry
<1>3. LET s == [e EXCEPT !.flight = f, !.answer = value]
      IN  /\ s \in Entry({e.data, value}, {e.status}) /\ s.data = e.data
          /\ s.missed = e.missed /\ s.status = e.status /\ s.flight = f /\ s.answer = value
  BY DEF Entry, EntryOK
<1> QED
  BY <1>1, <1>2, <1>3, InEntry

\* Invalidation: a fetch of its own, or a note in the one under way.
LEMMA EntryInvalidated ==
  ASSUME NEW e, EntryOK(e), NEW o
  PROVE  /\ EntryOK(Invalidated(e, o))
         /\ Invalidated(e, o).flight = "read" => Invalidated(e, o).crossed
         /\ o => Invalidated(e, o).flight # "idle"
<1>1. CASE o /\ (e.flight = "idle" \/ e.data # <<>>)
  BY <1>1, EntryOps DEF Invalidated
<1>2. CASE ~ (o /\ (e.flight = "idle" \/ e.data # <<>>))
  <2>1. Invalidated(e, o) = [e EXCEPT !.crossed = e.flight = "read"]
    BY <1>2 DEF Invalidated
  <2>2. (e.flight = "read") \in BOOLEAN
    OBVIOUS
  <2>3. \A x \in BOOLEAN : /\ EntryOK([e EXCEPT !.crossed = x])
                           /\ [e EXCEPT !.crossed = x].flight = e.flight
                           /\ [e EXCEPT !.crossed = x].crossed = x
    BY DEF Entry, EntryOK
  <2> QED
    BY <1>2, <2>1, <2>2, <2>3
<1> QED
  BY <1>1, <1>2

\* setQueryData with what the callbacks know.
LEMMA EntryStored ==
  ASSUME NEW e, EntryOK(e), NEW value, NEW m \in BOOLEAN
  PROVE  LET s == [Stored(e, value) EXCEPT !.missed = m]
         IN  /\ EntryOK(s) /\ s.data = <<value>> /\ s.flight = e.flight /\ s.answer = e.answer
             /\ s.missed <=> m
             /\ s.status = "success" /\ Stored(e, value).missed = e.missed
             /\ e.flight = "read" => s.crossed
<1>1. (e.flight = "read") \in BOOLEAN
  OBVIOUS
<1>2. \A c \in BOOLEAN :
        LET t == [e EXCEPT !.data = <<value>>, !.status = "success", !.crossed = c]
            s == [t EXCEPT !.missed = m]
        IN  /\ s \in Entry({<<value>>, e.answer}, {"success"}) /\ s.data = <<value>>
            /\ s.flight = e.flight /\ s.answer = e.answer /\ s.missed = m
            /\ s.status = "success" /\ s.crossed = c /\ t.missed = e.missed
  BY DEF Entry, EntryOK
<1> QED
  BY <1>1, <1>2, InEntry DEF Stored

\* Two requests that differ at most in being seen.
Same(p, r) ==
  /\ p.n = r.n /\ p.op = r.op /\ p.guest = r.guest /\ p.arg = r.arg
  /\ p.phase = r.phase /\ p.result = r.result

\* Nobody sees some requests any more.
LEMMA UnseenPosts ==
  ASSUME PostsOK, sent' = sent, posts' = posts \/ \E ops \in SUBSET AllOps : posts' = Unseen(ops)
  PROVE  /\ PostsOK'
         /\ \A p \in posts' : \E r \in posts : Same(p, r)
         /\ \A r \in posts : \E p \in posts' : Same(p, r)
<1>1. CASE posts' = posts
  BY <1>1 DEF PostsOK, Same
<1>2. CASE \E ops \in SUBSET AllOps : posts' = Unseen(ops)
  <2>1. PICK ops \in SUBSET AllOps : posts' = Unseen(ops)
    BY <1>2
  <2> DEFINE f(p) == [p EXCEPT !.shown = p.shown /\ p.op \notin ops]
  <2>2. posts' = {f(p) : p \in posts}
    BY <2>1 DEF Unseen
  <2>3. ASSUME NEW p \in posts PROVE f(p) \in Posted /\ Same(f(p), p)
    <3>1. p \in Posted /\ (p.shown /\ p.op \notin ops) \in BOOLEAN
      BY DEF PostsOK
    <3>2. \A x \in BOOLEAN : [p EXCEPT !.shown = x] \in Posted /\ Same([p EXCEPT !.shown = x], p)
      BY <3>1 DEF Posted, Same
    <3> QED
      BY <3>1, <3>2
  <2> HIDE DEF f
  <2>4. \A p \in posts' : \E r \in posts : p = f(r) /\ Same(p, r)
    BY <2>2, <2>3
  <2>5. \A r \in posts : \E p \in posts' : Same(p, r)
    BY <2>2, <2>3
  <2>6. PostsOK'
    <3>1. posts' \subseteq Posted
      BY <2>2, <2>3
    <3>2. \A p \in posts' : p.n <= sent'
      BY <2>4 DEF PostsOK, Same
    <3>3. ASSUME NEW p \in posts', NEW r \in posts', p.n = r.n PROVE p = r
      <4>1. PICK a \in posts : p = f(a) /\ Same(p, a)
        BY <2>4
      <4>2. PICK b \in posts : r = f(b) /\ Same(r, b)
        BY <2>4
      <4>3. a = b
        BY <3>3, <4>1, <4>2 DEF Same, PostsOK
      <4> QED
        BY <4>1, <4>2, <4>3
    <3>4. \A p \in posts' : p.op \notin {"add", "remove"} => p.guest \in Guests
      BY <2>4 DEF PostsOK, Same
    <3> QED
      BY <3>1, <3>2, <3>3, <3>4 DEF PostsOK
  <2> QED
    BY <2>4, <2>5, <2>6
<1> QED
  BY <1>1, <1>2

\* The answer to a request.
LEMMA RepliedPosts ==
  ASSUME PostsOK, sent' = sent, NEW p \in posts, NEW phase \in {"ok", "error"}, NEW result \in Args,
         Replied(p, phase, result)
  PROVE  /\ PostsOK'
         /\ \E s \in Posted : /\ posts' = (posts \ {p}) \cup {s} /\ s.n = p.n /\ s.op = p.op
                            /\ s.guest = p.guest /\ s.arg = p.arg /\ s.phase = phase
                            /\ s.result = result
<1> DEFINE s == [p EXCEPT !.phase = phase, !.result = result]
<1>1. posts' = (posts \ {p}) \cup {s}
  BY DEF Replied
<1>2. p \in Posted
  BY DEF PostsOK
<1>3. /\ s \in Posted /\ s.n = p.n /\ s.op = p.op /\ s.guest = p.guest /\ s.arg = p.arg
      /\ s.phase = phase /\ s.result = result
  BY <1>2 DEF Posted
<1> HIDE DEF s
<1>4. PostsOK'
  BY <1>1, <1>3 DEF PostsOK
<1> QED
  BY <1>1, <1>3, <1>4

\* A new request, and one that is over.
LEMMA SentPosts ==
  ASSUME PostsOK, NEW op \in AllOps, NEW g \in Guests \cup {Admin}, NEW arg \in Args,
         Sends(op, g, arg)
  PROVE  PostsOK'
<1> DEFINE s == [n |-> sent + 1, op |-> op, guest |-> g, arg |-> arg,
                 phase |-> "sent", result |-> arg, shown |-> TRUE]
<1>1. posts' = posts \cup {s} /\ sent' = sent + 1 /\ (op \notin {"add", "remove"} => g \in Guests)
  BY DEF Sends
<1>2. sent \in Nat /\ \A p \in posts : p \in Posted /\ p.n <= sent
  BY DEF PostsOK
<1>3. s \in Posted /\ s.n = sent + 1 /\ s.op = op /\ s.guest = g
  BY <1>2 DEF Posted
<1> HIDE DEF s
<1>4. /\ sent' \in Nat /\ posts' \subseteq Posted
      /\ \A p \in posts' : p.op \notin {"add", "remove"} => p.guest \in Guests
  BY <1>1, <1>2, <1>3 DEF PostsOK
<1>5. \A p \in posts : p.n <= sent' /\ p.n # s.n
  BY <1>1, <1>2, <1>3 DEF Posted
<1>6. \A p \in posts' : p.n <= sent'
  BY <1>1, <1>2, <1>3, <1>5
<1>7. \A p, r \in posts' : p.n = r.n => p = r
  BY <1>1, <1>5 DEF PostsOK
<1> QED
  BY <1>4, <1>6, <1>7 DEF PostsOK

\* A mutation that has run its callbacks leaves the others as they were.
LEMMA DonePosts ==
  ASSUME PostsOK, sent' = sent, NEW p, posts' = posts \ {p}
  PROVE  PostsOK'
  BY DEF PostsOK

\* Every step keeps the shape of the state.
LEMMA ShapeKept ==
  ASSUME PanelsInv, OneStep PROVE Shape'
<1> USE DEF PanelsInv, Shape
<1>1. \A k \in Keys : EntryOK(q[k])
  BY DEF CacheOK
<1>2. ASSUME UNCHANGED q PROVE CacheOK'
  BY <1>2 DEF CacheOK
<1>3. ASSUME NEW key \in Keys, NEW e, EntryOK(e), q' = [q EXCEPT ![key] = e] PROVE CacheOK'
  BY <1>3 DEF CacheOK
<1>4. ASSUME q' = [k \in Keys |-> q'[k]], \A k \in Keys : EntryOK(q'[k]) PROVE CacheOK'
  BY <1>4 DEF CacheOK
<1>5. CASE Looks
  <2>1. \A k \in Keys : EntryOK(q'[k])
    <3>1. \A k \in Keys : EntryOK(Begin(q[k]))
      BY <1>1, EntryOps
    <3> QED
      BY <1>1, <1>5, <3>1 DEF Looks
  <2> QED
    BY <1>4, <1>5, <2>1, UnseenPosts DEF Looks
<1>6. ASSUME NEW k \in Keys, FetchEnds(k) PROVE Shape'
  <2>1. q' = [q EXCEPT ![k] = [q[k] EXCEPT !.flight = "failed"]] \/ q' = [q EXCEPT ![k] = Settled(q[k])]
    BY <1>6 DEF FetchEnds, CacheOK
  <2>2. CacheOK'
    <3>1. EntryOK(q[k])
      BY <1>1
    <3>2. EntryOK([q[k] EXCEPT !.flight = "failed"]) /\ EntryOK(Settled(q[k]))
      BY <3>1, EntryOps, EntryReads
    <3> QED
      BY <1>3, <2>1, <3>2
  <2> QED
    BY <1>6, <2>2, PageKept, UnseenPosts DEF FetchEnds
<1>7. ASSUME NEW k \in Keys, NEW value, Reads(k, value) PROVE Shape'
  <2>1. \E f \in {"read", "failed"} : q' = [q EXCEPT ![k] = [q[k] EXCEPT !.flight = f, !.answer = value]]
    BY <1>7 DEF Reads, CacheOK
  <2>2. CacheOK'
    <3>1. EntryOK(q[k])
      BY <1>1
    <3>2. \A f \in {"read", "failed"} : EntryOK([q[k] EXCEPT !.flight = f, !.answer = value])
      BY <3>1, EntryReads
    <3> QED
      BY <1>3, <2>1, <3>2
  <2> QED
    BY <1>7, <2>2, PageKept, UnseenPosts DEF Reads
<1>8. ASSUME NEW op \in AllOps, NEW g \in Guests \cup {Admin}, NEW arg \in Args, Sends(op, g, arg)
      PROVE  Shape'
  BY <1>2, <1>8, PageKept, SentPosts DEF Sends
<1>9. ASSUME NEW p \in posts, Errs(p) PROVE Shape'
  <2>1. PostsOK'
    BY <1>9, RepliedPosts, DonePosts DEF Errs
  <2> QED
    BY <1>2, <1>9, <2>1, PageKept DEF Errs
<1>10. ASSUME NEW p \in posts, Loses(p) PROVE Shape'
  <2>1. PostsOK'
    <3>1. p.result \in Args
      BY DEF PostsOK, Posted
    <3> QED
      BY <1>10, <3>1, RepliedPosts DEF Loses
  <2>2. q' = [k \in Keys |-> q'[k]] /\ \A k \in Keys : q'[k] = q[k] \/ q'[k] = Overlooked(q[k])
    BY <1>10 DEF Loses
  <2>3. CacheOK'
    <3>1. \A k \in Keys : EntryOK(Overlooked(q[k]))
      BY <1>1, EntryOps
    <3> QED
      BY <1>1, <1>4, <2>2, <3>1
  <2> QED
    BY <1>10, <2>1, <2>3, PageKept DEF Loses
<1>11. ASSUME NEW p \in posts, Drops(p) PROVE Shape'
  <2>1. PostsOK'
    <3>1. p.arg \in Args
      BY DEF PostsOK, Posted
    <3> QED
      BY <1>11, <3>1, RepliedPosts DEF Drops
  <2>2. q' = [k \in Keys |-> q'[k]] /\ \A k \in Keys : q'[k] = q[k] \/ q'[k] = Overlooked(q[k])
    BY <1>11 DEF Drops
  <2>3. CacheOK'
    <3>1. \A k \in Keys : EntryOK(Overlooked(q[k]))
      BY <1>1, EntryOps
    <3> QED
      BY <1>1, <1>4, <2>2, <3>1
  <2> QED
    BY <1>11, <2>1, <2>3, PageKept DEF Drops
<1>12. ASSUME NEW p \in posts, NEW result \in Args, Serves(p, result) PROVE Shape'
  <2>1. PostsOK'
    BY <1>12, RepliedPosts DEF Serves
  <2> QED
    BY <1>2, <1>12, <2>1, PageKept DEF Serves
<1>13. ASSUME NEW p \in posts, Succeeds(p) PROVE Shape'
  <2>1. /\ posts' = posts \ {p} /\ UNCHANGED <<page, sent>>
        /\ p.op \notin {"add", "remove"} => p.guest \in Guests
    BY <1>13 DEF Succeeds, OnBoarded, OnReserved, OnCancelled, OnBeachChanged, OnOrdered, OnReply,
                 OnSuccess, counters, PostsOK
  <2>2. PostsOK' /\ PageOK'
    BY <2>1, DonePosts, PageKept
  <2>3. CASE OnBoarded(p)
    <3>1. ArrivalKey(p.guest) \in Keys
      BY <2>1, <2>3, KeyFacts DEF OnBoarded
    <3>2. q' = [q EXCEPT ![ArrivalKey(p.guest)] = Invalidated(q[ArrivalKey(p.guest)], p.guest = who)]
      BY <2>3 DEF OnBoarded, OnSuccess
    <3> QED
      BY <1>1, <1>3, <2>2, <3>1, <3>2, EntryInvalidated
  <2>4. CASE OnReserved(p)
    <3> DEFINE key == ReservationKey(p.guest)
               m == reservations[p.result].status = "cancelled"
    <3>1. key \in Keys /\ m \in BOOLEAN
      BY <2>1, <2>4, KeyFacts DEF OnReserved
    <3>2. q' = [q EXCEPT ![key] = [Stored(q[key], p.result) EXCEPT !.missed = m]]
      BY <2>4 DEF OnReserved, OnSuccess
    <3> HIDE DEF key, m
    <3> QED
      BY <1>1, <1>3, <2>2, <3>1, <3>2, EntryStored
  <2>5. CASE OnCancelled(p)
    <3> DEFINE key == ReservationKey(p.guest)
    <3>1. key \in Keys
      BY <2>1, <2>5, KeyFacts DEF OnCancelled
    <3>2. q' = [q EXCEPT ![key] = Begin(Fresh)] \/ q' = [q EXCEPT ![key] = Fresh]
      BY <2>5 DEF OnCancelled, OnSuccess
    <3>3. EntryOK(Fresh) /\ EntryOK(Begin(Fresh))
      BY FreshOK
    <3> QED
      BY <1>3, <2>2, <3>1, <3>2, <3>3
  <2>6. CASE OnBeachChanged(p)
    <3>1. q' = [k \in Keys |-> q'[k]]
             /\ \A k \in Keys : q'[k] = q[k] \/ q'[k] = Invalidated(q[k], Observed(k))
      BY <2>6 DEF OnBeachChanged, OnSuccess, BeachInvalidated
    <3> QED
      BY <1>1, <1>4, <2>2, <3>1, EntryInvalidated
  <2>7. CASE OnOrdered(p)
    <3>1. MenuKey \in Keys
      BY KeyFacts
    <3>2. q' = [q EXCEPT ![MenuKey] = Invalidated(q[MenuKey], Observed(MenuKey))]
      BY <2>7 DEF OnOrdered, OnSuccess
    <3> QED
      BY <1>1, <1>3, <2>2, <3>1, <3>2, EntryInvalidated
  <2>8. CASE OnReply(p)
    <3> DEFINE key == HistoryKey(p.guest)
               e == q[key]
               crossing == e.data # <<>> /\ \E u \in ToSet(e.data[1].turns) :
                             \/ u[1] = p.n
                             \/ \E i \in Parrots : Before(conversation[i][p.guest], p.n, u[1])
               s == Stored(e, AppendTurn(e.data, <<p.n, p.arg>>))
    <3>1. key \in Keys
      BY <2>1, <2>8, KeyFacts DEF OnReply
    <3>2. q' = [q EXCEPT ![key] = [s EXCEPT !.missed = s.missed \/ crossing]]
      BY <2>8 DEF OnReply, OnSuccess
    <3>3. (s.missed \/ crossing) \in BOOLEAN
      OBVIOUS
    <3>4. EntryOK(e)
      BY <1>1, <3>1
    <3>5. EntryOK([s EXCEPT !.missed = s.missed \/ crossing])
      BY <3>3, <3>4, EntryStored
    <3> HIDE DEF key, e, crossing, s
    <3> QED
      BY <1>3, <2>2, <3>1, <3>2, <3>5
  <2> QED
    BY <1>13, <2>3, <2>4, <2>5, <2>6, <2>7, <2>8 DEF Succeeds
<1>14. ASSUME NEW g \in Guests, NEW i \in Parrots, Expires(g, i) PROVE Shape'
  BY <1>2, <1>14, PageKept, UnseenPosts DEF Expires
<1> QED
  BY <1>5, <1>6, <1>7, <1>8, <1>9, <1>10, <1>11, <1>12, <1>13, <1>14 DEF OneStep

-----------------------------------------------------------------------------
(* Reservations: the cards.                                                *)

\* A guest's reservations stand as long as they stood.
Stands(g) == \A i : Held(g, i) /\ Standing(i) => Standing(i)'

Room == [guest : Guests, status : {"confirmed", "cancelled"}]

\* A reservation that a guest holds is a row of the hotel.
LEMMA RoomHeld ==
  ASSUME CardInv, NEW g, NEW i, Held(g, i)
  PROVE  i \in 1..Len(reservations) /\ i \in Nat /\ reservations[i] \in Room
<1>1. reservations \in Seq(Room)
  BY DEF CardInv, Room
<1>2. i \in 1..Len(reservations) /\ Len(reservations) \in Nat
  BY <1>1, LenProperties DEF Held
<1> QED
  BY <1>1, <1>2, ElementOfSeq

\* A card stays true while its reservation stands and nobody writes to it.
LEMMA CardMoves ==
  ASSUME NEW g \in Guests, NEW e, EntryOK(e), CardOK(g, e),
         \A i : Held(g, i) => Held(g, i)', Stands(g),
         NEW f \in {e, Begin(e), Settled(e), [e EXCEPT !.flight = "failed"]}
  PROVE  CardOK(g, f)'
<1>1. /\ e.data # <<>> => \E i \in Nat : /\ e.data = <<i>> /\ Held(g, i)'
                                         /\ Standing(i)' \/ e.missed
      /\ e.flight = "read" => \E i \in Nat : /\ e.answer = <<i>> /\ Held(g, i)'
                                             /\ Standing(i)' \/ e.crossed
  BY DEF CardOK, Stands
<1>2. CASE f = e
  BY <1>1, <1>2 DEF CardOK
<1>3. CASE f = Begin(e)
  <2>1. f.data = e.data /\ f.missed = e.missed /\ f.flight # "read"
    BY <1>3, EntryOps
  <2> QED
    BY <1>1, <2>1 DEF CardOK
<1>4. CASE f = Settled(e) /\ e.flight = "read"
  <2>1. f.data = e.answer /\ f.missed = e.crossed /\ f.flight # "read"
    BY <1>4, EntryOps
  <2> QED
    BY <1>1, <1>4, <2>1 DEF CardOK
<1>5. CASE f = Settled(e) /\ e.flight # "read"
  <2>1. f.data = e.data /\ f.missed = e.missed /\ f.flight # "read"
    BY <1>5, EntryOps
  <2> QED
    BY <1>1, <2>1 DEF CardOK
<1>6. CASE f = [e EXCEPT !.flight = "failed"]
  <2>1. f.data = e.data /\ f.missed = e.missed /\ f.flight # "read"
    BY <1>6, EntryReads
  <2> QED
    BY <1>1, <2>1 DEF CardOK
<1> QED
  BY <1>2, <1>3, <1>4, <1>5, <1>6

\* A write that the entry was not told of.
LEMMA CardOverlooked ==
  ASSUME NEW g \in Guests, NEW e, EntryOK(e), CardOK(g, e), \A i : Held(g, i) => Held(g, i)',
         NEW f, f = Overlooked(e)
  PROVE  CardOK(g, f)'
<1>1. /\ e.data # <<>> => \E i \in Nat : e.data = <<i>> /\ Held(g, i)'
      /\ e.flight = "read" => \E i \in Nat : e.answer = <<i>> /\ Held(g, i)'
  BY DEF CardOK
<1>2. /\ f.data = e.data /\ f.flight = e.flight /\ f.answer = e.answer
      /\ f.missed /\ (f.flight = "read" => f.crossed)
  BY EntryOps
<1> QED
  BY <1>1, <1>2 DEF CardOK

\* The requests go on being about reservations of their guest.
RequestsHeld ==
  /\ \A p \in posts : p.op = "cancel" => Held(p.guest, p.arg)
  /\ \A p \in posts : p.op = "reserve" /\ p.phase = "ok" => Held(p.guest, p.result)

\* Requests under way are about reservations their guest holds.
LEMMA RequestsKept ==
  ASSUME RequestsHeld, \A g, i : Held(g, i) => Held(g, i)',
         \A p \in posts' : p.op \in {"reserve", "cancel"} =>
           \E r \in posts : /\ r.op = p.op /\ r.guest = p.guest /\ r.arg = p.arg
                            /\ p.phase = "ok" /\ p.op = "reserve" =>
                                 r.phase = "ok" /\ r.result = p.result
  PROVE  RequestsHeld'
<1>1. ASSUME NEW p \in posts', p.op = "cancel" PROVE Held(p.guest, p.arg)'
  <2>1. PICK r \in posts : r.op = "cancel" /\ r.guest = p.guest /\ r.arg = p.arg
    BY <1>1
  <2>2. Held(r.guest, r.arg)
    BY <2>1 DEF RequestsHeld
  <2> QED
    BY <2>1, <2>2
<1>2. ASSUME NEW p \in posts', p.op = "reserve", p.phase = "ok" PROVE Held(p.guest, p.result)'
  <2>1. PICK r \in posts : /\ r.op = "reserve" /\ r.guest = p.guest
                           /\ r.phase = "ok" /\ r.result = p.result
    BY <1>2
  <2>2. Held(r.guest, r.result)
    BY <2>1 DEF RequestsHeld
  <2> QED
    BY <2>1, <2>2
<1> QED
  BY <1>1, <1>2 DEF RequestsHeld

\* A step that leaves the reservations and the cards alone.
LEMMA CardFrame ==
  ASSUME PanelsInv, UNCHANGED reservations,
         \A g \in Guests : q'[ReservationKey(g)] = q[ReservationKey(g)],
         \A r \in posts : r.op = "cancel" /\ r.phase = "ok" =>
           \E p \in posts' : p.op = "cancel" /\ p.phase = "ok" /\ p.arg = r.arg,
         \A p \in posts' : p.op \in {"reserve", "cancel"} =>
           \E r \in posts : /\ r.op = p.op /\ r.guest = p.guest /\ r.arg = p.arg
                            /\ p.phase = "ok" /\ p.op = "reserve" =>
                                 r.phase = "ok" /\ r.result = p.result
  PROVE  CardInv'
<1>1. \A g, i : Held(g, i) => Held(g, i)'
  BY DEF Held
<1>2. \A i : Standing(i) => Standing(i)'
  BY DEF Standing
<1>3. RequestsHeld
  BY DEF PanelsInv, CardInv, RequestsHeld
<1>4. RequestsHeld'
  BY <1>1, <1>3, RequestsKept
<1>5. ASSUME NEW g \in Guests PROVE CardOK(g, q[ReservationKey(g)])'
  <2>1. PICK e : e = q[ReservationKey(g)]
    OBVIOUS
  <2>2. EntryOK(e) /\ CardOK(g, e)
    BY <2>1, KeyFacts DEF PanelsInv, Shape, CacheOK, CardInv
  <2>3. CardOK(g, e)'
    BY <1>1, <1>2, <2>2, CardMoves DEF Stands
  <2> QED
    BY <2>1, <2>3 DEF CardOK
<1> QED
  BY <1>4, <1>5 DEF PanelsInv, CardInv, RequestsHeld

\* A step of one entry, and one of all of them, that leaves what stands alone.
LEMMA CardSteps ==
  ASSUME PanelsInv, UNCHANGED reservations,
         \A g \in Guests : LET e == q[ReservationKey(g)] IN
           q'[ReservationKey(g)] \in {e, Begin(e), Settled(e), [e EXCEPT !.flight = "failed"]},
         \A p \in posts' : \E r \in posts : Same(p, r),
         \A r \in posts : \E p \in posts' : Same(p, r)
  PROVE  CardInv'
<1>1. \A g, i : Held(g, i) => Held(g, i)'
  BY DEF Held
<1>2. \A i : Standing(i) => Standing(i)'
  BY DEF Standing, Same
<1>3. RequestsHeld
  BY DEF PanelsInv, CardInv, RequestsHeld
<1>4. RequestsHeld'
  <2>1. \A p \in posts' : p.op \in {"reserve", "cancel"} =>
           \E r \in posts : /\ r.op = p.op /\ r.guest = p.guest /\ r.arg = p.arg
                            /\ p.phase = "ok" /\ p.op = "reserve" =>
                                 r.phase = "ok" /\ r.result = p.result
    BY DEF Same
  <2> QED
    BY <1>1, <1>3, <2>1, RequestsKept
<1>5. ASSUME NEW g \in Guests PROVE CardOK(g, q[ReservationKey(g)])'
  <2>1. PICK e : e = q[ReservationKey(g)]
    OBVIOUS
  <2>2. PICK f : f = q'[ReservationKey(g)]
    OBVIOUS
  <2>3. EntryOK(e) /\ CardOK(g, e)
    BY <2>1, KeyFacts DEF PanelsInv, Shape, CacheOK, CardInv
  <2>4. f \in {e, Begin(e), Settled(e), [e EXCEPT !.flight = "failed"]}
    BY <2>1, <2>2
  <2>5. CardOK(g, f)'
    BY <1>1, <1>2, <2>3, <2>4, CardMoves DEF Stands
  <2> QED
    BY <2>2, <2>5 DEF CardOK
<1> QED
  BY <1>4, <1>5 DEF PanelsInv, CardInv, RequestsHeld

\* Every step keeps the cards true.
LEMMA CardKept ==
  ASSUME PanelsInv, OneStep PROVE CardInv'
<1> USE DEF PanelsInv, Shape
<1>1. /\ \A g \in Guests : /\ ReservationKey(g) \in Keys /\ EntryOK(q[ReservationKey(g)])
                           /\ CardOK(g, q[ReservationKey(g)])
      /\ RequestsHeld
  BY KeyFacts DEF CacheOK, CardInv, RequestsHeld
<1>2. \A p \in posts : p \in Posted /\ p.op \in AllOps
  BY DEF PostsOK, Posted
<1>3. \A p \in posts : Same(p, p)
  BY DEF Same
<1>4. CASE Looks
  BY <1>1, <1>4, CardSteps, UnseenPosts DEF Looks, core
<1>5. ASSUME NEW k \in Keys, FetchEnds(k) PROVE CardInv'
  <2>1. \A g \in Guests : LET e == q[ReservationKey(g)] IN
           q'[ReservationKey(g)] \in {e, Begin(e), Settled(e), [e EXCEPT !.flight = "failed"]}
    BY <1>1, <1>5 DEF FetchEnds, CacheOK
  <2> QED
    BY <1>3, <1>5, <2>1, CardSteps DEF FetchEnds, core
<1>6. ASSUME NEW k \in Keys, NEW value, Reads(k, value) PROVE CardInv'
  <2>1. CASE \A g \in Guests : k # ReservationKey(g)
    <3>1. \A g \in Guests : q'[ReservationKey(g)] = q[ReservationKey(g)]
      BY <1>1, <1>6, <2>1 DEF Reads, CacheOK
    <3> QED
      BY <1>3, <1>6, <3>1, CardSteps DEF Reads, core
  <2>2. ASSUME NEW h \in Guests, k = ReservationKey(h) PROVE CardInv'
    <3>1. /\ UNCHANGED <<posts, reservations>>
          /\ value # <<>> => \E i \in Confirmed(h) : value = <<i>>
          /\ \A g \in Guests : g # h => q'[ReservationKey(g)] = q[ReservationKey(g)]
      BY <1>1, <1>6, <2>2, KeyFacts DEF Reads, CacheOK, core
    <3>2. PICK e : e = q[ReservationKey(h)]
      OBVIOUS
    <3>3. PICK f : f = q'[ReservationKey(h)]
      OBVIOUS
    <3>4. f = ReadEntry(e, value)
      BY <1>1, <1>6, <2>2, <3>2, <3>3 DEF Reads, CacheOK, ReadEntry
    <3>5. /\ f.data = e.data /\ f.missed = e.missed
          /\ f.flight = "read" => value # <<>> /\ f.answer = value
      <4>1. EntryOK(e)
        BY <1>1, <3>2
      <4>2. /\ f.data = e.data /\ f.missed = e.missed /\ f.answer = value
            /\ f.flight = IF value = <<>> THEN "failed" ELSE "read"
        BY <3>4, <4>1, EntryRead
      <4> QED
        BY <4>2
    <3>6. reservations \in Seq([guest : Guests, status : {"confirmed", "cancelled"}])
      BY DEF CardInv
    <3>7. \A i \in Confirmed(h) : i \in Nat /\ Held(h, i)' /\ Standing(i)'
      BY <3>1, <3>6 DEF Confirmed, Held, Standing
    <3>8. \A i : Held(h, i) /\ Standing(i) => Held(h, i)' /\ Standing(i)'
      BY <3>1 DEF Held, Standing
    <3>9. \A i : Held(h, i) => Held(h, i)'
      BY <3>1 DEF Held
    <3>10. CardOK(h, e)
      BY <1>1, <3>2
    <3>11. CardOK(h, f)'
      BY <3>1, <3>5, <3>7, <3>8, <3>9, <3>10 DEF CardOK
    <3>12. \A g \in Guests : g # h => CardOK(g, q[ReservationKey(g)])'
      BY <1>1, <3>1 DEF CardOK, Held, Standing
    <3> QED
      BY <3>1, <3>3, <3>11, <3>12 DEF CardInv, Held, CardOK
  <2> QED
    BY <2>1, <2>2
<1>7. ASSUME NEW op \in AllOps, NEW g \in Guests \cup {Admin}, NEW arg \in Args, Sends(op, g, arg)
      PROVE  CardInv'
  <2> DEFINE s == [n |-> sent + 1, op |-> op, guest |-> g, arg |-> arg,
                   phase |-> "sent", result |-> arg, shown |-> TRUE]
  <2>1. posts' = posts \cup {s} /\ s.op = op /\ s.phase = "sent" /\ s.guest = g /\ s.arg = arg
          /\ UNCHANGED <<q, reservations>>
    BY <1>7 DEF Sends, core
  <2> HIDE DEF s
  <2>2. op = "cancel" => Held(g, arg)
    <3>1. SUFFICES ASSUME op = "cancel" PROVE Held(g, arg)
      OBVIOUS
    <3>2. g \in Guests /\ q[ReservationKey(g)].data = <<arg>>
      BY <1>7, <3>1 DEF Sends
    <3>3. PICK i \in Nat : <<arg>> = <<i>> /\ Held(g, i)
      <4>1. <<arg>> # <<>>
        OBVIOUS
      <4> QED
        BY <1>1, <3>2, <4>1 DEF CardOK
    <3> QED
      BY <3>3
  <2>3. \A h, i : Held(h, i) => Held(h, i)'
    BY <2>1 DEF Held
  <2>4. RequestsHeld'
    BY <1>1, <2>1, <2>2, <2>3 DEF RequestsHeld
  <2>5. \A i : Standing(i) => Standing(i)'
    BY <2>1 DEF Standing
  <2>6. ASSUME NEW h \in Guests PROVE CardOK(h, q[ReservationKey(h)])'
    BY <1>1, <2>1, <2>3, <2>5 DEF CardOK
  <2> QED
    BY <2>1, <2>4, <2>6 DEF CardInv, RequestsHeld
<1>8. ASSUME NEW p \in posts, Errs(p) PROVE CardInv'
  <2>1. CASE posts' = posts \ {p} /\ p.phase = "error"
    BY <1>8, <2>1, CardFrame DEF Errs, core
  <2>2. CASE p.phase = "sent" /\ \E r \in Args : Replied(p, "error", r)
    <3>1. PICK s \in Posted : /\ posts' = (posts \ {p}) \cup {s} /\ s.op = p.op
                            /\ s.guest = p.guest /\ s.arg = p.arg /\ s.phase = "error"
      BY <1>8, <2>2, RepliedPosts DEF Errs
    <3> QED
      BY <1>8, <2>2, <3>1, CardFrame DEF Errs, core
  <2> QED
    BY <1>8, <2>1, <2>2 DEF Errs
<1>9. ASSUME NEW p \in posts, Loses(p) PROVE CardInv'
  <2>1. PICK s \in Posted : /\ posts' = (posts \ {p}) \cup {s} /\ s.op = p.op
                          /\ s.guest = p.guest /\ s.arg = p.arg /\ s.phase = "error"
    <3>1. p.result \in Args
      BY <1>2 DEF Posted
    <3> QED
      BY <1>9, <3>1, RepliedPosts DEF Loses
  <2>2. /\ UNCHANGED reservations
        /\ \A k \in Keys : q'[k] = IF k \in Touches(p) THEN Overlooked(q[k]) ELSE q[k]
    BY <1>9 DEF Loses, core
  <2>3. \A g, i : Held(g, i) => Held(g, i)'
    BY <2>2 DEF Held
  <2>4. RequestsHeld'
    BY <1>1, <2>1, <2>3, RequestsKept
  <2>5. ASSUME NEW g \in Guests PROVE CardOK(g, q[ReservationKey(g)])'
    <3>1. PICK e : e = q[ReservationKey(g)]
      OBVIOUS
    <3>2. PICK f : f = q'[ReservationKey(g)]
      OBVIOUS
    <3>3. EntryOK(e) /\ CardOK(g, e)
      BY <1>1, <3>1
    <3>4. CASE f = Overlooked(e)
      <4>1. CardOK(g, f)'
        BY <2>3, <3>3, <3>4, CardOverlooked
      <4> QED
        BY <3>2, <4>1 DEF CardOK
    <3>5. CASE ReservationKey(g) \notin Touches(p)
      <4>1. f = e
        BY <1>1, <2>2, <3>1, <3>2, <3>5
      <4>2. p.op = "cancel" => p.guest # g
        BY <1>2, <3>5, TouchFacts
      <4>3. p.op = "cancel" => Held(p.guest, p.arg)
        BY <1>1 DEF RequestsHeld
      <4>4. Stands(g)
        BY <2>1, <2>2, <4>2, <4>3 DEF Stands, Standing, Held
      <4>5. CardOK(g, f)'
        BY <2>3, <3>3, <4>1, <4>4, CardMoves
      <4> QED
        BY <3>2, <4>5 DEF CardOK
    <3> QED
      BY <1>1, <2>2, <3>1, <3>2, <3>4, <3>5
  <2> QED
    BY <2>2, <2>4, <2>5 DEF CardInv, RequestsHeld
<1>10. ASSUME NEW p \in posts, Drops(p) PROVE CardInv'
  <2>1. PICK s \in Posted : /\ posts' = (posts \ {p}) \cup {s} /\ s.op = p.op /\ p.op = "remove"
    <3>1. p.arg \in Args
      BY <1>2 DEF Posted
    <3> QED
      BY <1>10, <3>1, RepliedPosts DEF Drops
  <2>2. \A g \in Guests : q'[ReservationKey(g)] = q[ReservationKey(g)]
    <3>1. \A g \in Guests : ReservationKey(g) \notin {BookedKey(h) : h \in Booked(p.arg)}
      BY DEF ReservationKey, BookedKey
    <3> QED
      BY <1>1, <1>10, <3>1 DEF Drops
  <2> QED
    BY <1>10, <2>1, <2>2, CardFrame DEF Drops
<1>11. ASSUME NEW p \in posts, NEW result \in Args, Serves(p, result) PROVE CardInv'
  <2>1. PICK s \in Posted : /\ posts' = (posts \ {p}) \cup {s} /\ s.op = p.op /\ s.guest = p.guest
                          /\ s.arg = p.arg /\ s.phase = "ok" /\ s.result = result
    BY <1>11, RepliedPosts DEF Serves
  <2>2. p.phase = "sent" /\ q' = q
    BY <1>11 DEF Serves
  <2>3. CASE p.op \notin {"reserve", "cancel"} /\ UNCHANGED reservations
    BY <2>1, <2>2, <2>3, CardFrame
  <2>5. /\ reservations \in Seq([guest : Guests, status : {"confirmed", "cancelled"}])
        /\ p.op \notin {"add", "remove"} => p.guest \in Guests
    BY DEF CardInv, PostsOK
  <2>6. CASE /\ p.op = "reserve" /\ result = Len(reservations) + 1
             /\ reservations' = Append(reservations, [guest |-> p.guest, status |-> "confirmed"])
    <3> DEFINE room == [guest |-> p.guest, status |-> "confirmed"]
    <3>1. /\ room \in [guest : Guests, status : {"confirmed", "cancelled"}]
          /\ room.guest = p.guest
      BY <2>5, <2>6
    <3>2. reservations' = Append(reservations, room)
      BY <2>6
    <3> HIDE DEF room
    <3>3. /\ reservations' \in Seq([guest : Guests, status : {"confirmed", "cancelled"}])
          /\ Len(reservations) \in Nat
          /\ DOMAIN reservations = 1..Len(reservations)
          /\ DOMAIN reservations' = 1..(Len(reservations) + 1)
          /\ \A i \in 1..Len(reservations) : reservations'[i] = reservations[i]
          /\ reservations'[Len(reservations) + 1] = room
      BY <2>5, <3>1, <3>2
    <3>4. \A g, i : Held(g, i) => Held(g, i)'
      BY <3>3 DEF Held
    <3>5. Held(p.guest, result)'
      BY <2>6, <3>1, <3>3 DEF Held
    <3>6. \A i \in DOMAIN reservations : Standing(i) => Standing(i)'
      BY <2>1, <2>2, <2>6, <3>3 DEF Standing
    <3>7. RequestsHeld'
      BY <1>1, <2>1, <2>6, <3>4, <3>5 DEF RequestsHeld
    <3>8. ASSUME NEW g \in Guests PROVE CardOK(g, q[ReservationKey(g)])'
      <4>1. PICK e : e = q[ReservationKey(g)]
        OBVIOUS
      <4>2. Stands(g)
        BY <3>6 DEF Stands, Held
      <4>3. CardOK(g, e)'
        BY <1>1, <3>4, <4>1, <4>2, CardMoves
      <4> QED
        BY <2>2, <4>1, <4>3 DEF CardOK
    <3> QED
      BY <3>3, <3>7, <3>8 DEF CardInv, RequestsHeld
  <2>7. CASE p.op = "cancel" /\ reservations' = [reservations EXCEPT ![p.arg].status = "cancelled"]
    <3>1. Held(p.guest, p.arg)
      BY <1>1, <2>7 DEF RequestsHeld
    <3>2. /\ reservations' \in Seq([guest : Guests, status : {"confirmed", "cancelled"}])
          /\ DOMAIN reservations' = DOMAIN reservations
          /\ \A i \in DOMAIN reservations : reservations'[i].guest = reservations[i].guest
          /\ \A i \in DOMAIN reservations : i # p.arg => reservations'[i] = reservations[i]
      <4> DEFINE S == [guest : Guests, status : {"confirmed", "cancelled"}]
                 room == [reservations[p.arg] EXCEPT !.status = "cancelled"]
      <4>1. p.arg \in 1..Len(reservations) /\ reservations[p.arg] \in S
        BY <3>1, RoomHeld DEF Room
      <4>2. room \in S /\ room.guest = reservations[p.arg].guest
        BY <4>1
      <4>3. reservations' = [reservations EXCEPT ![p.arg] = room]
        BY <2>7
      <4> HIDE DEF S, room
      <4>4. /\ reservations' \in Seq(S)
            /\ DOMAIN reservations' = DOMAIN reservations
            /\ reservations'[p.arg] = room
            /\ \A i \in DOMAIN reservations : i # p.arg => reservations'[i] = reservations[i]
        BY <2>5, <4>1, <4>2, <4>3 DEF S
      <4> QED
        BY <4>2, <4>4 DEF S
    <3>3. \A g, i : Held(g, i) => Held(g, i)'
      BY <3>2 DEF Held
    <3>4. \A i \in DOMAIN reservations : Standing(i) => Standing(i)'
      BY <2>1, <2>2, <2>7, <3>2 DEF Standing
    <3>5. RequestsHeld'
      BY <1>1, <2>1, <2>7, <3>3, RequestsKept
    <3>6. ASSUME NEW g \in Guests PROVE CardOK(g, q[ReservationKey(g)])'
      <4>1. PICK e : e = q[ReservationKey(g)]
        OBVIOUS
      <4>2. Stands(g)
        BY <3>4 DEF Stands, Held
      <4>3. CardOK(g, e)'
        BY <1>1, <3>3, <4>1, <4>2, CardMoves
      <4> QED
        BY <2>2, <4>1, <4>3 DEF CardOK
    <3> QED
      BY <3>2, <3>5, <3>6 DEF CardInv, RequestsHeld
  <2> QED
    BY <1>11, <2>3, <2>6, <2>7 DEF Serves
<1>12. ASSUME NEW p \in posts, Succeeds(p) PROVE CardInv'
  <2>1. /\ posts' = posts \ {p} /\ p.phase = "ok" /\ UNCHANGED reservations
        /\ p.op \notin {"add", "remove"} => p.guest \in Guests
    BY <1>12 DEF Succeeds, OnBoarded, OnReserved, OnCancelled, OnBeachChanged, OnOrdered, OnReply,
                 OnSuccess, core, PostsOK
  <2>2. \A g, i : Held(g, i) => Held(g, i)'
    BY <2>1 DEF Held
  <2>3. RequestsHeld'
    BY <1>1, <2>1, <2>2, RequestsKept
  <2>4. ASSUME NEW g \in Guests, p.op = "cancel" => p.guest # g,
               q'[ReservationKey(g)] = q[ReservationKey(g)]
        PROVE  CardOK(g, q[ReservationKey(g)])'
    <3>1. PICK e : e = q[ReservationKey(g)]
      OBVIOUS
    <3>2. p.op = "cancel" => Held(p.guest, p.arg)
      BY <1>1 DEF RequestsHeld
    <3>3. Stands(g)
      BY <2>1, <2>4, <3>2 DEF Stands, Standing, Held
    <3>4. CardOK(g, e)'
      BY <1>1, <2>2, <3>1, <3>3, CardMoves
    <3> QED
      BY <2>4, <3>1, <3>4 DEF CardOK
  <2>5. CASE OnBoarded(p) \/ OnBeachChanged(p) \/ OnOrdered(p) \/ OnReply(p)
    <3>1. p.op # "cancel"
      BY <2>5 DEF OnBoarded, OnBeachChanged, OnOrdered, OnReply
    <3>2. ASSUME NEW g \in Guests PROVE q'[ReservationKey(g)] = q[ReservationKey(g)]
      <4>1. CASE OnBoarded(p)
        BY <1>1, <2>1, <4>1, KeyFacts DEF OnBoarded, OnSuccess, CacheOK
      <4>2. CASE OnOrdered(p)
        BY <1>1, <4>2, KeyFacts DEF OnOrdered, OnSuccess, CacheOK
      <4>3. CASE OnReply(p)
        BY <1>1, <2>1, <4>3, KeyFacts DEF OnReply, OnSuccess, CacheOK
      <4>4. CASE OnBeachChanged(p)
        <5>1. ReservationKey(g) \notin {ActivitiesKey, BookedKey(p.guest)}
          BY DEF ReservationKey, ActivitiesKey, BookedKey
        <5> QED
          BY <1>1, <4>4, <5>1 DEF OnBeachChanged, OnSuccess, BeachInvalidated
      <4> QED
        BY <2>5, <4>1, <4>2, <4>3, <4>4
    <3> QED
      BY <2>1, <2>3, <2>4, <3>1, <3>2 DEF CardInv, RequestsHeld
  <2>6. CASE OnReserved(p)
    <3>1. p.op = "reserve" /\ p.guest \in Guests
      BY <2>1, <2>6 DEF OnReserved
    <3> DEFINE m == reservations[p.result].status = "cancelled"
    <3>2. PICK e : e = q[ReservationKey(p.guest)]
      OBVIOUS
    <3>3. PICK f : f = q'[ReservationKey(p.guest)]
      OBVIOUS
    <3>4. /\ f = [Stored(e, p.result) EXCEPT !.missed = m]
          /\ \A g \in Guests : g # p.guest => q'[ReservationKey(g)] = q[ReservationKey(g)]
      BY <1>1, <2>6, <3>1, <3>2, <3>3, KeyFacts DEF OnReserved, OnSuccess, CacheOK
    <3>5. m \in BOOLEAN
      OBVIOUS
    <3>6. /\ f.data = <<p.result>> /\ f.flight = e.flight /\ f.answer = e.answer
          /\ f.missed <=> m
          /\ f.flight = "read" => f.crossed
      <4> HIDE DEF m
      <4>1. EntryOK(e)
        BY <1>1, <3>1, <3>2
      <4> QED
        BY <3>4, <3>5, <4>1, EntryStored
    <3>7. Held(p.guest, p.result) /\ p.result \in Nat
      <4>1. Held(p.guest, p.result)
        BY <1>1, <2>1, <3>1 DEF RequestsHeld
      <4> QED
        BY <4>1 DEF Held, CardInv
    <3>8. ~m => Standing(p.result)'
      <4>1. reservations[p.result] \in [guest : Guests, status : {"confirmed", "cancelled"}]
        BY <3>7, RoomHeld DEF Room
      <4> QED
        BY <2>1, <4>1 DEF Standing
    <3>9. CardOK(p.guest, e)
      BY <1>1, <3>1, <3>2
    <3>10. e.flight = "read" => \E i \in Nat : e.answer = <<i>> /\ Held(p.guest, i)'
      BY <2>2, <3>9 DEF CardOK
    <3>11. CardOK(p.guest, f)'
      <4> HIDE DEF m
      <4> QED
        BY <2>2, <3>5, <3>6, <3>7, <3>8, <3>10 DEF CardOK
    <3>12. CardOK(p.guest, q[ReservationKey(p.guest)])'
      BY <3>3, <3>11 DEF CardOK
    <3>13. \A g \in Guests : g # p.guest => CardOK(g, q[ReservationKey(g)])'
      BY <2>4, <3>1, <3>4
    <3> QED
      BY <2>1, <2>3, <3>12, <3>13 DEF CardInv, RequestsHeld
  <2>7. CASE OnCancelled(p)
    <3>1. p.op = "cancel" /\ p.guest \in Guests
      BY <2>1, <2>7 DEF OnCancelled
    <3>2. PICK f : f = q'[ReservationKey(p.guest)]
      OBVIOUS
    <3>3. /\ f = Fresh \/ f = Begin(Fresh)
          /\ \A g \in Guests : g # p.guest => q'[ReservationKey(g)] = q[ReservationKey(g)]
      BY <1>1, <2>7, <3>1, <3>2, KeyFacts DEF OnCancelled, OnSuccess, CacheOK
    <3>4. f.data = <<>> /\ f.flight # "read"
      BY <3>3, FreshOK
    <3>5. CardOK(p.guest, f)'
      BY <3>4 DEF CardOK
    <3>6. CardOK(p.guest, q[ReservationKey(p.guest)])'
      BY <3>2, <3>5 DEF CardOK
    <3>7. \A g \in Guests : g # p.guest => CardOK(g, q[ReservationKey(g)])'
      BY <2>4, <3>3
    <3> QED
      BY <2>1, <2>3, <3>6, <3>7 DEF CardInv, RequestsHeld
  <2> QED
    BY <1>12, <2>5, <2>6, <2>7 DEF Succeeds
<1>13. ASSUME NEW g \in Guests, NEW i \in Parrots, Expires(g, i) PROVE CardInv'
  BY <1>3, <1>13, CardSteps DEF Expires
<1> QED
  BY <1>4, <1>5, <1>6, <1>7, <1>8, <1>9, <1>10, <1>11, <1>12, <1>13 DEF OneStep

-----------------------------------------------------------------------------
(* The beach and the menu: what is on screen.                              *)

\* An entry goes on telling the truth when its step forgets no answer that
\* is awaited, and what the service holds changes only with one.
LEMMA ScreenMoves ==
  ASSUME NEW k \in ScreenKeys, NEW e, NEW value, NEW f, EntryOK(e), ScreenOK(k, e),
         Awaited(k) => Awaited(k)', Truth(k)' = Truth(k) \/ Awaited(k)',
         Observed(k)' => Observed(k) \/ f.flight # "idle",
         value = <<Truth(k)>>,
         f \in {e, Begin(e), Settled(e), [e EXCEPT !.flight = "failed"], ReadEntry(e, value)}
  PROVE  ScreenOK(k, f)'
<1>1. /\ e.flight = "read" /\ ~e.crossed => e.answer = value \/ Awaited(k)'
      /\ Observed(k) /\ e.flight = "idle" /\ e.status = "success" /\ ~e.missed =>
           e.data = value \/ Awaited(k)'
  BY DEF ScreenOK
<1>2. value = <<Truth(k)'>> \/ Awaited(k)'
  OBVIOUS
<1>3. SUFFICES ASSUME ~Awaited(k)'
               PROVE  /\ f.flight = "read" /\ ~f.crossed => f.answer = value
                      /\ /\ Observed(k)' /\ f.flight = "idle" /\ f.status = "success"
                         /\ ~f.missed
                         => f.data = value
  BY <1>2 DEF ScreenOK
<1>4. CASE f = e
  BY <1>1, <1>3, <1>4
<1>5. CASE f = Begin(e)
  BY <1>5, EntryOps
<1>6. CASE f = Settled(e) /\ e.flight = "read"
  <2>1. f.data = e.answer /\ f.missed = e.crossed /\ f.flight = "idle"
    BY <1>6, EntryOps
  <2> QED
    BY <1>1, <1>3, <1>6, <2>1
<1>7. CASE f = Settled(e) /\ e.flight # "read"
  <2>1. f.status = "error" /\ f.flight = "idle"
    BY <1>7, EntryOps
  <2> QED
    BY <2>1
<1>8. CASE f = [e EXCEPT !.flight = "failed"]
  <2>1. f.flight = "failed"
    BY <1>8, EntryReads
  <2> QED
    BY <2>1
<1>9. CASE f = ReadEntry(e, value)
  <2>1. value # <<>>
    OBVIOUS
  <2>2. f.flight = "read" /\ f.answer = value
    BY <1>9, <2>1, EntryRead
  <2> QED
    BY <2>2
<1> QED
  BY <1>4, <1>5, <1>6, <1>7, <1>8, <1>9

\* One key of the cache, in a step.
LEMMA ScreenKey ==
  ASSUME PanelsInv, NEW k \in ScreenKeys, Observed(k)' => Observed(k) \/ q'[k].flight # "idle",
         \/ /\ Awaited(k) => Awaited(k)'
            /\ Truth(k)' = Truth(k) \/ Awaited(k)'
            /\ q'[k] \in {q[k], Begin(q[k]), Settled(q[k]), [q[k] EXCEPT !.flight = "failed"],
                          ReadEntry(q[k], <<Truth(k)>>)}
         \/ q'[k] = Overlooked(q[k])
         \/ q'[k] = Invalidated(q[k], Observed(k)) /\ (Observed(k)' <=> Observed(k))
  PROVE  ScreenOK(k, q[k])'
<1>1. PICK e : e = q[k]
  OBVIOUS
<1>2. PICK f : f = q'[k]
  OBVIOUS
<1>3. PICK value : value = <<Truth(k)>>
  OBVIOUS
<1>4. EntryOK(e) /\ ScreenOK(k, e)
  BY <1>1, KeyFacts DEF PanelsInv, Shape, CacheOK, ScreenInv
<1>5. SUFFICES ScreenOK(k, f)'
  BY <1>2 DEF ScreenOK
<1>6. CASE f = Overlooked(e)
  <2>1. f.missed /\ (f.flight = "read" => f.crossed)
    BY <1>4, <1>6, EntryOps
  <2> QED
    BY <2>1 DEF ScreenOK
<1>7. CASE f = Invalidated(e, Observed(k)) /\ (Observed(k)' <=> Observed(k))
  <2>1. PICK o : o = Observed(k)
    OBVIOUS
  <2>2. f = Invalidated(e, o)
    BY <1>7, <2>1
  <2>3. (f.flight = "read" => f.crossed) /\ (o => f.flight # "idle")
    BY <1>4, <2>2, EntryInvalidated
  <2>4. Observed(k)' => f.flight # "idle"
    BY <1>7, <2>1, <2>3
  <2> QED
    BY <2>3, <2>4 DEF ScreenOK
<1>8. CASE /\ Awaited(k) => Awaited(k)'
           /\ Truth(k)' = Truth(k) \/ Awaited(k)'
           /\ f \in {e, Begin(e), Settled(e), [e EXCEPT !.flight = "failed"], ReadEntry(e, value)}
  BY <1>2, <1>3, <1>4, <1>8, ScreenMoves
<1> QED
  BY <1>1, <1>2, <1>3, <1>6, <1>7, <1>8

\* Every step keeps the screens of beach and menu true.
LEMMA ScreenKept ==
  ASSUME PanelsInv, OneStep PROVE ScreenInv'
<1> USE DEF PanelsInv, Shape
<1>1. ScreenKeys \subseteq Keys /\ \A p \in posts : p \in Posted /\ p.op \in AllOps
  BY KeyFacts DEF PostsOK, Posted
<1>2. ASSUME UNCHANGED <<offered, bookings, stock>>
      PROVE  /\ bookings' = [g \in Guests |-> bookings'[g]]
             /\ \A k \in ScreenKeys : Truth(k)' = Truth(k)
  BY <1>2 DEF ScreenInv, Truth, Overview, Booked, Menu
<1>3. ASSUME UNCHANGED page PROVE \A k \in ScreenKeys : Observed(k)' <=> Observed(k)
  BY <1>3, PageKept
<1>4. ASSUME NEW p, NEW r, p.op = r.op, p.guest = r.guest, r.op \in AllOps PROVE Touches(p) = Touches(r)
  BY <1>4 DEF Touches, AllOps
<1>5. CASE Looks
  <2>1. ASSUME NEW k \in ScreenKeys PROVE Awaited(k) => Awaited(k)'
    <3>1. SUFFICES ASSUME NEW r \in posts, r.phase = "ok", k \in Touches(r) PROVE Awaited(k)'
      BY DEF Awaited
    <3>2. PICK p \in posts' : Same(p, r)
      BY <1>5, UnseenPosts DEF Looks
    <3>3. Touches(p) = Touches(r)
      BY <1>1, <1>4, <3>2 DEF Same
    <3> QED
      BY <3>1, <3>2, <3>3 DEF Awaited, Same
  <2>2. ASSUME NEW k \in ScreenKeys PROVE ScreenOK(k, q[k])'
    BY <1>1, <1>2, <1>5, <2>1, ScreenKey DEF Looks, core
  <2> QED
    BY <1>2, <1>5, <2>2 DEF Looks, core, ScreenInv
<1>6. ASSUME NEW key \in Keys, FetchEnds(key) PROVE ScreenInv'
  <2>1. /\ UNCHANGED <<posts, offered, bookings, stock, page>>
        /\ \A k \in Keys : q'[k] \in {q[k], Settled(q[k]), [q[k] EXCEPT !.flight = "failed"]}
    BY <1>6 DEF FetchEnds, core, CacheOK
  <2>2. \A k \in ScreenKeys : Awaited(k) => Awaited(k)'
    BY <2>1 DEF Awaited
  <2>3. ASSUME NEW k \in ScreenKeys PROVE ScreenOK(k, q[k])'
    BY <1>1, <1>2, <1>3, <2>1, <2>2, ScreenKey
  <2> QED
    BY <1>2, <2>1, <2>3 DEF ScreenInv
<1>7. ASSUME NEW key \in Keys, NEW value, Reads(key, value) PROVE ScreenInv'
  <2>1. UNCHANGED <<posts, offered, bookings, stock, page>>
    BY <1>7 DEF Reads, core
  <2>2. \A k \in ScreenKeys : Awaited(k) => Awaited(k)'
    BY <2>1 DEF Awaited
  <2>3. ASSUME NEW k \in ScreenKeys PROVE ScreenOK(k, q[k])'
    <3>1. q'[k] = q[k] \/ q'[k] = ReadEntry(q[k], <<Truth(k)>>)
      <4>1. CASE k # key
        BY <1>1, <1>7, <4>1 DEF Reads, CacheOK
      <4>2. CASE k = key
        <5>1. value = <<Truth(k)>>
          BY <1>7, <4>2 DEF Reads
        <5>2. q'[k] = ReadEntry(q[k], value)
          BY <1>7, <4>2 DEF Reads, CacheOK, ReadEntry
        <5> QED
          BY <5>1, <5>2
      <4> QED
        BY <4>1, <4>2
    <3> QED
      BY <1>2, <1>3, <2>1, <2>2, <3>1, ScreenKey
  <2> QED
    BY <1>2, <2>1, <2>3 DEF ScreenInv
<1>8. ASSUME NEW op \in AllOps, NEW g \in Guests \cup {Admin}, NEW arg \in Args, Sends(op, g, arg)
      PROVE  ScreenInv'
  <2>1. UNCHANGED <<q, offered, bookings, stock, page>> /\ posts \subseteq posts'
    BY <1>8 DEF Sends, core
  <2>2. \A k \in ScreenKeys : Awaited(k) => Awaited(k)'
    BY <2>1 DEF Awaited
  <2>3. ASSUME NEW k \in ScreenKeys PROVE ScreenOK(k, q[k])'
    BY <1>2, <1>3, <2>1, <2>2, ScreenKey
  <2> QED
    BY <1>2, <2>1, <2>3 DEF ScreenInv
<1>9. ASSUME NEW p \in posts, Errs(p) PROVE ScreenInv'
  <2>1. UNCHANGED <<q, offered, bookings, stock, page>> /\ p.phase # "ok" /\ posts \ {p} \subseteq posts'
    BY <1>9 DEF Errs, core, Replied
  <2>2. \A k \in ScreenKeys : Awaited(k) => Awaited(k)'
    BY <2>1 DEF Awaited
  <2>3. ASSUME NEW k \in ScreenKeys PROVE ScreenOK(k, q[k])'
    BY <1>2, <1>3, <2>1, <2>2, ScreenKey
  <2> QED
    BY <1>2, <2>1, <2>3 DEF ScreenInv
<1>10. ASSUME NEW p \in posts, Loses(p) PROVE ScreenInv'
  <2>1. /\ UNCHANGED <<offered, bookings, stock, page>> /\ posts \ {p} \subseteq posts'
        /\ \A k \in Keys : q'[k] = IF k \in Touches(p) THEN Overlooked(q[k]) ELSE q[k]
    BY <1>10 DEF Loses, core, Replied
  <2>2. \A k \in ScreenKeys : k \notin Touches(p) /\ Awaited(k) => Awaited(k)'
    BY <2>1 DEF Awaited
  <2>3. ASSUME NEW k \in ScreenKeys PROVE ScreenOK(k, q[k])'
    BY <1>1, <1>2, <1>3, <2>1, <2>2, ScreenKey
  <2> QED
    BY <1>2, <2>1, <2>3 DEF ScreenInv
<1>11. ASSUME NEW p \in posts, Drops(p) PROVE ScreenInv'
  <2>1. p.arg \in Args /\ Touches(p) = {ActivitiesKey} /\ p.phase = "sent"
    BY <1>1, <1>11, TouchFacts DEF Drops, Posted
  <2>2. PICK phase \in {"ok", "error"} : /\ Replied(p, phase, p.arg)
                                         /\ phase = "error" => Overview' = Overview
    BY <1>11 DEF Drops
  <2>3. PICK s \in Posted : /\ posts' = (posts \ {p}) \cup {s} /\ s.op = p.op /\ s.guest = p.guest
                          /\ s.phase = phase
    BY <1>11, <2>1, <2>2, RepliedPosts DEF Drops
  <2>4. Touches(s) = {ActivitiesKey}
    BY <1>1, <1>4, <2>1, <2>3
  <2>5. \A k \in ScreenKeys : Awaited(k) => Awaited(k)'
    BY <2>1, <2>3 DEF Awaited
  <2>6. ASSUME NEW k \in ScreenKeys PROVE ScreenOK(k, q[k])'
    <3>1. Observed(k)' <=> Observed(k)
      BY <1>3, <1>11 DEF Drops
    <3>2. q'[k] = q[k] \/ q'[k] = Overlooked(q[k])
      BY <1>1, <1>11 DEF Drops
    <3>3. \/ q'[k] = Overlooked(q[k])
          \/ Truth(k)' = Truth(k)
          \/ Awaited(k)'
      <4>1. CASE k = MenuKey
        <5>1. k[1] = "menu"
          BY <4>1 DEF MenuKey
        <5> QED
          BY <1>11, <5>1 DEF Drops, Truth, Menu
      <4>2. CASE k = ActivitiesKey
        <5>1. k[1] = "activities"
          BY <4>2 DEF ActivitiesKey
        <5>2. phase = "ok" => Awaited(k)'
          BY <2>3, <2>4, <4>2 DEF Awaited
        <5>3. phase = "error" => Truth(k)' = Truth(k)
          BY <2>2, <5>1 DEF Truth
        <5> QED
          BY <5>2, <5>3
      <4>3. ASSUME NEW g \in Guests, k = BookedKey(g)
            PROVE  q'[k] = Overlooked(q[k]) \/ Truth(k)' = Truth(k)
        <5>1. k[1] = "booked" /\ k[2] = g
          BY <4>3 DEF BookedKey
        <5>2. CASE bookings'[g] = bookings[g]
          BY <5>1, <5>2 DEF Truth
        <5>3. CASE g \in Booked(p.arg)
          BY <1>1, <1>11, <4>3, <5>3 DEF Drops
        <5> QED
          BY <1>11, <5>2, <5>3 DEF Drops
      <4> QED
        BY <4>1, <4>2, <4>3, KeyFacts
    <3> QED
      BY <2>5, <3>1, <3>2, <3>3, ScreenKey
  <2> QED
    BY <1>11, <2>6 DEF Drops, ScreenInv
<1>12. ASSUME NEW p \in posts, NEW result \in Args, Serves(p, result) PROVE ScreenInv'
  <2>1. PICK s \in Posted : /\ posts' = (posts \ {p}) \cup {s} /\ s.op = p.op /\ s.guest = p.guest
                          /\ s.phase = "ok"
    BY <1>12, RepliedPosts DEF Serves
  <2>2. UNCHANGED <<q, page>> /\ p.phase = "sent"
    BY <1>12 DEF Serves
  <2>3. Touches(s) = Touches(p)
    BY <1>1, <1>4, <2>1
  <2>4. ASSUME NEW k \in ScreenKeys PROVE ScreenOK(k, q[k])'
    <3>1. Awaited(k) => Awaited(k)'
      BY <2>1, <2>2 DEF Awaited
    <3>2. k \in Touches(p) => Awaited(k)'
      BY <2>1, <2>3 DEF Awaited
    <3>3. k \notin Touches(p) => Truth(k)' = Truth(k)
      BY <1>12 DEF Serves
    <3> QED
      BY <1>3, <2>2, <3>1, <3>2, <3>3, ScreenKey
  <2> QED
    BY <1>12, <2>4 DEF Serves, ScreenInv
<1>13. ASSUME NEW p \in posts, Succeeds(p) PROVE ScreenInv'
  <2>1. /\ posts' = posts \ {p} /\ UNCHANGED <<page, offered, bookings, stock>>
        /\ p.op \notin {"add", "remove"} => p.guest \in Guests
    BY <1>13 DEF Succeeds, OnBoarded, OnReserved, OnCancelled, OnBeachChanged, OnOrdered, OnReply,
                 OnSuccess, core, PostsOK
  <2>2. \A k \in ScreenKeys : k \notin Touches(p) /\ Awaited(k) => Awaited(k)'
    BY <2>1 DEF Awaited
  <2>3. ASSUME NEW k \in ScreenKeys
        PROVE  \/ k \notin Touches(p) /\ q'[k] = q[k]
               \/ q'[k] = Invalidated(q[k], Observed(k))
    <3>1. CASE OnBoarded(p)
      <4>1. Touches(p) = {ArrivalKey(p.guest)} /\ k # ArrivalKey(p.guest) /\ ArrivalKey(p.guest) \in Keys
        BY <1>1, <2>1, <3>1, TouchFacts, KeyFacts DEF OnBoarded
      <4> QED
        BY <1>1, <3>1, <4>1 DEF OnBoarded, OnSuccess, CacheOK
    <3>2. CASE OnReserved(p) \/ OnCancelled(p)
      <4>1. /\ Touches(p) = {ReservationKey(p.guest)} /\ k # ReservationKey(p.guest)
            /\ ReservationKey(p.guest) \in Keys
        BY <1>1, <2>1, <3>2, TouchFacts, KeyFacts DEF OnReserved, OnCancelled
      <4> QED
        BY <1>1, <3>2, <4>1 DEF OnReserved, OnCancelled, OnSuccess, CacheOK
    <3>3. CASE OnReply(p)
      <4>1. /\ Touches(p) = {HistoryKey(p.guest)} /\ k # HistoryKey(p.guest)
            /\ HistoryKey(p.guest) \in Keys
        BY <1>1, <2>1, <3>3, TouchFacts, KeyFacts DEF OnReply
      <4> QED
        BY <1>1, <3>3, <4>1 DEF OnReply, OnSuccess, CacheOK
    <3>4. CASE OnOrdered(p)
      <4>1. Touches(p) = {MenuKey} /\ MenuKey \in Keys
        BY <1>1, <3>4, TouchFacts, KeyFacts DEF OnOrdered
      <4> QED
        BY <1>1, <3>4, <4>1 DEF OnOrdered, OnSuccess, CacheOK
    <3>5. CASE OnBeachChanged(p)
      <4>1. p.op \in {"book", "unbook", "add", "remove"} /\ Touches(p) \subseteq {ActivitiesKey, BookedKey(p.guest)}
        BY <1>1, <3>5, TouchFacts DEF OnBeachChanged
      <4> QED
        BY <1>1, <3>5, <4>1 DEF OnBeachChanged, OnSuccess, BeachInvalidated
    <3> QED
      BY <1>13, <3>1, <3>2, <3>3, <3>4, <3>5 DEF Succeeds
  <2>4. ASSUME NEW k \in ScreenKeys PROVE ScreenOK(k, q[k])'
    BY <1>2, <1>3, <2>1, <2>2, <2>3, ScreenKey
  <2> QED
    BY <1>2, <2>1, <2>4 DEF ScreenInv
<1>14. ASSUME NEW g \in Guests, NEW i \in Parrots, Expires(g, i) PROVE ScreenInv'
  <2>1. UNCHANGED <<q, posts, offered, bookings, stock, page>>
    BY <1>14 DEF Expires
  <2>2. \A k \in ScreenKeys : Awaited(k) => Awaited(k)'
    BY <2>1 DEF Awaited
  <2>3. ASSUME NEW k \in ScreenKeys PROVE ScreenOK(k, q[k])'
    BY <1>2, <1>3, <2>1, <2>2, ScreenKey
  <2> QED
    BY <1>2, <2>1, <2>3 DEF ScreenInv
<1> QED
  BY <1>5, <1>6, <1>7, <1>8, <1>9, <1>10, <1>11, <1>12, <1>13, <1>14 DEF OneStep

-----------------------------------------------------------------------------
(* The parrot: the question that failed.                                   *)

\* The turn a panel offers to retry is one the guest wrote.
LEMMA FailedKept ==
  ASSUME PanelsInv, PanelsNext PROVE FailedOK'
<1>1. \A p \in posts : p.arg \in Args
  BY DEF PanelsInv, Shape, PostsOK, Posted
<1>2. ASSUME failedTurn' = <<>> \/ UNCHANGED failedTurn PROVE FailedOK'
  BY <1>2 DEF PanelsInv, FailedOK
<1>3. CASE ParrotStep
  <2>1. CASE SendMessage \/ RetryFailedMessage
    BY <1>2, <2>1 DEF SendMessage, RetryFailedMessage
  <2>2. ASSUME NEW p \in posts, OnReply(p) PROVE FailedOK'
    <3>1. failedTurn' = <<>> \/ UNCHANGED failedTurn
      BY <2>2 DEF OnReply
    <3> QED
      BY <1>2, <3>1
  <2>3. ASSUME NEW p \in posts, OnChatError(p) PROVE FailedOK'
    <3>1. failedTurn' = <<p.arg>> \/ UNCHANGED failedTurn
      BY <2>3 DEF OnChatError
    <3> QED
      BY <1>1, <1>2, <3>1 DEF FailedOK
  <2>4. ASSUME NEW p \in posts, NEW i \in Parrots, PostChat(p, i) PROVE FailedOK'
    BY <1>2, <2>4 DEF PostChat
  <2>5. ASSUME NEW g \in Guests, NEW i \in Parrots, GetHistory(g, i) \/ Expire(g, i)
        PROVE  FailedOK'
    BY <1>2, <2>5 DEF GetHistory, Expire
  <2> QED
    BY <1>3, <2>1, <2>2, <2>3, <2>4, <2>5 DEF ParrotStep, Pick
<1> QED
  BY <1>2, <1>3 DEF PanelsNext, PageStep, NetworkStep

-----------------------------------------------------------------------------
(* The parrot: the turns its instances keep.                               *)

\* A conversation with one more turn is the old one and the turn, less its
\* beginning.
Shifted(c, t, d, k) ==
  \A a \in DOMAIN d : /\ a + k \in 1..(Len(c) + 1)
                      /\ a + k \in DOMAIN c => d[a] = c[a + k]
                      /\ a + k \notin DOMAIN c => d[a] = t /\ a + k = Len(c) + 1

\* Storing a turn appends it and drops at most the oldest one (history.py).
LEMMA TrimShifts ==
  ASSUME NEW T, NEW c \in Seq(T), NEW t \in T
  PROVE  \E d \in Seq(T) : d = Trim(Append(c, t)) /\ (Shifted(c, t, d, 0) \/ Shifted(c, t, d, 1))
<1> DEFINE e == Append(c, t)
<1>1. /\ e \in Seq(T) /\ Len(e) = Len(c) + 1 /\ Len(c) \in Nat
      /\ DOMAIN c = 1..Len(c) /\ DOMAIN e = 1..Len(e)
      /\ \A a \in 1..Len(c) : e[a] = c[a]
      /\ e[Len(c) + 1] = t
  BY AppendProperties, LenProperties
<1> HIDE DEF e
<1>2. CASE Len(e) > MaxTurns
  <2>1. PICK d : d = Tail(e)
    OBVIOUS
  <2>2. e # <<>>
    BY <1>1, EmptySeq
  <2>3. d \in Seq(T) /\ Len(d) = Len(e) - 1 /\ \A a \in 1..Len(d) : d[a] = e[a + 1]
    BY <1>1, <2>1, <2>2, HeadTailProperties
  <2>4. DOMAIN d = 1..Len(d)
    BY <2>3, LenProperties
  <2>5. Shifted(c, t, d, 1)
    BY <1>1, <2>3, <2>4 DEF Shifted
  <2>6. Trim(Append(c, t)) = d
    BY <1>2, <2>1 DEF Trim, e
  <2> QED
    BY <2>3, <2>5, <2>6
<1>3. CASE ~ (Len(e) > MaxTurns)
  <2>1. Shifted(c, t, e, 0)
    BY <1>1 DEF Shifted
  <2>2. Trim(Append(c, t)) = e
    BY <1>3 DEF Trim, e
  <2> QED
    BY <1>1, <2>1, <2>2
<1> QED
  BY <1>2, <1>3

\* What that keeps of the old one.
LEMMA TurnAdded ==
  ASSUME NEW c \in Seq(Turn), KeptOK(c), sent \in Nat, NEW t \in Turn, t[1] <= sent,
         Mask(t[2]) = t[2], \A a \in DOMAIN c : c[a][1] # t[1]
  PROVE  LET d == Trim(Append(c, t)) IN
           /\ d \in Seq(Turn)
           /\ KeptOK(d)
           /\ \A a \in DOMAIN d : d[a] = t \/ \E b \in DOMAIN c : d[a] = c[b]
           /\ \A m, n \in Nat : m # t[1] /\ n # t[1] /\ Before(d, m, n) => Before(c, m, n)
<1>1. PICK d \in Seq(Turn) :
        d = Trim(Append(c, t)) /\ (Shifted(c, t, d, 0) \/ Shifted(c, t, d, 1))
  BY TrimShifts
<1>2. PICK k \in {0, 1} : Shifted(c, t, d, k)
  BY <1>1
<1>3. \A a \in DOMAIN d : /\ a + k \in 1..(Len(c) + 1)
                          /\ a + k \in DOMAIN c => d[a] = c[a + k]
                          /\ a + k \notin DOMAIN c => d[a] = t /\ a + k = Len(c) + 1
  BY <1>2 DEF Shifted
<1>4. DOMAIN d \subseteq Nat /\ DOMAIN c \subseteq Nat /\ Len(c) \in Nat
  BY LenProperties
<1>5. \A a \in DOMAIN d : d[a] = t \/ \E b \in DOMAIN c : d[a] = c[b]
  BY <1>3
<1>6. \A a \in DOMAIN d : d[a][1] <= sent /\ Mask(d[a][2]) = d[a][2]
  BY <1>5 DEF KeptOK
<1>7. ASSUME NEW a \in DOMAIN d, NEW b \in DOMAIN d, d[a][1] = d[b][1] PROVE a = b
  <2>1. CASE a + k \in DOMAIN c /\ b + k \in DOMAIN c
    <3>1. a + k = b + k
      BY <1>3, <1>7, <2>1 DEF KeptOK
    <3> QED
      BY <1>4, <3>1
  <2>2. CASE a + k \notin DOMAIN c /\ b + k \notin DOMAIN c
    BY <1>3, <1>4, <2>2
  <2>3. CASE (a + k \in DOMAIN c) # (b + k \in DOMAIN c)
    BY <1>3, <1>7, <2>3
  <2> QED
    BY <2>1, <2>2, <2>3
<1>8. ASSUME NEW m \in Nat, NEW n \in Nat, m # t[1], n # t[1], Before(d, m, n)
      PROVE  Before(c, m, n)
  <2>1. PICK a \in DOMAIN d, b \in DOMAIN d : a < b /\ d[a][1] = m /\ d[b][1] = n
    BY <1>8 DEF Before
  <2>2. a + k \in DOMAIN c /\ b + k \in DOMAIN c
    BY <1>3, <1>8, <2>1
  <2>3. a + k < b + k /\ c[a + k][1] = m /\ c[b + k][1] = n
    BY <1>3, <1>4, <2>1, <2>2
  <2> QED
    BY <2>2, <2>3 DEF Before
<1> QED
  BY <1>1, <1>2, <1>5, <1>6, <1>7, <1>8 DEF KeptOK

\* A request that comes from one that was under way, or is new.
Stems(p) ==
  \/ p.n = sent + 1
  \/ \E r \in posts : /\ p.n = r.n /\ p.op = r.op /\ p.guest = r.guest /\ p.arg = r.arg
                      /\ p.phase = "sent" => r.phase = "sent"

\* Steps that leave the conversations alone.
LEMMA TurnsStay ==
  ASSUME PanelsInv, UNCHANGED conversation, sent' \in {sent, sent + 1},
         \A p \in posts' : p.op = "chat" => p.guest \in Guests /\ Stems(p)
  PROVE  TurnsInv'
<1>1. sent \in Nat /\ conversation \in [Parrots -> [Guests -> Seq(Turn)]]
  BY DEF PanelsInv, Shape, PostsOK, TurnsInv
<1>2. ASSUME NEW i \in Parrots, NEW g \in Guests
      PROVE  /\ KeptOK(conversation[i][g])'
             /\ \A a \in DOMAIN conversation[i][g] :
                  conversation[i][g][a][1] \in Nat /\ conversation[i][g][a][1] <= sent
  <2>1. PICK c \in Seq(Turn) : c = conversation[i][g] /\ c = conversation'[i][g]
    BY <1>1
  <2>2. KeptOK(c)
    BY <2>1 DEF PanelsInv, TurnsInv
  <2>3. \A a \in DOMAIN c : c[a][1] \in Nat /\ c[a][1] <= sent /\ c[a][1] <= sent'
    <3>1. \A a \in DOMAIN c : c[a] \in Turn
      BY ElementOfSeq, LenProperties
    <3>2. \A a \in DOMAIN c : c[a][1] \in Nat /\ c[a][1] <= sent
      BY <2>2, <3>1 DEF Turn, KeptOK
    <3> QED
      BY <1>1, <3>2
  <2>4. KeptOK(c)'
    BY <2>2, <2>3 DEF KeptOK
  <2> QED
    BY <2>1, <2>3, <2>4 DEF KeptOK
<1>3. ASSUME NEW p \in posts', p.op = "chat", NEW i \in Parrots,
             NEW a \in DOMAIN conversation[i][p.guest], conversation[i][p.guest][a][1] = p.n
      PROVE  p.phase # "sent" /\ conversation[i][p.guest][a][2] = Mask(p.arg)
  <2>1. p.n # sent + 1
    BY <1>1, <1>2, <1>3
  <2>2. PICK r \in posts : /\ p.n = r.n /\ p.op = r.op /\ p.guest = r.guest /\ p.arg = r.arg
                           /\ p.phase = "sent" => r.phase = "sent"
    BY <1>3, <2>1 DEF Stems
  <2> QED
    BY <1>3, <2>2 DEF PanelsInv, TurnsInv
<1> QED
  BY <1>1, <1>2, <1>3 DEF TurnsInv

\* Every step keeps the turns of each instance in the order they were asked.
LEMMA TurnsKept ==
  ASSUME PanelsInv, OneStep PROVE TurnsInv'
<1> USE DEF PanelsInv, Shape
<1>1. \A p \in posts : /\ p \in Posted /\ p.result \in Args /\ p.arg \in Args
                       /\ p.op = "chat" => p.guest \in Guests
  BY DEF PostsOK, Posted
<1>2. \A p \in posts : p.op = "chat" => p.guest \in Guests /\ Stems(p)
  BY <1>1 DEF Stems
<1>3. ASSUME NEW p \in posts, NEW phase \in {"ok", "error"}, NEW result \in Args, sent' = sent,
             Replied(p, phase, result)
      PROVE  \A r \in posts' : r.op = "chat" => r.guest \in Guests /\ Stems(r)
  <2>1. PICK s \in Posted : /\ posts' = (posts \ {p}) \cup {s} /\ s.n = p.n /\ s.op = p.op
                            /\ s.guest = p.guest /\ s.arg = p.arg /\ s.phase = phase
    BY <1>3, RepliedPosts
  <2>2. s.op = "chat" => s.guest \in Guests /\ Stems(s)
    BY <1>1, <2>1 DEF Stems
  <2> QED
    BY <1>2, <2>1, <2>2
<1>4. CASE Looks
  <2>1. \A p \in posts' : \E r \in posts : Same(p, r)
    BY <1>4, UnseenPosts DEF Looks
  <2>2. \A p \in posts' : p.op = "chat" => p.guest \in Guests /\ Stems(p)
    BY <1>1, <2>1 DEF Same, Stems
  <2> QED
    BY <1>4, <2>2, TurnsStay DEF Looks, core
<1>5. ASSUME NEW k \in Keys, FetchEnds(k) \/ \E value : Reads(k, value) PROVE TurnsInv'
  <2>1. UNCHANGED <<posts, sent, conversation>>
    BY <1>5 DEF FetchEnds, Reads, core
  <2> QED
    BY <1>2, <2>1, TurnsStay
<1>6. ASSUME NEW op \in AllOps, NEW g \in Guests \cup {Admin}, NEW arg \in Args, Sends(op, g, arg)
      PROVE  TurnsInv'
  <2> DEFINE s == [n |-> sent + 1, op |-> op, guest |-> g, arg |-> arg,
                   phase |-> "sent", result |-> arg, shown |-> TRUE]
  <2>1. /\ posts' = posts \cup {s} /\ sent' = sent + 1 /\ UNCHANGED conversation
        /\ s.n = sent + 1 /\ s.op = op /\ s.guest = g /\ (op = "chat" => g \in Guests)
    BY <1>6 DEF Sends, core
  <2> HIDE DEF s
  <2>2. \A p \in posts' : p.op = "chat" => p.guest \in Guests /\ Stems(p)
    BY <1>2, <2>1 DEF Stems
  <2> QED
    BY <2>1, <2>2, TurnsStay
<1>7. ASSUME NEW p \in posts, Errs(p) PROVE TurnsInv'
  <2>1. UNCHANGED <<sent, conversation>>
    BY <1>7 DEF Errs, core
  <2>2. \A r \in posts' : r.op = "chat" => r.guest \in Guests /\ Stems(r)
    BY <1>2, <1>3, <1>7, <2>1 DEF Errs
  <2> QED
    BY <2>1, <2>2, TurnsStay
<1>8. ASSUME NEW p \in posts, Loses(p) \/ Drops(p) PROVE TurnsInv'
  <2>1. UNCHANGED <<sent, conversation>>
    BY <1>8 DEF Loses, Drops, core
  <2>2. \E phase \in {"ok", "error"} : \E result \in Args : Replied(p, phase, result)
    BY <1>1, <1>8 DEF Loses, Drops
  <2>3. \A r \in posts' : r.op = "chat" => r.guest \in Guests /\ Stems(r)
    BY <1>3, <2>1, <2>2
  <2> QED
    BY <2>1, <2>3, TurnsStay
<1>9. ASSUME NEW p \in posts, Succeeds(p) PROVE TurnsInv'
  <2>1. posts' = posts \ {p} /\ UNCHANGED <<sent, conversation>>
    BY <1>9 DEF Succeeds, OnBoarded, OnReserved, OnCancelled, OnBeachChanged, OnOrdered, OnReply,
                OnSuccess, core, counters
  <2> QED
    BY <1>2, <2>1, TurnsStay
<1>10. ASSUME NEW g \in Guests, NEW i \in Parrots, Expires(g, i) PROVE TurnsInv'
  <2>1. /\ UNCHANGED <<posts, sent>> /\ <<>> \in Seq(Turn)
        /\ conversation' = [conversation EXCEPT ![i][g] = <<>>]
    BY <1>10 DEF Expires
  <2>2. conversation' \in [Parrots -> [Guests -> Seq(Turn)]]
    BY <2>1 DEF TurnsInv
  <2>3. \A j \in Parrots : \A h \in Guests :
          conversation'[j][h] = <<>> \/ conversation'[j][h] = conversation[j][h]
    BY <2>1 DEF TurnsInv
  <2>4. ASSUME NEW j \in Parrots, NEW h \in Guests PROVE KeptOK(conversation[j][h])'
    <3>1. CASE conversation'[j][h] = <<>>
      BY <3>1 DEF KeptOK
    <3>2. CASE conversation'[j][h] = conversation[j][h]
      BY <2>1, <3>2 DEF KeptOK, TurnsInv
    <3> QED
      BY <2>3, <3>1, <3>2
  <2>5. ASSUME NEW p \in posts', p.op = "chat", NEW j \in Parrots,
               NEW a \in DOMAIN conversation'[j][p.guest], conversation'[j][p.guest][a][1] = p.n
        PROVE  p.phase # "sent" /\ conversation'[j][p.guest][a][2] = Mask(p.arg)
    <3>1. p \in posts /\ p.guest \in Guests
      BY <1>1, <2>1, <2>5
    <3>2. conversation'[j][p.guest] = conversation[j][p.guest]
      BY <2>3, <2>5, <3>1
    <3> QED
      BY <2>5, <3>1, <3>2 DEF TurnsInv
  <2> QED
    BY <2>2, <2>4, <2>5 DEF TurnsInv
<1>11. ASSUME NEW p \in posts, NEW result \in Args, Serves(p, result) PROVE TurnsInv'
  <2>1. sent' = sent /\ p.phase = "sent" /\ Replied(p, "ok", result)
    BY <1>11 DEF Serves
  <2>2. CASE UNCHANGED conversation
    BY <1>3, <2>1, <2>2, TurnsStay
  <2>3. ASSUME p.op = "chat", NEW i \in Parrots,
               conversation' = [conversation EXCEPT ![i][p.guest] =
                                  Trim(Append(@, <<p.n, Mask(p.arg)>>))]
        PROVE  TurnsInv'
    <3>1. PICK h \in Guests : h = p.guest
      BY <1>1, <2>3
    <3>2. PICK c \in Seq(Turn) : c = conversation[i][h]
      BY DEF TurnsInv
    <3>3. PICK t : t = <<p.n, Mask(p.arg)>>
      OBVIOUS
    <3>4. t \in Turn /\ t[1] = p.n /\ t[2] = Mask(p.arg) /\ p.n <= sent /\ sent \in Nat
      BY <1>1, <3>3 DEF Turn, Posted, Mask, PostsOK
    <3>5. Mask(t[2]) = t[2]
      BY <3>4 DEF Mask
    <3>6. \A a \in DOMAIN c : c[a][1] # p.n
      BY <2>1, <2>3, <3>1, <3>2 DEF TurnsInv
    <3>7. KeptOK(c)
      BY <3>2 DEF TurnsInv
    <3>8. PICK d \in Seq(Turn) :
            /\ d = Trim(Append(c, t))
            /\ KeptOK(d)
            /\ \A a \in DOMAIN d : d[a] = t \/ \E b \in DOMAIN c : d[a] = c[b]
      BY <3>4, <3>5, <3>6, <3>7, TurnAdded
    <3>9. /\ conversation' \in [Parrots -> [Guests -> Seq(Turn)]]
          /\ conversation'[i][h] = d
          /\ \A j \in Parrots : \A g \in Guests :
               j # i \/ g # h => conversation'[j][g] = conversation[j][g]
      BY <2>3, <3>1, <3>2, <3>3, <3>8 DEF TurnsInv
    <3>10. ASSUME NEW j \in Parrots, NEW g \in Guests PROVE KeptOK(conversation[j][g])'
      <4>1. PICK b \in Seq(Turn) : b = conversation'[j][g] /\ KeptOK(b)
        <5>1. CASE j = i /\ g = h
          BY <3>8, <3>9, <5>1
        <5>2. CASE j # i \/ g # h
          <6>1. conversation'[j][g] = conversation[j][g] /\ conversation[j][g] \in Seq(Turn)
                  /\ KeptOK(conversation[j][g])
            BY <3>9, <5>2 DEF TurnsInv
          <6> QED
            BY <6>1
        <5> QED
          BY <5>1, <5>2
      <4>2. KeptOK(b)'
        BY <2>1, <4>1 DEF KeptOK
      <4> QED
        BY <4>1, <4>2 DEF KeptOK
    <3>11. PICK s \in Posted : /\ posts' = (posts \ {p}) \cup {s} /\ s.n = p.n /\ s.op = p.op
                               /\ s.guest = p.guest /\ s.arg = p.arg /\ s.phase = "ok"
      BY <2>1, RepliedPosts
    <3>12. ASSUME NEW r \in posts', r.op = "chat", NEW j \in Parrots,
                  NEW a \in DOMAIN conversation'[j][r.guest], conversation'[j][r.guest][a][1] = r.n
           PROVE  r.phase # "sent" /\ conversation'[j][r.guest][a][2] = Mask(r.arg)
      <4>1. PICK o \in posts : /\ r.n = o.n /\ r.op = o.op /\ r.guest = o.guest /\ r.arg = o.arg
                               /\ r.phase = "sent" => o.phase = "sent" /\ o # p
        BY <3>11
      <4>2. r.guest \in Guests
        BY <1>1, <3>12, <4>1
      <4>3. CASE j # i \/ r.guest # h
        <5>1. conversation'[j][r.guest] = conversation[j][r.guest]
          BY <3>9, <4>2, <4>3
        <5> QED
          BY <3>12, <4>1, <5>1 DEF TurnsInv
      <4>4. CASE j = i /\ r.guest = h
        <5>1. a \in DOMAIN d /\ d[a][1] = r.n /\ conversation'[j][r.guest][a] = d[a]
          BY <3>9, <3>12, <4>4
        <5>2. CASE d[a] = t
          <6>1. o = p
            BY <3>4, <4>1, <5>1, <5>2 DEF PostsOK
          <6> QED
            BY <3>4, <4>1, <5>1, <5>2, <6>1
        <5>3. ASSUME NEW b \in DOMAIN c, d[a] = c[b] PROVE r.phase # "sent" /\ d[a][2] = Mask(r.arg)
          <6>1. o.op = "chat" /\ b \in DOMAIN conversation[i][o.guest]
                  /\ conversation[i][o.guest][b] = d[a] /\ d[a][1] = o.n
            BY <3>2, <3>12, <4>1, <4>4, <5>1, <5>3
          <6>2. o.phase # "sent" /\ d[a][2] = Mask(o.arg)
            BY <6>1 DEF TurnsInv
          <6> QED
            BY <4>1, <6>2
        <5> QED
          BY <3>8, <5>1, <5>2, <5>3
      <4> QED
        BY <4>3, <4>4
    <3> QED
      BY <3>9, <3>10, <3>12 DEF TurnsInv
  <2> QED
    BY <1>11, <2>2, <2>3 DEF Serves
<1> QED
  BY <1>4, <1>5, <1>6, <1>7, <1>8, <1>9, <1>10, <1>11 DEF OneStep

-----------------------------------------------------------------------------
(* The parrot: the threads.                                                *)

\* A thread stays true when it comes to owe fewer turns, in no other order.
LEMMA ThreadStays ==
  ASSUME NEW g \in Guests, NEW thread, TrueTo(g, thread),
         \A i \in Parrots : \A t \in Due(g, i, thread)' : t \in Due(g, i, thread),
         \A i \in Parrots : \A t, u \in Due(g, i, thread)' :
           Before(conversation'[i][g], t[1], u[1]) => Before(conversation[i][g], t[1], u[1])
  PROVE  TrueTo(g, thread)'
  BY DEF TrueTo

\* In a step that leaves the conversations and the waiting turns alone.
LEMMA ThreadSame ==
  ASSUME NEW g \in Guests, NEW thread, TrueTo(g, thread),
         Waiting(g)' = Waiting(g), \A i \in Parrots : conversation'[i][g] = conversation[i][g]
  PROVE  TrueTo(g, thread)'
<1>1. \A i \in Parrots : Due(g, i, thread)' = Due(g, i, thread)
  BY DEF Due
<1> QED
  BY <1>1, ThreadStays

\* A reply that crosses nothing makes its turn the last one.
LEMMA ThreadGrows ==
  ASSUME NEW g \in Guests, NEW thread \in Threads, TrueTo(g, thread), UNCHANGED conversation,
         NEW n \in Nat, NEW text, <<n, text>> \in Turn, Waiting(g)' = Waiting(g) \ {n},
         \A i \in Parrots : /\ conversation[i][g] \in Seq(Turn)
                            /\ KeptOK(conversation[i][g])
                            /\ \A t \in ToSet(conversation[i][g]) : t[1] = n => t[2] = Mask(text),
         ~\E u \in ToSet(thread.turns) :
            u[1] = n \/ \E i \in Parrots : Before(conversation[i][g], n, u[1])
  PROVE  LET longer == [thread EXCEPT !.turns = Append(@, <<n, text>>)]
         IN  longer \in Threads /\ TrueTo(g, longer)'
<1>1. PICK s \in Seq(Turn) : s = thread.turns
  BY DEF Threads
<1>2. PICK t \in Turn : t = <<n, text>> /\ t[1] = n /\ t[2] = text
  OBVIOUS
<1>3. PICK r : r = Append(s, t)
  OBVIOUS
<1>4. /\ r \in Seq(Turn) /\ DOMAIN r = 1..(Len(s) + 1)
      /\ \A a \in 1..Len(s) : r[a] = s[a]
      /\ r[Len(s) + 1] = t /\ Len(s) \in Nat /\ DOMAIN s = 1..Len(s)
  <2>1. r \in Seq(Turn) /\ Len(r) = Len(s) + 1
    BY <1>3, AppendProperties
  <2>2. DOMAIN r = 1..Len(r) /\ Len(s) \in Nat /\ DOMAIN s = 1..Len(s)
    BY <2>1, LenProperties
  <2>3. (\A a \in 1..Len(s) : r[a] = s[a]) /\ r[Len(s) + 1] = t
    BY <1>3, AppendProperties
  <2> QED
    BY <2>1, <2>2, <2>3
<1>5. PICK longer : longer = [thread EXCEPT !.turns = Append(@, <<n, text>>)]
  OBVIOUS
<1>6. /\ longer \in Threads /\ longer.turns = r
      /\ longer.from = thread.from /\ longer.since = thread.since
  <2>1. longer = [thread EXCEPT !.turns = r]
    BY <1>1, <1>2, <1>3, <1>5
  <2> QED
    BY <1>4, <2>1 DEF Threads
<1>7. \A a \in DOMAIN s : a \in DOMAIN r /\ r[a] = s[a] /\ a < Len(s) + 1 /\ s[a][1] # n
  <2>1. \A a \in DOMAIN s : s[a] \in ToSet(s)
    BY DEF ToSet
  <2> QED
    BY <1>1, <1>4, <2>1
<1>8. \A u \in ToSet(s) : u \in ToSet(r) /\ \E a \in DOMAIN s : u = s[a]
  BY <1>7 DEF ToSet
<1>9. t \in ToSet(r) /\ Len(s) + 1 \in DOMAIN r
  BY <1>4 DEF ToSet
<1>10. ASSUME NEW a \in DOMAIN r, NEW b \in DOMAIN r, r[a][1] = r[b][1] PROVE a = b
  <2>1. a \in DOMAIN s \/ a = Len(s) + 1
    BY <1>4
  <2>2. b \in DOMAIN s \/ b = Len(s) + 1
    BY <1>4
  <2>3. CASE a \in DOMAIN s /\ b \in DOMAIN s
    BY <1>1, <1>7, <1>10, <2>3 DEF TrueTo
  <2> QED
    BY <1>2, <1>4, <1>7, <1>10, <2>1, <2>2, <2>3
<1>11. ASSUME NEW i \in Parrots
      PROVE  \A x \in Due(g, i, longer)' : /\ x \in ToSet(conversation[i][g])
                                           /\ x[1] # n => x \in Due(g, i, thread)
  BY <1>6 DEF Due
<1>12. ASSUME NEW i \in Parrots, NEW x \in Due(g, i, longer)'
       PROVE  \E u \in ToSet(r) : u[1] = x[1] /\ Mask(u[2]) = x[2]
  <2>1. CASE x[1] = n
    BY <1>2, <1>9, <1>11, <2>1
  <2>2. CASE x[1] # n
    <3>1. \E u \in ToSet(s) : u[1] = x[1] /\ Mask(u[2]) = x[2]
      BY <1>1, <1>11, <2>2 DEF TrueTo
    <3> QED
      BY <1>8, <3>1
  <2> QED
    BY <2>1, <2>2
<1>13. ASSUME NEW i \in Parrots, NEW x \in Due(g, i, longer)', NEW y \in Due(g, i, longer)',
              Before(conversation[i][g], x[1], y[1])
       PROVE  Before(r, x[1], y[1])
  <2>1. \A z \in Due(g, i, longer)' : z[1] # n => \E a \in DOMAIN s : s[a][1] = z[1] /\ s[a] \in ToSet(s)
    <3>1. \A z \in Due(g, i, thread) : \E u \in ToSet(s) : u[1] = z[1]
      BY <1>1 DEF TrueTo
    <3> QED
      BY <1>8, <1>11, <3>1
  <2>2. CASE x[1] # n /\ y[1] # n
    <3>1. Before(s, x[1], y[1])
      BY <1>1, <1>11, <1>13, <2>2 DEF TrueTo
    <3> QED
      BY <1>7, <3>1 DEF Before
  <2>3. CASE x[1] # n /\ y[1] = n
    <3>1. PICK a \in DOMAIN s : s[a][1] = x[1]
      BY <2>1, <2>3
    <3>2. a \in DOMAIN r /\ r[a][1] = x[1] /\ a < Len(s) + 1
      BY <1>7, <3>1
    <3>3. Len(s) + 1 \in DOMAIN r /\ r[Len(s) + 1][1] = y[1]
      BY <1>2, <1>4, <1>9, <2>3
    <3> QED
      BY <3>2, <3>3 DEF Before
  <2>4. CASE x[1] = n /\ y[1] # n
    BY <1>1, <1>13, <2>1, <2>4
  <2>5. CASE x[1] = n /\ y[1] = n
    <3>1. DOMAIN conversation[i][g] \subseteq Nat
      BY LenProperties
    <3>2. PICK a, b \in DOMAIN conversation[i][g] :
            a < b /\ conversation[i][g][a][1] = n /\ conversation[i][g][b][1] = n
      BY <1>13, <2>5 DEF Before
    <3>3. a = b
      BY <3>2 DEF KeptOK
    <3> QED
      BY <3>1, <3>2, <3>3
  <2> QED
    BY <2>2, <2>3, <2>4, <2>5
<1>14. TrueTo(g, longer)'
  <2>1. \A i \in Parrots : conversation'[i][g] = conversation[i][g]
    OBVIOUS
  <2>2. \A i \in Parrots : \A x \in Due(g, i, longer)' :
          \E u \in ToSet(longer.turns) : u[1] = x[1] /\ Mask(u[2]) = x[2]
    BY <1>6, <1>12
  <2>3. \A i \in Parrots : \A x, y \in Due(g, i, longer)' :
          Before(conversation'[i][g], x[1], y[1]) => Before(longer.turns, x[1], y[1])
    BY <1>6, <1>13, <2>1
  <2>4. \A a, b \in DOMAIN longer.turns : longer.turns[a][1] = longer.turns[b][1] => a = b
    BY <1>6, <1>10
  <2> QED
    BY <2>2, <2>3, <2>4 DEF TrueTo
<1> QED
  BY <1>6, <1>14, <1>5

\* A thread that is not told anything stays true as long as threads do.
LEMMA HistoryMoves ==
  ASSUME NEW g \in Guests, NEW e, NEW f, EntryOK(e), HistoryOK(g, e),
         \A t \in Threads : TrueTo(g, t) => TrueTo(g, t)',
         Chats(g)' # {} => Chats(g) # {} \/ e.data # <<>>,
         f \in {e, Begin(e), Settled(e), [e EXCEPT !.flight = "failed"]}
  PROVE  HistoryOK(g, f)'
<1>1. /\ e.status = "success" => e.data # <<>>
      /\ Chats(g)' # {} => e.data # <<>>
      /\ e.data # <<>> => \E t \in Threads : e.data = <<t>> /\ (TrueTo(g, t)' \/ e.missed)
      /\ e.flight = "read" =>
           \E t \in Threads : e.answer = <<t>> /\ (TrueTo(g, t)' \/ e.crossed)
  BY DEF HistoryOK
<1>2. CASE f = e
  BY <1>1, <1>2 DEF HistoryOK
<1>3. CASE f = Begin(e)
  <2>1. /\ f.data = e.data /\ f.missed = e.missed /\ f.flight # "read"
        /\ f.status = "success" => e.status = "success"
    BY <1>3, EntryOps
  <2> QED
    BY <1>1, <2>1 DEF HistoryOK
<1>4. CASE f = Settled(e) /\ e.flight = "read"
  <2>1. f.data = e.answer /\ f.missed = e.crossed /\ f.flight # "read"
    BY <1>4, EntryOps
  <2>2. PICK t \in Threads : e.answer = <<t>> /\ (TrueTo(g, t)' \/ e.crossed)
    BY <1>1, <1>4
  <2>3. <<t>> # <<>>
    OBVIOUS
  <2> QED
    BY <2>1, <2>2, <2>3 DEF HistoryOK
<1>5. CASE f = Settled(e) /\ e.flight # "read"
  <2>1. f.data = e.data /\ f.missed = e.missed /\ f.flight # "read" /\ f.status = "error"
    BY <1>5, EntryOps
  <2> QED
    BY <1>1, <2>1 DEF HistoryOK
<1>6. CASE f = [e EXCEPT !.flight = "failed"]
  <2>1. f.data = e.data /\ f.missed = e.missed /\ f.flight # "read" /\ f.status = e.status
    BY <1>6, EntryReads
  <2> QED
    BY <1>1, <2>1 DEF HistoryOK
<1> QED
  BY <1>2, <1>3, <1>4, <1>5, <1>6

\* One guest's history, in a step that leaves its conversation alone.
LEMMA HistoryKept ==
  ASSUME PanelsInv, NEW g \in Guests, \A i \in Parrots : conversation'[i][g] = conversation[i][g],
         Waiting(g)' = Waiting(g),
         Chats(g)' # {} => Chats(g) # {} \/ q[HistoryKey(g)].data # <<>>,
         LET e == q[HistoryKey(g)] IN
           q'[HistoryKey(g)] \in {e, Begin(e), Settled(e), [e EXCEPT !.flight = "failed"]}
  PROVE  HistoryOK(g, q[HistoryKey(g)])'
<1>1. PICK e : e = q[HistoryKey(g)]
  OBVIOUS
<1>2. PICK f : f = q'[HistoryKey(g)]
  OBVIOUS
<1>3. EntryOK(e) /\ HistoryOK(g, e)
  BY <1>1, KeyFacts DEF PanelsInv, Shape, CacheOK, ChatInv
<1>4. \A t \in Threads : TrueTo(g, t) => TrueTo(g, t)'
  BY ThreadSame
<1>5. f \in {e, Begin(e), Settled(e), [e EXCEPT !.flight = "failed"]}
  BY <1>1, <1>2
<1>6. Chats(g)' # {} => Chats(g) # {} \/ e.data # <<>>
  BY <1>1
<1>7. HistoryOK(g, f)'
  BY <1>3, <1>4, <1>5, <1>6, HistoryMoves, Zenon
<1>8. HistoryOK(g, q[HistoryKey(g)])'
  BY <1>2, <1>7 DEF HistoryOK
<1> QED
  BY <1>3, <1>8

\* Requests whose chats are what they were.
LEMMA ChatsKept ==
  ASSUME NEW g \in Guests,
         \A p \in posts' : p.op = "chat" /\ p.guest = g => \E r \in posts : Same(p, r),
         \A r \in posts : r.op = "chat" /\ r.guest = g => \E p \in posts' : Same(p, r)
  PROVE  Waiting(g)' = Waiting(g) /\ (Chats(g)' # {} => Chats(g) # {})
<1>1. Chats(g)' # {} => Chats(g) # {}
  BY DEF Chats, Same
<1>2. \A n \in Waiting(g)' : n \in Waiting(g)
  BY DEF Waiting, Same
<1>3. \A n \in Waiting(g) : n \in Waiting(g)'
  BY DEF Waiting, Same
<1> QED
  BY <1>1, <1>2, <1>3

\* Every step keeps what the history query knows of the conversations.
LEMMA ChatKept ==
  ASSUME PanelsInv, OneStep PROVE ChatInv'
<1> USE DEF PanelsInv, Shape
<1>1. /\ \A g \in Guests : /\ HistoryKey(g) \in Keys /\ EntryOK(q[HistoryKey(g)])
                           /\ HistoryOK(g, q[HistoryKey(g)])
      /\ conversation \in [Parrots -> [Guests -> Seq(Turn)]]
      /\ \A i \in Parrots : \A g \in Guests : KeptOK(conversation[i][g])
  BY KeyFacts DEF CacheOK, ChatInv, TurnsInv
<1>2. \A p \in posts : p \in Posted /\ p.op \in AllOps /\ p.n \in Nat /\ p.result \in Args /\ p.arg \in Args
  BY DEF PostsOK, Posted
<1>3. \A p \in posts : Same(p, p)
  BY DEF Same
<1>4. ASSUME UNCHANGED conversation,
             \A g \in Guests : /\ Waiting(g)' = Waiting(g)
                               /\ Chats(g)' # {} => Chats(g) # {} \/ q[HistoryKey(g)].data # <<>>,
             \A g \in Guests : LET e == q[HistoryKey(g)] IN
               q'[HistoryKey(g)] \in {e, Begin(e), Settled(e), [e EXCEPT !.flight = "failed"]}
      PROVE  ChatInv'
  BY <1>1, <1>4, HistoryKept DEF ChatInv
<1>5. CASE Looks
  <2>1. \A g \in Guests : Waiting(g)' = Waiting(g) /\ (Chats(g)' # {} => Chats(g) # {})
    BY <1>5, UnseenPosts, ChatsKept DEF Looks
  <2> QED
    BY <1>1, <1>4, <1>5, <2>1 DEF Looks, core
<1>6. ASSUME NEW k \in Keys, FetchEnds(k) PROVE ChatInv'
  <2>1. UNCHANGED <<posts, conversation>>
    BY <1>6 DEF FetchEnds, core
  <2>2. \A g \in Guests : LET e == q[HistoryKey(g)] IN
           q'[HistoryKey(g)] \in {e, Begin(e), Settled(e), [e EXCEPT !.flight = "failed"]}
    BY <1>1, <1>6 DEF FetchEnds, CacheOK
  <2> QED
    BY <1>3, <1>4, <2>1, <2>2, ChatsKept
<1>7. ASSUME NEW k \in Keys, NEW value, Reads(k, value) PROVE ChatInv'
  <2>1. UNCHANGED <<posts, conversation>>
    BY <1>7 DEF Reads, core
  <2>2. \A g \in Guests : Waiting(g)' = Waiting(g) /\ (Chats(g)' # {} => Chats(g) # {})
    BY <1>3, <2>1, ChatsKept
  <2>3. ASSUME NEW g \in Guests
        PROVE  HistoryOK(g, q[HistoryKey(g)])'
    <3>1. CASE k # HistoryKey(g)
      <4>1. q'[HistoryKey(g)] = q[HistoryKey(g)]
        BY <1>1, <1>7, <3>1 DEF Reads, CacheOK
      <4> QED
        BY <2>1, <2>2, <4>1, HistoryKept
    <3>2. CASE k = HistoryKey(g)
      <4>1. PICK e : e = q[HistoryKey(g)]
        OBVIOUS
      <4>2. PICK f : f = q'[HistoryKey(g)]
        OBVIOUS
      <4>3. PICK i \in Parrots : value = <<Thread(i, sent, conversation[i][g])>>
        BY <1>7, <3>2 DEF Reads
      <4>4. PICK thread \in Threads : /\ value = <<thread>> /\ thread.from = i /\ thread.since = sent
                                     /\ thread.turns = conversation[i][g]
        <5>1. Thread(i, sent, conversation[i][g]) \in Threads
          BY <1>1 DEF Thread, Threads, PostsOK
        <5> QED
          BY <4>3, <5>1 DEF Thread
      <4>5. f = ReadEntry(e, value)
        BY <1>1, <1>7, <3>2, <4>1, <4>2 DEF Reads, CacheOK, ReadEntry
      <4>6. f.data = e.data /\ f.missed = e.missed /\ f.status = e.status /\ f.answer = <<thread>>
        BY <1>1, <4>1, <4>4, <4>5, EntryRead
      <4>7. TrueTo(g, thread)
        <5>1. ASSUME NEW j \in Parrots, NEW t \in Due(g, j, thread)
              PROVE  j = i /\ t \in ToSet(conversation[i][g]) /\ Mask(t[2]) = t[2]
          <6>1. PICK c \in Seq(Turn) : c = conversation[j][g] /\ KeptOK(c)
            BY <1>1
          <6>2. PICK a \in DOMAIN c : t = c[a]
            BY <6>1 DEF Due, ToSet
          <6>3. t \in Turn
            BY <6>2, ElementOfSeq, LenProperties
          <6>4. t[1] \in Nat /\ t[1] <= sent /\ Mask(t[2]) = t[2] /\ sent \in Nat
            BY <6>1, <6>2, <6>3 DEF KeptOK, Turn, PostsOK
          <6>5. ~ (t[1] > thread.since)
            BY <4>4, <6>4
          <6> QED
            BY <4>4, <6>4, <6>5 DEF Due
        <5>2. \A a, b \in DOMAIN thread.turns : thread.turns[a][1] = thread.turns[b][1] => a = b
          BY <1>1, <4>4 DEF KeptOK
        <5> QED
          BY <4>4, <5>1, <5>2 DEF TrueTo
      <4>8. \A t \in Threads : TrueTo(g, t) => TrueTo(g, t)'
        BY <2>1, <2>2, ThreadSame
      <4>9. HistoryOK(g, e)
        BY <1>1, <4>1
      <4>10. HistoryOK(g, f)'
        BY <2>2, <4>6, <4>7, <4>8, <4>9 DEF HistoryOK
      <4>11. HistoryOK(g, q[HistoryKey(g)])'
        BY <4>2, <4>10 DEF HistoryOK
      <4> QED
        BY <1>1, <2>1, <2>2, <4>11
    <3> QED
      BY <3>1, <3>2
  <2> QED
    BY <1>1, <2>1, <2>3 DEF ChatInv
<1>8. ASSUME NEW op \in AllOps, NEW h \in Guests \cup {Admin}, NEW arg \in Args, Sends(op, h, arg)
      PROVE  ChatInv'
  <2> DEFINE s == [n |-> sent + 1, op |-> op, guest |-> h, arg |-> arg,
                   phase |-> "sent", result |-> arg, shown |-> TRUE]
  <2>1. posts' = posts \cup {s} /\ s.op = op /\ s.phase = "sent" /\ s.guest = h
          /\ UNCHANGED <<q, conversation>>
    BY <1>8 DEF Sends, core
  <2>2. op = "chat" => q[HistoryKey(h)].data # <<>>
    BY <1>8 DEF Sends
  <2> HIDE DEF s
  <2>3. ASSUME NEW g \in Guests
        PROVE  /\ Waiting(g)' = Waiting(g)
               /\ Chats(g)' # {} => Chats(g) # {} \/ q[HistoryKey(g)].data # <<>>
    BY <2>1, <2>2 DEF Waiting, Chats
  <2> QED
    BY <1>4, <2>1, <2>3
<1>9. ASSUME NEW p \in posts, Errs(p) PROVE ChatInv'
  <2>1. UNCHANGED <<q, conversation>>
    BY <1>9 DEF Errs, core
  <2>2. ASSUME NEW g \in Guests
        PROVE  Waiting(g)' = Waiting(g) /\ (Chats(g)' # {} => Chats(g) # {})
    <3>1. CASE posts' = posts \ {p} /\ p.phase = "error"
      BY <3>1 DEF Waiting, Chats
    <3>2. CASE p.phase = "sent" /\ \E r \in Args : Replied(p, "error", r)
      <4>1. PICK s \in Posted : /\ posts' = (posts \ {p}) \cup {s} /\ s.op = p.op
                              /\ s.guest = p.guest /\ s.phase = "error"
        BY <1>9, <3>2, RepliedPosts DEF Errs
      <4> QED
        BY <3>2, <4>1 DEF Waiting, Chats
    <3> QED
      BY <1>9, <3>1, <3>2 DEF Errs
  <2> QED
    BY <1>4, <2>1, <2>2
<1>10. ASSUME NEW p \in posts, Loses(p) PROVE ChatInv'
  <2>1. PICK s \in Posted : /\ posts' = (posts \ {p}) \cup {s} /\ s.op = p.op
                          /\ s.guest = p.guest /\ s.phase = "error"
    BY <1>2, <1>10, RepliedPosts DEF Loses
  <2>2. /\ UNCHANGED conversation
        /\ \A k \in Keys : q'[k] = IF k \in Touches(p) THEN Overlooked(q[k]) ELSE q[k]
    BY <1>10 DEF Loses, core
  <2>3. ASSUME NEW g \in Guests
        PROVE  HistoryOK(g, q[HistoryKey(g)])'
    <3>1. Chats(g)' # {} => Chats(g) # {}
      BY <2>1 DEF Chats
    <3>2. CASE HistoryKey(g) \notin Touches(p)
      <4>1. ~ (p.op = "chat" /\ p.guest = g)
        BY <1>2, <3>2, TouchFacts
      <4>2. Waiting(g)' = Waiting(g)
        BY <2>1, <4>1 DEF Waiting, Chats
      <4> QED
        BY <1>1, <2>2, <3>1, <3>2, <4>2, HistoryKept
    <3>3. CASE HistoryKey(g) \in Touches(p)
      <4>1. Waiting(g)' \subseteq Waiting(g)
        BY <2>1 DEF Waiting, Chats
      <4>2. PICK e : e = q[HistoryKey(g)]
        OBVIOUS
      <4>3. PICK f : f = q'[HistoryKey(g)]
        OBVIOUS
      <4>4. EntryOK(e) /\ HistoryOK(g, e) /\ f = Overlooked(e)
        BY <1>1, <2>2, <3>3, <4>2, <4>3
      <4>5. /\ f.data = e.data /\ f.flight = e.flight /\ f.answer = e.answer /\ f.status = e.status
            /\ f.missed /\ (f.flight = "read" => f.crossed)
        BY <4>4, EntryOps
      <4>6. /\ e.status = "success" => e.data # <<>>
            /\ Chats(g)' # {} => e.data # <<>>
            /\ e.data # <<>> => \E t \in Threads : e.data = <<t>>
            /\ e.flight = "read" => \E t \in Threads : e.answer = <<t>>
        BY <3>1, <4>4 DEF HistoryOK
      <4>7. HistoryOK(g, f)'
        BY <4>5, <4>6 DEF HistoryOK
      <4>8. HistoryOK(g, q[HistoryKey(g)])'
        BY <4>3, <4>7 DEF HistoryOK
      <4> QED
        BY <1>1, <2>2, <4>1, <4>8
    <3> QED
      BY <3>2, <3>3
  <2> QED
    BY <1>1, <2>2, <2>3 DEF ChatInv
<1>11. ASSUME NEW p \in posts, Drops(p) PROVE ChatInv'
  <2>1. PICK s \in Posted : posts' = (posts \ {p}) \cup {s} /\ s.op = p.op /\ p.op = "remove"
    BY <1>2, <1>11, RepliedPosts DEF Drops
  <2>2. \A g \in Guests : q'[HistoryKey(g)] = q[HistoryKey(g)]
    <3>1. \A g \in Guests : HistoryKey(g) \notin {BookedKey(h) : h \in Booked(p.arg)}
      BY DEF HistoryKey, BookedKey
    <3> QED
      BY <1>1, <1>11, <3>1 DEF Drops
  <2>3. \A g \in Guests : Waiting(g)' = Waiting(g) /\ (Chats(g)' # {} => Chats(g) # {})
    BY <2>1 DEF Waiting, Chats
  <2>4. UNCHANGED conversation
    BY <1>11 DEF Drops
  <2> QED
    BY <1>4, <2>2, <2>3, <2>4
<1>12. ASSUME NEW p \in posts, NEW result \in Args, Serves(p, result) PROVE ChatInv'
  <2>1. PICK s \in Posted : /\ posts' = (posts \ {p}) \cup {s} /\ s.n = p.n /\ s.op = p.op
                          /\ s.guest = p.guest /\ s.phase = "ok"
    BY <1>12, RepliedPosts DEF Serves
  <2>2. UNCHANGED q /\ p.phase = "sent" /\ (p.op = "chat" => p.guest \in Guests)
    BY <1>12 DEF Serves, PostsOK
  <2>3. ASSUME NEW g \in Guests PROVE Chats(g)' # {} => Chats(g) # {}
    BY <2>1 DEF Chats
  <2>4. ASSUME NEW g \in Guests, ~ (p.op = "chat" /\ p.guest = g) PROVE Waiting(g)' = Waiting(g)
    BY <2>1, <2>4 DEF Waiting, Chats
  <2>5. CASE p.op # "chat" /\ UNCHANGED conversation
    BY <1>4, <2>2, <2>3, <2>4, <2>5
  <2>6. ASSUME p.op = "chat", NEW i \in Parrots,
               conversation' = [conversation EXCEPT ![i][p.guest] =
                                  Trim(Append(@, <<p.n, Mask(p.arg)>>))]
        PROVE  ChatInv'
    <3>1. PICK h \in Guests : h = p.guest
      BY <2>2, <2>6
    <3>2. PICK c \in Seq(Turn) : c = conversation[i][h] /\ KeptOK(c)
      BY <1>1
    <3>3. PICK t : t = <<p.n, Mask(p.arg)>>
      OBVIOUS
    <3>4. t \in Turn /\ t[1] = p.n /\ t[2] = Mask(p.arg) /\ p.n <= sent /\ sent \in Nat
      BY <1>2, <3>3 DEF Turn, Posted, Mask, PostsOK
    <3>5. Mask(t[2]) = t[2] /\ \A a \in DOMAIN c : c[a][1] # p.n
      BY <2>2, <2>6, <3>1, <3>2, <3>4 DEF Mask, TurnsInv
    <3>6. PICK d \in Seq(Turn) :
            /\ d = Trim(Append(c, t))
            /\ \A a \in DOMAIN d : d[a] = t \/ \E b \in DOMAIN c : d[a] = c[b]
            /\ \A m, n \in Nat : m # t[1] /\ n # t[1] /\ Before(d, m, n) => Before(c, m, n)
      BY <3>2, <3>4, <3>5, TurnAdded
    <3>7. /\ conversation'[i][h] = d
          /\ \A j \in Parrots : \A g \in Guests :
               j # i \/ g # h => conversation'[j][g] = conversation[j][g]
      BY <1>1, <2>6, <3>1, <3>2, <3>3, <3>6
    <3>8. Waiting(h)' = Waiting(h) \cup {p.n}
      BY <2>1, <2>2, <2>6, <3>1 DEF Waiting
    <3>9. ASSUME NEW thread \in Threads, TrueTo(h, thread) PROVE TrueTo(h, thread)'
      <4>1. ASSUME NEW j \in Parrots, NEW x \in Due(h, j, thread)'
            PROVE  x \in Due(h, j, thread) /\ x[1] # p.n /\ x[1] \in Nat
        <5>1. /\ x \in ToSet(conversation'[j][h]) /\ x[1] \notin Waiting(h)'
              /\ j = thread.from \/ x[1] > thread.since
          BY <4>1 DEF Due
        <5>2. x[1] # p.n /\ x[1] \notin Waiting(h)
          BY <3>8, <5>1
        <5>3. x \in ToSet(conversation[j][h])
          <6>1. CASE j # i
            BY <3>7, <5>1, <6>1
          <6>2. CASE j = i
            <7>1. PICK a \in DOMAIN d : x = d[a]
              BY <3>7, <5>1, <6>2 DEF ToSet
            <7>2. PICK b \in DOMAIN c : x = c[b]
              BY <3>4, <3>6, <5>2, <7>1
            <7> QED
              BY <3>2, <6>2, <7>2 DEF ToSet
          <6> QED
            BY <6>1, <6>2
        <5>4. x[1] \in Nat
          <6>1. PICK b \in DOMAIN conversation[j][h] : x = conversation[j][h][b]
            BY <5>3 DEF ToSet
          <6>2. x \in Turn
            BY <1>1, <6>1, ElementOfSeq, LenProperties
          <6> QED
            BY <6>2 DEF Turn
        <5> QED
          BY <5>1, <5>2, <5>3, <5>4 DEF Due
      <4>2. ASSUME NEW j \in Parrots, NEW x \in Due(h, j, thread)', NEW y \in Due(h, j, thread)',
                   Before(conversation'[j][h], x[1], y[1])
            PROVE  Before(conversation[j][h], x[1], y[1])
        <5>1. CASE j # i
          BY <3>7, <4>2, <5>1
        <5>2. CASE j = i
          BY <3>2, <3>4, <3>6, <3>7, <4>1, <4>2, <5>2
        <5> QED
          BY <5>1, <5>2
      <4> QED
        BY <3>9, <4>1, <4>2, ThreadStays
    <3>10. HistoryOK(h, q[HistoryKey(h)])'
      <4>1. PICK e : e = q[HistoryKey(h)]
        OBVIOUS
      <4>2. HistoryOK(h, e)'
        BY <1>1, <2>3, <3>9, <4>1, HistoryMoves
      <4> QED
        BY <2>2, <4>1, <4>2 DEF HistoryOK
    <3>11. ASSUME NEW g \in Guests, g # h PROVE HistoryOK(g, q[HistoryKey(g)])'
      <4>1. Waiting(g)' = Waiting(g) /\ q'[HistoryKey(g)] = q[HistoryKey(g)]
        BY <2>2, <2>4, <3>1, <3>11
      <4> QED
        BY <2>3, <3>7, <3>11, <4>1, HistoryKept
    <3> QED
      BY <3>10, <3>11 DEF ChatInv
  <2> QED
    BY <1>12, <2>5, <2>6 DEF Serves
<1>13. ASSUME NEW p \in posts, Succeeds(p) PROVE ChatInv'
  <2>1. /\ posts' = posts \ {p} /\ UNCHANGED conversation /\ p.phase = "ok"
        /\ p.op \notin {"add", "remove"} => p.guest \in Guests
    BY <1>13 DEF Succeeds, OnBoarded, OnReserved, OnCancelled, OnBeachChanged, OnOrdered, OnReply,
                 OnSuccess, core, PostsOK
  <2>2. ASSUME NEW g \in Guests PROVE Chats(g)' # {} => Chats(g) # {}
    BY <2>1 DEF Chats
  <2>3. ASSUME NEW g \in Guests, ~ (p.op = "chat" /\ p.guest = g) PROVE Waiting(g)' = Waiting(g)
    BY <2>1, <2>3 DEF Waiting, Chats
  <2>4. CASE OnBoarded(p) \/ OnReserved(p) \/ OnCancelled(p) \/ OnBeachChanged(p) \/ OnOrdered(p)
    <3>1. p.op # "chat"
      BY <2>4 DEF OnBoarded, OnReserved, OnCancelled, OnBeachChanged, OnOrdered
    <3>2. ASSUME NEW g \in Guests PROVE q'[HistoryKey(g)] = q[HistoryKey(g)]
      <4>1. CASE OnBoarded(p)
        BY <1>1, <2>1, <4>1, KeyFacts DEF OnBoarded, OnSuccess, CacheOK
      <4>2. CASE OnReserved(p) \/ OnCancelled(p)
        BY <1>1, <2>1, <4>2, KeyFacts DEF OnReserved, OnCancelled, OnSuccess, CacheOK
      <4>3. CASE OnOrdered(p)
        BY <1>1, <4>3, KeyFacts DEF OnOrdered, OnSuccess, CacheOK
      <4>4. CASE OnBeachChanged(p)
        <5>1. HistoryKey(g) \notin {ActivitiesKey, BookedKey(p.guest)}
          BY DEF HistoryKey, ActivitiesKey, BookedKey
        <5> QED
          BY <1>1, <4>4, <5>1 DEF OnBeachChanged, OnSuccess, BeachInvalidated
      <4> QED
        BY <2>4, <4>1, <4>2, <4>3, <4>4
    <3> QED
      BY <1>4, <2>1, <2>2, <2>3, <3>1, <3>2
  <2>5. CASE OnReply(p)
    <3>1. p.op = "chat" /\ p \in Chats(p.guest)
      BY <2>5 DEF OnReply, Chats
    <3>2. PICK h \in Guests : h = p.guest
      BY <2>1, <3>1
    <3>3. PICK e : e = q[HistoryKey(h)]
      OBVIOUS
    <3>4. PICK f : f = q'[HistoryKey(h)]
      OBVIOUS
    <3>5. EntryOK(e) /\ HistoryOK(h, e) /\ e.data # <<>>
      BY <1>1, <3>1, <3>2, <3>3 DEF HistoryOK
    <3>6. PICK t \in Threads : e.data = <<t>> /\ (TrueTo(h, t) \/ e.missed)
      BY <3>5 DEF HistoryOK
    <3> DEFINE turn == <<p.n, p.arg>>
               crossing == \E x \in ToSet(t.turns) :
                             \/ x[1] = p.n
                             \/ \E i \in Parrots : Before(conversation[i][h], p.n, x[1])
               u == [t EXCEPT !.turns = Append(@, turn)]
               m == Stored(e, AppendTurn(e.data, turn)).missed \/ crossing
    <3>7. turn \in Turn /\ turn[1] = p.n /\ turn[2] = p.arg
      BY <1>2 DEF Turn
    <3>8. e.data # <<>> /\ e.data[1] = t /\ AppendTurn(e.data, turn) = u
      <4>1. e.data # <<>> /\ e.data[1] = t
        BY <3>5, <3>6
      <4> QED
        BY <4>1 DEF AppendTurn
    <3>9. /\ f = [Stored(e, AppendTurn(e.data, turn)) EXCEPT !.missed = m]
          /\ \A g \in Guests : g # h => q'[HistoryKey(g)] = q[HistoryKey(g)]
      BY <1>1, <2>5, <3>2, <3>3, <3>4, <3>8, KeyFacts DEF OnReply, OnSuccess, CacheOK
    <3>10. m \in BOOLEAN
      OBVIOUS
    <3>11. /\ f.data = <<u>> /\ f.flight = e.flight /\ f.answer = e.answer
           /\ e.missed \/ crossing => f.missed
           /\ f.flight = "read" => f.crossed
      <4>1. /\ f.data = <<AppendTurn(e.data, turn)>> /\ f.flight = e.flight /\ f.answer = e.answer
            /\ f.missed <=> m
            /\ Stored(e, AppendTurn(e.data, turn)).missed = e.missed
            /\ f.flight = "read" => f.crossed
        <5> HIDE DEF m, turn
        <5> QED
          BY <3>5, <3>9, <3>10, EntryStored
      <4> QED
        BY <3>8, <4>1
    <3>12. u \in Threads
      <4>1. t.turns \in Seq(Turn)
        BY DEF Threads
      <4>2. Append(t.turns, turn) \in Seq(Turn)
        BY <3>7, <4>1, AppendProperties
      <4> QED
        BY <4>2 DEF Threads
    <3>13. Waiting(h)' = Waiting(h) \ {p.n}
      <4>1. \A r \in posts : r.n = p.n => r = p
        BY DEF PostsOK
      <4>2. \A n \in Waiting(h)' : n \in Waiting(h) /\ n # p.n
        BY <2>1, <4>1 DEF Waiting
      <4>3. \A n \in Waiting(h) : n # p.n => n \in Waiting(h)'
        BY <2>1 DEF Waiting
      <4> QED
        BY <4>2, <4>3
    <3>14. ASSUME NEW i \in Parrots
           PROVE  /\ conversation[i][h] \in Seq(Turn) /\ KeptOK(conversation[i][h])
                  /\ \A x \in ToSet(conversation[i][h]) : x[1] = p.n => x[2] = Mask(p.arg)
      BY <1>1, <3>1, <3>2 DEF TurnsInv, ToSet
    <3>15. ASSUME ~e.missed, ~crossing PROVE TrueTo(h, u)'
      <4>1. TrueTo(h, t) /\ p.n \in Nat
        BY <1>2, <3>6, <3>15
      <4> QED
        BY <2>1, <3>7, <3>13, <3>14, <3>15, <4>1, ThreadGrows
    <3>16. e.flight = "read" => \E a \in Threads : e.answer = <<a>>
      BY <3>5 DEF HistoryOK
    <3> HIDE DEF crossing, u, m, turn
    <3>17. HistoryOK(h, f)'
      <4>1. <<u>> # <<>>
        OBVIOUS
      <4>2. TrueTo(h, u)' \/ f.missed
        BY <3>11, <3>15
      <4> QED
        BY <3>11, <3>12, <3>16, <4>1, <4>2 DEF HistoryOK
    <3>18. HistoryOK(h, q[HistoryKey(h)])'
      BY <3>4, <3>17 DEF HistoryOK
    <3>19. ASSUME NEW g \in Guests, g # h
           PROVE  HistoryOK(g, q[HistoryKey(g)])'
      BY <2>1, <2>2, <2>3, <3>2, <3>9, <3>19, HistoryKept
    <3> QED
      BY <3>18, <3>19 DEF ChatInv
  <2> QED
    BY <1>13, <2>4, <2>5 DEF Succeeds
<1>14. ASSUME NEW h \in Guests, NEW i \in Parrots, Expires(h, i) PROVE ChatInv'
  <2>1. /\ UNCHANGED <<q, posts>>
        /\ \A j \in Parrots : \A g \in Guests :
             conversation'[j][g] = <<>> \/ conversation'[j][g] = conversation[j][g]
    BY <1>1, <1>14 DEF Expires
  <2>2. \A g \in Guests : Waiting(g)' = Waiting(g) /\ (Chats(g)' # {} => Chats(g) # {})
    BY <1>3, <2>1, ChatsKept
  <2>3. ASSUME NEW g \in Guests, NEW t \in Threads, TrueTo(g, t) PROVE TrueTo(g, t)'
    <3>1. \A j \in Parrots : \A x \in Due(g, j, t)' :
            x \in Due(g, j, t) /\ conversation'[j][g] = conversation[j][g]
      <4>1. ToSet(<<>>) = {}
        BY DEF ToSet
      <4> QED
        BY <2>1, <2>2, <4>1 DEF Due
    <3> QED
      BY <2>3, <3>1, ThreadStays
  <2>4. ASSUME NEW g \in Guests PROVE HistoryOK(g, q[HistoryKey(g)])'
    <3>1. PICK e : e = q[HistoryKey(g)]
      OBVIOUS
    <3>2. HistoryOK(g, e)'
      BY <1>1, <2>2, <2>3, <3>1, HistoryMoves
    <3> QED
      BY <2>1, <3>1, <3>2 DEF HistoryOK
  <2> QED
    BY <2>4 DEF ChatInv
<1> QED
  BY <1>5, <1>6, <1>7, <1>8, <1>9, <1>10, <1>11, <1>12, <1>13, <1>14 DEF OneStep
-----------------------------------------------------------------------------
(* The beginning, the invariant and the theorems.                          *)

\* The guests with a room, in some order.
LEMMA SomeOrder ==
  ASSUME NEW S \in SUBSET Guests PROVE SetToSeq(S) \in Seq(Guests)
<1>1. IsFiniteSet(S)
  BY PanelsAssumption, FS_Subset
<1>2. Cardinality(S) \in Nat /\ Bijection(1..Cardinality(S), S) # {}
  BY <1>1, FS_CardinalityType DEF ExistsBijection
<1>3. \E f \in [1..Cardinality(S) -> S] : IsInjective(f)
  BY <1>2 DEF Bijection, Injection
<1>4. SetToSeq(S) \in [1..Cardinality(S) -> S]
  BY <1>3 DEF SetToSeq
<1>5. SetToSeq(S) \in [1..Cardinality(S) -> Guests]
  BY <1>4
<1> QED
  BY <1>2, <1>5, SeqDef

\* A tab that was just opened shows nothing.
LEMMA PanelsStart == ASSUME PanelsInit PROVE PanelsInv
<1>1. /\ q = [k \in Keys |-> Fresh]
      /\ who = Nobody /\ panel = "none" /\ list = FALSE /\ posts = {} /\ sent = 0
  BY DEF PanelsInit, AppInit
<1>2. \A k \in Keys : /\ EntryOK(q[k]) /\ q[k].data = <<>>
                      /\ q[k].flight = "idle" /\ q[k].status = "pending"
  BY <1>1, FreshOK
<1>3. Shape
  BY <1>1, <1>2 DEF Shape, PageOK, PostsOK, CacheOK, Pages
<1>4. PICK past \in Pasts :
        LET roomed == SetToSeq({g \in Guests : past[g] = "roomed"}) IN
          /\ reservations = [i \in DOMAIN roomed |-> [guest |-> roomed[i], status |-> "confirmed"]]
  BY DEF PanelsInit
<1>5. reservations \in Seq([guest : Guests, status : {"confirmed", "cancelled"}])
  <2>1. PICK roomed : roomed = SetToSeq({g \in Guests : past[g] = "roomed"})
    OBVIOUS
  <2>2. roomed \in Seq(Guests)
    BY <2>1, SomeOrder
  <2>3. PICK n \in Nat : roomed \in [1..n -> Guests]
    BY <2>2, SeqDef
  <2>4. reservations = [i \in 1..n |-> [guest |-> roomed[i], status |-> "confirmed"]]
    BY <1>4, <2>1, <2>3
  <2>5. reservations \in [1..n -> [guest : Guests, status : {"confirmed", "cancelled"}]]
    BY <2>3, <2>4
  <2> QED
    BY <2>5, SeqDef
<1>6. CardInv
  <2>1. \A g \in Guests : CardOK(g, q[ReservationKey(g)])
    BY <1>2, KeyFacts DEF CardOK
  <2> QED
    BY <1>1, <1>5, <2>1 DEF CardInv
<1>7. ScreenInv
  <2>1. \A k \in ScreenKeys : ScreenOK(k, q[k])
    BY <1>2, KeyFacts DEF ScreenOK
  <2> QED
    BY <2>1 DEF ScreenInv, PanelsInit
<1>8. TurnsInv
  <2>1. <<>> \in Seq(Turn) /\ KeptOK(<<>>)
    BY DEF KeptOK
  <2> QED
    BY <1>1, <2>1 DEF TurnsInv, PanelsInit
<1>9. ChatInv
  <2>1. \A g \in Guests : Chats(g) = {}
    BY <1>1 DEF Chats
  <2>2. \A g \in Guests : HistoryOK(g, q[HistoryKey(g)])
    BY <1>2, <2>1, KeyFacts DEF HistoryOK
  <2> QED
    BY <2>2 DEF ChatInv
<1>10. FailedOK
  BY DEF FailedOK, PanelsInit
<1> QED
  BY <1>3, <1>6, <1>7, <1>8, <1>9, <1>10 DEF PanelsInv

\* PanelsInv is inductive.
LEMMA PanelsInvariant == PanelsSpec => []PanelsInv
<1>1. PanelsInit => PanelsInv
  BY PanelsStart
<1>2. PanelsInv /\ [PanelsNext]_panelsVars => PanelsInv'
  <2> SUFFICES ASSUME PanelsInv, [PanelsNext]_panelsVars PROVE PanelsInv'
    OBVIOUS
  <2>1. CASE PanelsNext
    BY <2>1, EveryStep, FailedKept, ShapeKept, CardKept, ScreenKept, TurnsKept, ChatKept
       DEF PanelsInv
  <2>2. CASE UNCHANGED panelsVars
    <3>1. UNCHANGED <<q, who, panel, list, posts, sent, reservations, offered, bookings, stock,
                      conversation, failedTurn>>
      BY <2>2 DEF panelsVars, appVars, page, counters, services, beachVars
    <3>2. Shape'
      BY <3>1 DEF PanelsInv, Shape, PageOK, PostsOK, CacheOK
    <3>3. CardInv'
      BY <3>1 DEF PanelsInv, CardInv, CardOK, Held, Standing
    <3>4. \A k : Truth(k)' = Truth(k) /\ Awaited(k)' = Awaited(k) /\ Observed(k)' = Observed(k)
      BY <3>1 DEF Truth, Awaited, Observed, Overview, Menu
    <3>5. ScreenInv'
      BY <3>1, <3>4 DEF PanelsInv, ScreenInv, ScreenOK
    <3>6. TurnsInv' /\ FailedOK'
      BY <3>1 DEF PanelsInv, TurnsInv, KeptOK, FailedOK
    <3>7. \A g, t : TrueTo(g, t)' = TrueTo(g, t)
      BY <3>1 DEF TrueTo, Due, Waiting
    <3>8. ChatInv'
      BY <3>1, <3>7 DEF PanelsInv, ChatInv, HistoryOK, Chats
    <3> QED
      BY <3>2, <3>3, <3>5, <3>6, <3>8 DEF PanelsInv
  <2> QED
    BY <2>1, <2>2
<1> QED
  BY <1>1, <1>2, PTL DEF PanelsSpec

\* Whatever sessions change, panels close and answers cross, a tab that shows
\* a guest a reservation shows one of that guest's own, still confirmed or on
\* its way out (use-active-reservation.ts, use-reservation-form.ts).
THEOREM CardsTrue == PanelsSpec => []CardTruthful
<1>1. PanelsInv => CardTruthful
  <2> SUFFICES ASSUME PanelsInv, NEW g \in Guests, NEW i \in DOMAIN reservations,
                      Reservation(g) = <<i>>
               PROVE  /\ reservations[i].guest = g
                      /\ \/ reservations[i].status = "confirmed"
                         \/ \E p \in posts : p.op = "cancel" /\ p.arg = i
                         \/ q[ReservationKey(g)].missed
    BY DEF CardTruthful
  <2>1. q[ReservationKey(g)].data = <<i>> /\ <<i>> # <<>>
    BY DEF Reservation
  <2>2. PICK j \in Nat : /\ <<i>> = <<j>> /\ Held(g, j)
                         /\ Standing(j) \/ q[ReservationKey(g)].missed
    BY <2>1 DEF PanelsInv, CardInv, CardOK
  <2>3. i = j
    BY <2>2
  <2> QED
    BY <2>2, <2>3 DEF Held, Standing
<1> QED
  BY <1>1, PanelsInvariant, PTL

\* After any order of answers, a settled screen of the beach or of the menu
\* shows what the services hold, but for the writes nothing told its query of
\* (use-book-activity.ts, use-manage-activities.ts, use-place-order.ts).
THEOREM ScreensTrue == PanelsSpec => []SettledTruth
<1>1. PanelsInv => SettledTruth
  BY DEF PanelsInv, ScreenInv, ScreenKeys, ScreenOK, Awaited, SettledTruth
<1> QED
  BY <1>1, PanelsInvariant, PTL

\* Whichever instances the round robin picks, the thread a tab shows has, of
\* the turns the instances keep, all that the one it was loaded from had and
\* all that were asked since, once each, in order and under the same mask, for
\* any number of instances, guests and questions under way (use-parrot-chat.ts,
\* history.py, pool.go).
THEOREM ThreadsTrue == PanelsSpec => []ChatTruthful
<1>1. PanelsInv => ChatTruthful
  <2> SUFFICES ASSUME PanelsInv, NEW g \in Guests,
                      q[HistoryKey(g)].data # <<>>, ~q[HistoryKey(g)].missed
               PROVE  TrueTo(g, q[HistoryKey(g)].data[1])
    BY DEF ChatTruthful
  <2>1. PICK t \in Threads : q[HistoryKey(g)].data = <<t>> /\ TrueTo(g, t)
    BY DEF PanelsInv, ChatInv, HistoryOK
  <2> QED
    BY <2>1
<1> QED
  BY <1>1, PanelsInvariant, PTL
=============================================================================
