------------------------------ MODULE LiveFeed ------------------------------
(***************************************************************************)
(* The frontend's live feed on top of the broadcast hub: the useBroadcast  *)
(* hook of the map page (an EventSource, a back-off timer), the events     *)
(* store, and the zone markers that pulse when their channel is active.    *)
(* Every callback of the browser is one action.  Several EventSources may  *)
(* exist at a time as far as the model is concerned; that only one is ever *)
(* live is what the hook has to achieve.                                   *)
(***************************************************************************)
EXTENDS BroadcastHub

CONSTANTS
  BrowserStreams,                     \* 1..n, opened in this order by the page
  BACKOFF_INITIAL_MS, BACKOFF_MAX_MS,
  MAX_EVENTS,
  Zones,                              \* zone markers on the map
  MaxMounts,                          \* bound on visits to the map page
  None

ASSUME FeedAssumption ==
  /\ BrowserStreams \subseteq Streams /\ None \notin BrowserStreams
  /\ BACKOFF_INITIAL_MS \in Nat \ {0} /\ BACKOFF_MAX_MS \in Nat \ {0}
  /\ MAX_EVENTS \in Nat \ {0}
  /\ Zones \subseteq {"airport", "hotel", "beach", "crab", "parrot", "broadcast"}

VARIABLES
  active,         \* activeRef: the page is mounted
  connection,     \* connectionRef
  es,             \* stream -> readyState of its EventSource
  backoff,        \* backoffRef
  timer,          \* timerRef: delay of a pending reconnect, 0 for none
  status,         \* what ConnectionStatus shows
  events,         \* store: channel -> numbers of events, newest first
  activityTick,   \* store: channel -> ingested events
  livePush,       \* the feed has updated or invalidated the activities cache
  pulse,          \* zone -> isActive
  pulseTimer,     \* zone -> the pulse's timeout is pending
  mounts,
  joined          \* history: events published before the page's stream was up

hook == <<active, connection, backoff, timer, status>>
store == <<events, activityTick, livePush>>
markers == <<pulse, pulseTimer>>
vars == <<hubVars, hook, es, store, markers, mounts, joined>>

-----------------------------------------------------------------------------
(* events-store.ts.  Mutant: a full list keeps its oldest entries. *)
PrependMutant(n, s) == IF Len(s) < MAX_EVENTS THEN <<n>> \o s ELSE s
Prepend(n, s) == SubSeq(<<n>> \o s, 1, IF Len(s) < MAX_EVENTS THEN Len(s) + 1
                                                              ELSE MAX_EVENTS)

(* An admin announcement goes to every channel, any other event to its own *)
(* channel and, mirrored, to the resort-wide one.                          *)
Buckets(event) ==
  IF event.event_type = "admin.announcement" THEN Channels
  ELSE {event.channel, ResortWide}

IngestEvent(n) ==
  /\ events' = [ch \in Channels |-> IF ch \in Buckets(published[n])
                                    THEN Prepend(n, events[ch]) ELSE events[ch]]
  /\ activityTick' = [ch \in Channels |-> IF ch \in Buckets(published[n])
                                          THEN activityTick[ch] + 1
                                          ELSE activityTick[ch]]

(* The activities cache is updated, or invalidated when it is empty, only  *)
(* for an availability event that says which activity has how many places. *)
BeachAvailabilityPayload(event) ==
  /\ event.channel = "beach"
  /\ event.event_type \in {"beach.activity_full", "beach.activity_available"}
  /\ {"activityId", "remaining"} \subseteq event.data

-----------------------------------------------------------------------------
(* zone-registry.ts: the channel whose activity a zone's marker shows. *)
ZoneChannel ==
  [airport |-> "airport", hotel |-> "hotel", beach |-> "hotel", crab |-> "crab",
   parrot |-> "parrot", broadcast |-> ResortWide]

(* The effect of a new tick: light the marker and restart its timeout. *)
TickEffect ==
  LET ticked == {z \in Zones : activityTick'[ZoneChannel[z]] # activityTick[ZoneChannel[z]]}
  IN  /\ pulse' = [z \in Zones |-> pulse[z] \/ z \in ticked]
      /\ pulseTimer' = [z \in Zones |-> pulseTimer[z] \/ z \in ticked]

PulseEnds(z) ==
  /\ pulseTimer[z]
  /\ pulse' = [pulse EXCEPT ![z] = FALSE]
  /\ pulseTimer' = [pulseTimer EXCEPT ![z] = FALSE]
  /\ UNCHANGED <<hubVars, hook, es, store, mounts, joined>>

-----------------------------------------------------------------------------
(* use-broadcast.ts *)
(* connect(): a new EventSource takes the next connection. *)
Opened ==
  LET c == Cardinality({b \in BrowserStreams : es[b] # "unused"}) + 1
  IN  /\ c \in BrowserStreams
      /\ connection' = c
      /\ es' = [es EXCEPT ![c] = "connecting"]
      /\ link' = [link EXCEPT ![c] = "requested"]

(* EventSource.close(): no callback of c runs any more, its socket closes. *)
Closed(c) ==
  /\ es' = [es EXCEPT ![c] = "closed"]
  /\ link' = [link EXCEPT ![c] = IF @ = "refused" THEN @ ELSE "broken"]
  /\ wire' = [wire EXCEPT ![c] = <<>>]

Mount ==
  /\ ~active
  /\ mounts < MaxMounts
  /\ active' = TRUE
  /\ backoff' = BACKOFF_INITIAL_MS
  /\ timer' = 0
  /\ status' = "reconnecting"
  /\ Opened
  /\ pulse' = [z \in Zones |-> FALSE]
  /\ pulseTimer' = [z \in Zones |-> FALSE]
  /\ mounts' = mounts + 1
  /\ UNCHANGED <<clients, wire, published, drops, store, joined>>

(* Mutant: the status is only set while the back-off is still initial. *)
OnOpenMutant(c) ==
  /\ es[c] = "connecting"
  /\ link[c] = "up"
  /\ es' = [es EXCEPT ![c] = "open"]
  /\ backoff' = BACKOFF_INITIAL_MS
  /\ status' = IF backoff = BACKOFF_INITIAL_MS THEN "connected" ELSE status
  /\ UNCHANGED <<hubVars, active, connection, timer, store, markers, mounts, joined>>

OnOpen(c) ==
  /\ es[c] = "connecting"
  /\ link[c] = "up"
  /\ es' = [es EXCEPT ![c] = "open"]
  /\ backoff' = BACKOFF_INITIAL_MS
  /\ status' = "connected"
  /\ UNCHANGED <<hubVars, active, connection, timer, store, markers, mounts, joined>>

OnMessage(c) ==
  /\ es[c] = "open"
  /\ wire[c] # <<>>
  /\ wire' = [wire EXCEPT ![c] = Tail(@)]
  /\ IngestEvent(Head(wire[c]))
  /\ livePush' = (livePush \/ BeachAvailabilityPayload(published[Head(wire[c])]))
  /\ TickEffect
  /\ UNCHANGED <<link, clients, published, drops, hook, es, mounts, joined>>

(* Mutant: the EventSource is left to reconnect by itself next to the timer. *)
OnErrorMutant(c) ==
  /\ es[c] \in {"connecting", "open"}
  /\ link[c] \in {"broken", "refused"}
  /\ es' = [es EXCEPT ![c] = "connecting"]
  /\ link' = [link EXCEPT ![c] = "requested"]
  /\ timer' = backoff
  /\ connection' = None
  /\ status' = "reconnecting"
  /\ UNCHANGED <<clients, wire, published, drops, active, backoff, store, markers, mounts, joined>>

(* The handler closes the EventSource, so that the browser does not        *)
(* reconnect by itself, and leaves that to a timer.                        *)
OnError(c) ==
  /\ es[c] \in {"connecting", "open"}
  /\ link[c] \in {"broken", "refused"}
  /\ Closed(c)
  /\ connection' = None
  /\ status' = "reconnecting"
  /\ IF active
     THEN /\ timer' = backoff
          /\ backoff' = IF 2 * backoff < BACKOFF_MAX_MS THEN 2 * backoff
                                                        ELSE BACKOFF_MAX_MS
     ELSE UNCHANGED <<timer, backoff>>
  /\ UNCHANGED <<clients, published, drops, active, store, markers, mounts, joined>>

TimerFires ==
  /\ timer # 0
  /\ timer' = 0
  /\ IF active THEN Opened ELSE UNCHANGED <<connection, es, link>>
  /\ UNCHANGED <<clients, wire, published, drops, active, backoff, status,
                 store, markers, mounts, joined>>

Unmount ==
  /\ active
  /\ active' = FALSE
  /\ timer' = 0
  /\ IF connection # None THEN Closed(connection) ELSE UNCHANGED <<es, link, wire>>
  /\ connection' = None
  /\ pulse' = [z \in Zones |-> FALSE]
  /\ pulseTimer' = [z \in Zones |-> FALSE]
  /\ UNCHANGED <<clients, published, drops, backoff, status, store, mounts, joined>>

-----------------------------------------------------------------------------
Init ==
  /\ HubInit
  /\ link = [c \in Streams |-> IF c \in BrowserStreams THEN "unused" ELSE "requested"]
  /\ active = FALSE
  /\ connection = None
  /\ es = [c \in BrowserStreams |-> "unused"]
  /\ backoff = BACKOFF_INITIAL_MS
  /\ timer = 0
  /\ status = "reconnecting"
  /\ events = [ch \in Channels |-> <<>>]
  /\ activityTick = [ch \in Channels |-> 0]
  /\ livePush = FALSE
  /\ pulse = [z \in Zones |-> FALSE]
  /\ pulseTimer = [z \in Zones |-> FALSE]
  /\ mounts = 0
  /\ joined = 0

(* A step of the hub, which leaves the page alone. *)
Aside ==
  /\ joined' = IF \E c \in BrowserStreams : link[c] # "up" /\ link'[c] = "up"
               THEN Len(published) ELSE joined
  /\ UNCHANGED <<hook, es, store, markers, mounts>>

HubNext ==
  /\ \/ Routes
     \/ \E c \in Streams : AddClient(c) \/ RefuseClient(c) \/ RemoveClient(c)
     \/ \E c \in BrowserStreams : Drop(c)
  /\ Aside

BrowserStep(c) == OnOpen(c) \/ OnMessage(c) \/ OnError(c)

Next ==
  \/ HubNext
  \/ Mount
  \/ Unmount
  \/ TimerFires
  \/ \E c \in BrowserStreams : BrowserStep(c)
  \/ \E z \in Zones : PulseEnds(z)

Spec == Init /\ [][Next]_vars

(* The hub answers requests, the browser runs its callbacks and timers.    *)
(* Nobody has to visit or leave the page, and the network need not break.  *)
HubAnswers(c) == (AddClient(c) \/ RefuseClient(c)) /\ Aside

Fairness ==
  /\ \A c \in Streams : WF_vars(HubAnswers(c))
  /\ \A c \in BrowserStreams : WF_vars(BrowserStep(c))
  /\ WF_vars(TimerFires)
  /\ \A z \in Zones : WF_vars(PulseEnds(z))

FairSpec == Spec /\ Fairness

-----------------------------------------------------------------------------
(* At most one EventSource is live and it is the one the hook can close;   *)
(* a live one and a pending reconnect exclude each other, and once the     *)
(* page is left neither remains (use-broadcast.ts).                        *)
OneStream ==
  LET live == {c \in BrowserStreams : es[c] \in {"connecting", "open"}}
  IN  /\ live \subseteq {connection}
      /\ timer # 0 => live = {}
      /\ ~active => live = {} /\ timer = 0
      /\ active => timer # 0 \/ live # {}

(* A stream that stays up misses nothing: every event published since the  *)
(* hub registered it waits to be read or is in all of its lists, unless    *)
(* newer ones have filled the list, even while the hub still writes to the *)
(* dead streams it replaced (eventBus.ts, events-store.ts).                *)
Received(n, s) ==
  \/ \E i \in 1..Len(s) : s[i] = n
  \/ Len(s) = MAX_EVENTS /\ \A i \in 1..Len(s) : s[i] > n
NoGap ==
  \A c \in BrowserStreams :
    es[c] \in {"connecting", "open"} /\ link[c] = "up" /\ AllowedChannels[c] = Channels
    => \A n \in (joined + 1)..Len(published) :
         \/ \E i \in 1..Len(wire[c]) : wire[c][i] = n
         \/ \A ch \in Buckets(published[n]) : Received(n, events[ch])

(* Whatever the network does, a mounted page with a known token is live    *)
(* again after the last outage, and no marker keeps pulsing, however the   *)
(* events, reconnects and visits fall (use-broadcast.ts, zone-indicator.tsx). *)
EventuallyLive ==
  /\ active ~> (status = "connected" \/ ~active)
  /\ \A z \in Zones : pulse[z] ~> ~pulse[z]

(* The feed implements the abstract one: at most once, in order, in all    *)
(* the lists of an event at once, newest MAX_EVENTS kept.                  *)
Abstract == INSTANCE IslandFeed WITH
  Lists <- Channels, Main <- ResortWide, Limit <- MAX_EVENTS,
  log <- [n \in DOMAIN published |-> Buckets(published[n])], shown <- events
AtMostOnceInOrder == Abstract!FeedSpec
=============================================================================
