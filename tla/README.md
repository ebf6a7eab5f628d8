# Verification of the Purrlington island

The repository is a small resort: independent services behind a gateway, and a browser
frontend that shows and drives them. This directory models the services and the parts of the
frontend that keep state, checks the models with TLC on small instances and proves the main
invariants, and two refinements, with TLAPS for every size.

## 1. Inventory

| Component | State it keeps | Operations | What is hard |
| --- | --- | --- | --- |
| Airport (`services/airport`, Flask, SQLite) | arrivals table; per gate a queue, the guest in the booth, a worker thread | arrive, process, hold, open and close gates, rehydrate at start | threads and requests interleave on queues whose locks do not cover the table; crash at any point; a close while a guest is being processed |
| Hotel (`services/hotel`, NestJS, Prisma) | rooms, reservations | reserve, cancel, list rooms | check-then-insert over several awaits, no transaction |
| Beach (`services/beach`, Ktor, Exposed) | activities, bookings, visitors | book, cancel, create, remove, listen to the hotel | read, decide, write back the whole set; events that are missed |
| Crusty Crab (`services/crab`, Go) | menu with sold counts, orders | menu, order | lazy restock at a day change, int sums, events from goroutines |
| Goat farm (`services/goat-farm`, Go) | stock, restock timer | stock, purchase | lazy timer, several clock reads in one request |
| Gateway (`gateway`, Go) | response cache with flights, rate limiter windows, limits, round-robin counter | proxy, cache, limit, admin update, health | single flight, expiry, panics, endless streams; limits changed under load |
| Broadcast (`services/broadcast`, Express) | connected SSE clients with their channels | one POST route per kind of event, subscribe | no replay: what is missed is lost; strict schemas |
| Parrot (`services/parrot`, FastAPI) | per-guest history in each of two instances | chat with a bounded tool loop | history read before an await and written after it; two instances behind a round robin |
| Live feed (`frontend`: `use-broadcast.ts`, `events-store.ts`, zone markers) | EventSource, back-off timer, bounded lists, pulses | visit, leave, reconnect, ingest | callbacks, timers and unmounts in any order; lost connections |
| Session and pages (`frontend`: `session-store.ts`, router, map page) | session in three copies and in sessionStorage, page, open panel | select, log in, switch, quit, reload | two generations of storage; guards and redirects |
| Quest and oracle (`frontend`: `kiki-burger-quest.tsx`, `octopus-oracle-panel.tsx`) | phase, meows, last result; per panel a trial | buttons, timeouts, trials | phases driven by timeouts and by a panel that may be closed at any moment |
| Zone panels (`frontend`: `features/{airport,hotel,beach,crab,parrot}`) | one query cache a tab, requests under way | board, reserve, cancel, book, order, chat; admin's activities | answers late, lost or overtaken, sessions switched and panels closed meanwhile |
| Goat farm popup (`frontend`: `goat-farm-popup.tsx`) | last answer, countdown | open, buy, refetch at zero | an effect that runs only when the number shown changes |
| Traffic generator (`frontend`: `features/simulation`) | state of each synthetic guest | one step of an itinerary | several loops, state read before and written after awaits |

How they interact: every request comes through the gateway; the hotel asks the airport
whether a guest has cleared passport control; airport, hotel, beach, crab and parrot
post events to Broadcast (one attempt, errors are dropped); the beach and the frontend
subscribe to Broadcast, and the beach takes a confirmed reservation as a check-in. Panels and
traffic generator call the services and learn of each other's changes only by asking again.

What makes each part correct:

- airport: nobody accepted is lost, queued twice or announced twice, whatever closes or
  crashes; minors travel with an adult; queues respect rank; everybody who can be served is;
- hotel: a room belongs to one party for its nights, parties fit, events tell the truth;
- beach: capacity holds, only checked-in guests are booked, answers are true;
- crab and goat farm: no more is sold than there is, restocks come once and in time;
- gateway cache: one fetch per key at a time, nothing beyond its time to live, everybody
  answered; limiter: bursts bounded, refusals deserved;
- hub and live feed: one stream a page, live again after an outage, events at most once, in
  order and in all their lists, and none is missed on a stream that stays up;
- session and quest: copies agree, a reload changes nothing, nobody gets stuck;
- panels: what a tab shows is what the services hold, once nothing is under way;
- traffic generator: never sends an identifier it does not have, cancels what it booked.

The list of hazards with their lines, and the properties aimed at them, is in
`PROJECT.json`.

## 2. Modules

Each component is one module that declares its CONSTANTS with a named assumption, its
VARIABLES, `Init`, one action per atomic step and its properties. `MC*` modules give the
constants values for TLC, `*Proofs` modules hold the theorems. Operators named `...Mutant` are
plausible mistakes in the definition below them; replacing one by the other must make TLC find
the property that `PROJECT.json` pairs with it violated. No module that is proved
about uses a RECURSIVE operator.

| Module | Code | One action is |
| --- | --- | --- |
| `AirportGates` | `gate_manager.py`, `routes.py`, `models.py`, `broadcast.py`, `app.py` | a section under a gate's lock, a commit, or a publish |
| `HotelReservations` | `reservation.service.ts`, `broadcast.service.ts`, the DTO | what a request does up to its next await |
| `BeachActivities` | the use cases, `PostgresActivityRepository.kt`, `HotelCheckInBroadcastClient.kt` | a database transaction, a publish, or an event |
| `CrabStore` | `store.go`, `handlers.go`, `broadcast.go` | a request under the store's mutex, or one post of a goroutine |
| `GoatFarm` | `store.go`, `config.go` | a request under the mutex, with the clock moving inside it |
| `GatewayCache` | `cache.go`, the error answers of `proxy.go` | a section under one of the two locks, or a step of a fetch |
| `RateLimiter` | `ratelimit.go`, `admin.go` | a load or store of an atomic, or the locked part of `allow` |
| `BroadcastHub` | `services/broadcast/src` | a route's handler, a turn of the event loop |
| `LiveFeed` (extends `BroadcastHub`) | `use-broadcast.ts`, `island-event.ts`, `events-store.ts`, `zone-indicator.tsx` | a callback of the browser |
| `IslandFeed` | the abstract feed | an event is logged, or shown |
| `IslandSession` | `session-store.ts`, router, selection, map and quit pages | a handler with the renders it causes |
| `KikiQuest` | `kiki-burger-quest.tsx`, `octopus-oracle-panel.tsx` and their `lib` | a button or a timeout |
| `IslandMap` | composes the two above: leaving the map throws the quest away | |
| `QueryCache` | react-query, as the hooks use it (external) | operators on one entry |
| `IslandApp` | `api-client.ts`, `main.tsx`, what panels share | a fetch or mutation starts, is served, is answered or fails |
| `AirportPanel`, `HotelPanel`, `BeachPanel`, `CrabPanel`, `ParrotPanel` | the hooks and panels of each zone, with the service reduced to what the panel can tell apart | a button, or what the service does with a request |
| `IslandPanels` | composes the panels over one cache | |
| `GoatShop` (extends `GoatFarm`, `QueryCache`) | `goat-farm-popup.tsx` and its hooks | a render's effect, a timer, a request |
| `TrafficGenerator` | `features/simulation`, with airport, hotel and beach reduced to what it meets | a request of a step is served, lost or answered |

### AirportGates

`reqPc` is a POST /arrivals: it chooses a gate (`ChooseGate`, without a lock), commits the
row (`SaveArrival`) and enqueues (`EnqueueArrival`), with any other thread in between. `wpc`
is a gate's worker through `Gate._run`: `PickBundle`/`PickNobody` are the locked section
with `_pick_next`, then the held rows, the processing rows, the processing time, the commit
and one publish per guest. `close_gate` is five steps (`CloseBegin` to `CloseDelete`);
`open_gate` is a test and a registration. A gate is an object, not an id: a request or a
worker may hold an object that is no longer registered, which is how guests get stranded.
`Crash` loses everything but the table, `RehydrateRow` and `RehydrateCommit` are the boot
sequence; it skips the rows of gates that were opened at run time (`Stranded`). Left open: which of several shortest gates `min()` takes, and the
order of events in a family. Two statements are one step where nothing depends on the gap:
`CloseBegin` is the test and the deactivation (`gate_manager.py` 251-260), `CloseRequeue` the choice
of a gate and the enqueue (272-275). Each arrival is taken to have its own guest id.

### HotelReservations

A POST checks its dates, asks the airport, lists the rooms, counts overlapping
reservations room by room, inserts and publishes; a DELETE finds, updates and publishes.
`counted` is a history variable: the rows that were confirmed when the request found its
room free.

### BeachActivities

`copy`, `copyCap` and `wasFull` are the Activity object a request read. Each transaction is
one step, since Exposed runs them at REPEATABLE READ and repeats one that conflicts; when
it gives up, `SaveFails`. `version`, `read`, `stale`, `agreed` and `hasty` are history:
whether a write came from an outdated copy, what the answers promised, and which visitors
had two bookings past their checks at the same time.

### CrabStore and GoatFarm

Both are mutex-protected stores that restock lazily. In the crab, quantities are ints that
wrap at `MaxInt`, `day` may be set back, and events are posted by goroutines in any order
or not at all. In the goat farm the clock moves inside a
request: a purchase starts the timer at `lag`, and quotes the time left at `late`, after it began.
An empty basket is refused by the crab's handler and never reaches the store.

### GatewayCache and RateLimiter

A flight is named by the request that leads it. `result` is published by `finishFlight`, and
`at` records when a response was put into the cache or published. Bodies are abstracted to the
version of the data they show, headers are left out. In the limiter the two atomics are loaded
and stored one at a time, so a request may see the limit of one update with the window of
another. The window configured at start (`FirstWindow`) is assumed to be positive: its default is a
minute, and `config.go:76` would also take a `GATEWAY_RATE_WINDOW` of zero or less, with which every
request later than the last starts a new window.

### BroadcastHub, LiveFeed and IslandFeed

A body is the set of its field names, since the strict schemas decide by names which bodies
pass. `link` is the transport of a connection, `wire` what was written to it and not read.
`Drop` breaks a connection at any time and loses what is on it; the hub learns of it later
(`RemoveClient`). The page's `es` are its EventSources, as many as it ever opens; that only one
is live is a result, not an assumption. `published` is a history variable, and so is `joined`, the events published before
the page's stream was up, which nobody replays. The refinement
mapping shows the store's lists as the abstract ones and, as the log, the lists each published
event belongs to.

### IslandSession, KikiQuest and IslandMap

`stored` is what sessionStorage holds; it may come from an older version that stored the guest
alone. `Reload` starts the store from it. The oracle panel exists twice on the map; only the
quest's instance reports its trials. Walking and waiting are the timeouts of their phase.

### QueryCache, IslandApp and the panels

An entry has its data and at most one fetch, whose answer is fixed when the service serves it
and arrives later. A mutation under way has a phase: sent, executed, answered or lost. Two ghost
fields, `crossed` and `missed`, record that a write of this tab may be missing from a fetch or
from the data; the properties use them to say exactly which races leave the screen wrong, and
`Overlooked` marks the entries a write changes without anything telling the cache. The
specification is `PanelsSpec`. The
services are reduced to a few sequences, and other tabs are left out, so whatever the screen gets
wrong is this tab's own doing.

The parrot runs in several instances (`Parrots`), each with conversations of its own in memory. The
gateway deals requests to them in turn (`Pick`); since all clients share its counter, a tab's next
request may meet any of them. An instance keeps the question with profanity masked (`Mask`), the
panel appends it as typed. A loaded history remembers the instance it was read from and the last
question sent before (`from`, `since`), for the property only. A forgotten conversation
(`Expire`) makes a difference when a request uses it, so it is dropped only while one is under way.
A cancelled reservation makes the hotel's panel ask again when the panel that sent the
cancellation is still open; `removeQueries` tells nobody else.

### GoatShop and TrafficGenerator

The popup's countdown is computed from the last answer and the popup's own clock; the effect
that refetches runs only when its dependencies change, which the model keeps (`shown`). In the
traffic generator a step carries the state it read (`was`); `overlapped` and `dropped` are
history: guests driven by two steps at a time, and guests whose reservation a second failure
lost sight of. Steps of a left page go on and write into the states of that page.

## 3. Runs

| Run | Shows | Instance |
| --- | --- | --- |
| `airport_restart` | across a crash at any point nobody is forgotten, processed or announced twice; adults, and minors that wait with an adult, are served; the only exception are rows of a gate opened at run time | a family and a fast-track adult, a gate and one opened at run time, 1 crash, no closes |
| `airport_close` | with two concurrent closes and a gate reopened under its old id: nobody queued twice, minors escorted, ranks in order; the last gate of a type goes only to closes that race in a circle, each counting on gates the others close | a family, 3 gate objects for 2 ids, 2 closes |
| `hotel` | clashes only between requests that raced, events follow the table | 3 rooms, 3 requests, a cancellation; stays that overlap, touch, or are invalid |
| `beach` | capacity, check-in and seriality, with activities removed and created anew; two activities for one visitor only after bookings made at once | 2 activities, 2 visitors, 3 requests, 2 admin requests |
| `crab` | stock of the day, sold counts, one announcement per day, with a basket whose sum wraps | 3 items, days in both directions, ints up to 7 |
| `goat_farm` | timer never lost or postponed; a popup at zero asks again, unless a request failed or the farm quoted zero | 1 item with stock 2, interval 2, a lag of 1 inside a request, 1 failed fetch |
| `cache` | one leader, freshness, forward-moving content, everybody answered except who follows an open stream | 3 requests over an ordinary key and a stream, 2 versions, expiry within the run |
| `limiter` | bursts bounded by twice the limit, refusals earned | 2 goroutines, 2 clients, limit and window changed once |
| `feed` | one stream; live again; implements `IslandFeed`; no event is missed on a stream that stays up | a page with up to 3 streams over 2 visits, the beach's listener and a stranger, 2 events of any route, 1 outage, lists of 1 |
| `map` | copies of a session agree; one dead end of the quest; earned meows can be spent | 2 guests, an admin, 1 zone; 3 questions with 2 options, a sequence of 2 colours |
| `panels` | reservation card, activities, menu and chat tell the truth, save for named races | 2 guests and an admin who share a tab, 2 mutations, 1 failure or refetch, 3 visits; 1 place, 1 portion; 2 parrots that keep 2 turns, a question with profanity |
| `traffic` | guests on the beach have a reservation; nothing made is forgotten, save for named races | 2 loops, 2 guests, 2 visits, 1 failure |

The bounds are chosen so that the cases exist: three requests are a leader, a follower and
an outsider; two closes are the race for the last gate; three requests of two visitors are a
lost update, a cancellation and its resurrection; one crash can hit every step of a worker or
a request. The airport's guests have no EU passports, so they go to ALL gates only; the choice
between an EU and an ALL gate (`Choices`) is covered by the theorems and not by a run. `MaxInt = 7` is small enough for one basket to wrap and large enough for all
others. A lag of
one tick inside a request of the goat farm reaches past the end of the interval. In `feed`,
three streams are a first connection, a reconnect after the outage and a second visit; two
events and lists of one entry make every list overflow. In `panels` two mutations are a booking
and its cancellation, or two questions to either
parrot; two questions never overflow a history of two turns, so that trimming is left to `ThreadsTrue`. Adding actors repeats these patterns, and the theorems of
section 4 remove the bound for the invariants they cover.

Several passing properties describe exactly how far the code goes, and so name what it does
not do: `OneActivityUnlessHasty` (two simultaneous bookings put a visitor into two
activities), `SerialBookings` (a save from an outdated copy undoes answered bookings),
`LastGateOnlyRaced`, `NobodyForgotten` with `Stranded`, `WithinDailyStock` with `NoOverflow`,
`AllAnswered` (the second subscriber of an event stream waits for the first one's stream to
end), `OnlyDeadEndIsSkipping`, `StuckOnlyByTheFarm`, and the `missed` and `overlapped` of
`CardTruthful`, `SettledTruth`, `ChatTruthful` and `NothingLeaks`.

### Known divergences

Where the code does not do what a comment, a document or a test of the repository says; met
while modelling, and part of the models unless said otherwise:

- `airport/models.py:9` says "Lifecycle: queued -> processing -> processed". `close_gate` takes
  the guest in the booth along while the worker that holds it keeps running; its save
  (`gate_manager.py:280`) sets the processed row back to queued. `Lifecycle` is therefore checked
  without closes.
- `hotel/README.md:63` says "Reservations assign one private room to a guest party". Count and
  insert are separate statements (`reservation.service.ts:66`): two requests can take one room.
  `ClashOnlyWhenRaced` states exactly when.
- `proxy.go:28` says that a duplicate `Access-Control-Allow-Origin` must not reach the browser.
  The captured headers of a cached response include those that CORSMiddleware set for the cached
  request, and `writeReplay` (`cache.go:108`) adds them again. Headers are not modelled.
- `beach/README.md:220-233` documents a broadcast with `activityId` and `remaining`, and
  `island-event.test.ts:61` tests that such an event patches the remaining slots. The strict beach
  schema (`schemas.ts:32`) lets neither field pass and the beach sends neither, so the handler is
  dead code: `livePush` is never set. No property is claimed for it.
- `parrot/README.md:141` says "conversation history is maintained across requests". There are two
  parrots (`docker-compose.yml:195`) behind a round robin (`pool.go` 54-75), each with its own
  store (`history.py:9`): a history read from one lacks every turn of the other, with no race at
  all, and the model behind a question sees only its own instance's turns. `ChatTruthful` claims what
  remains: the turns the loaded instance had and those asked since (`Due`). The stored question is
  masked (`llm.py` 117-122) while the panel appends the raw one, so a reload may change its text.
- `zone-registry.ts:72` gives the beach's marker the hotel's channel, so it pulses for
  reservations and not for the beach.
- The "Switch booking" button of `activity-action.tsx` sends a booking that
  `BookActivityUseCase` refuses, since the visitor is booked elsewhere.
- The oracle closed before any trial leaves Kiki at the octopus without a button.
- A popup whose farm answered zero twice stays at 0:00 until it is reopened.
- Panels: with larger bounds a late answer to a booking can bring back the card of a cancelled
  reservation; a chat closed and reopened may have two questions under way, whose replies are
  appended in the order they arrive; a refetch answered 404 keeps the old data on screen; removing
  an activity takes its bookings along, and `use-manage-activities.ts:17` invalidates the list of
  activities only, so a guest's booking stays on screen until it is fetched again.
- A held guest does get an estimate, and relatives in the booth no position
  (`gate_manager.py` 296-331); two overlapping cancellations both emit the event; `GET /rooms`
  adds guest counts that were not checked against the capacity when a party was given; the beach
  ignores cancelled stays; two updates of the limiter that each omit a field can lose one change,
  and a limit of 0 set between the two loads refuses a request.

Deadlock is checked except where a finite set of requests may simply be used up
(`CHECK_DEADLOCK FALSE`, with the reason in the cfg).

### Fairness

- Airport: weak fairness for each worker thread, for the boot sequence, and for requests
  and closes that have begun. The threads are daemons in endless loops and their sleeps end;
  nobody has to send a request, and a crash is never forced.
- Live feed: the hub answers requests, the browser runs its callbacks and timers. Nobody has to
  visit or leave the page, no event has to be sent, and the network need not break.
- Map: the timeout of a phase fires while the page lives. Nobody has to press anything.
- Cache: every goroutine goes on and every backend answers or fails (the transport
  reports an error when the connection breaks). Nothing forces an event stream to end.

## 4. Proofs

All theorems are checked by TLAPS for arbitrary constants that satisfy the module's ASSUME.

| Theorem | Inductive invariant and why it is needed |
| --- | --- |
| `TypeCorrect`, `Escorted` (airport) | `TypeInv` adds that a request that goes on has its gate and a close that saves has a guest and a target. `Escorted` rests on what `Without` and `Insert` do to the members of a queue and on the picked bundle being a whole family of the queue |
| `OrderedUntilRestart` (airport) | `OrderInv`: queues stay in rank order as long as nobody is rehydrated. A restart puts the guest who was in a booth to the front whatever its rank, hence `restarts = 0` |
| `NoneForgotten` (airport) | `KeptInv` with `RowInv` and `HandsInv`: an unfinished row is queued, in a booth or a bundle, in the hands of a close, still to be read by the boot sequence, or stranded; whoever is in memory has a row; hands are empty while the process boots. No assumption on closes or crashes |
| `NeverQueuedTwice` (airport) | `OnceInv`: queues are free of repetitions and apart from each other, from booths, from guests a close still has to move and from requests about to enqueue |
| `InHandOnce`, `AnnouncedOnce`, `ProcessedForGood` (airport) | `CalmInv`: a bundle is in no queue, its rows are processing until the commit and processed and unannounced until its publish. They hold while no close has got past its error returns (`NoCloseYet`), across any number of restarts: a close puts the guest in the booth back into a queue while the worker goes on |
| `LastGateKept` (airport) | `LastInv`: what a close counts on has another id of its type and is open or being closed by another close, so a type without gates leaves closes that count on each other in a circle. Under `IdsKeepTheirType`, since POST /admin/gates may reopen an id with another type |
| `EventsAreTrue` (hotel) | `EventsFollowTable` needs `HotelInv`, and that rows are never removed, a cancelled one stays cancelled, and a publisher has written its row |
| `HotelTypeCorrect`, `RacedOnly`, `PartyHasRoom` | `HotelInv`: a row exists exactly after the insert, the chosen room is one that fits, and (`Apart`) a row that was seen confirmed in the chosen room lies apart while it stays confirmed. A cancelled row never comes back, so `Apart` survives cancellations |
| `BeachTypeCorrect`, `CapacityKept`, `OnlyCheckedIn`, `SerialUnlessStale` | the same facts about every copy a request holds: a copy is saved together with the capacity it was checked against, which is why capacity survives stale writes although bookings do not |
| `OneActivityAtATime` (beach) | `HastySeen`: two bookings of a visitor that are both about to be saved, or one of a visitor booked elsewhere by now, mark the visitor as hasty; with `CopiesFresh` a fresh save adds nobody else |
| `DailyStockKept`, `SoldMatches`, `AnnouncedOncePerDay` (crab) | `CrabInv`: Sold is, as an int, the sum over the orders of the restock day (`SoldInv`); until a basket that wraps is accepted it is also what was handed out, within stock (`StockInv`), and an item whose last portion was announced has none left (`AnnouncedInv`). The sums over baskets and orders are recursive functions; what they compute is shown from the least number for which it would fail (`UpTo`), which needs no operator parameter |
| `TimerCorrect`, `StockCorrect`, `QuoteCorrect`, `TimerNeverPostponed` (goat farm) | `FarmInv`: all of them together, and the timer never starts in the future |
| `PopupAsksAgain`, `ShopImplementsFarm` (goat farm popup) | `ShopInv` adds to `FarmInv` that the number shown is the one computed from the popup's data and clock, and that this clock is never ahead: a countdown that is over stays over until new data arrives. The popup touches the farm by its two handlers only, so the farm's theorems hold behind it |
| `CacheTypeCorrect`, `OneLeader`, `NoStaleAnswer`, `NeverBackwards` (cache) | `IInv`: the flight of a key and its leader point at each other until `finishFlight`; a follower came in before the result it waits for was published; a version about to be stored is at least the one stored last, because no other leader can store for the key meanwhile |
| `RateTypeCorrect`, `BurstsBounded`, `RefusalsFair` (limiter) | `Paced`, for each client: the last `count` admissions belong to the window, earlier ones lie a shortest window before its end, and those more than a largest limit before them a shortest window before now; so twice the largest limit admissions are always further apart than a shortest window. `Loaded`: what requests and updates have read are configured values, stale as they may be. Limits and windows need a largest element, which ints have |
| `NeverTwoStreams` (feed) | `FeedInv`: `OneStream` with types, and a positive back-off, without which a scheduled reconnect would not count as pending |
| `FeedImplementsIslandFeed` (feed) | `FullInv` adds `WireInv`: only the live connection has unread events, they are in order, published, and newer than the newest one shown. Every route is first reduced to one broadcast of a well-typed event (`RouteBroadcasts`). A broadcast is then a `Post`, `OnMessage` a `Show` of the oldest unread event, every other step a stutter |
| `NothingMissed` (feed) | `GapInv` adds that a stream that is up is registered at the hub, so that a broadcast is written to it, and that lists are descending and not newer than what was shown, so that an ingested event is put in front and a full list drops its oldest only |
| `CardsTrue`, `ScreensTrue`, `ThreadsTrue` (panels) | `PanelsInv`, which speaks of the data of an entry and of the answer of its fetch in the same words, since one becomes the other. `CardOK`: a card and a late answer name a reservation of the guest that stands, or whose cancellation still has its callback to run. `ScreenOK`: what is not marked as crossed is the services' present state, or a mutation whose callback will invalidate it is answered (`Awaited`). `TurnsInv`: an instance keeps each turn once, masked, and none that is still to be served. `HistoryOK`: a thread, or an answer that will become one, is true to every instance apart from replies still to be appended (`TrueTo`). A stored turn is the newest of its instance and drops at most the oldest (`TrimShifts`), so nothing that is due disappears from the order. `EveryStep` first reduces the steps of the five panels to ten kinds of steps, by what they do to cache, requests and services |
| `SessionsAgree` (map) | `SessionCoherent` is inductive as it stands, from the fact that whatever `Migrate` restores is coherent |
| `QuestGoesOn` (map) | `QuestInv`: the oracle is only open at the octopus, a trial passed there has paid for the burger, and the meows stay until it is bought |
| `BeachGuestsHold` (traffic) | `ResidentsStay`: a guest seeded in the hotel has no reservation, is never checked in, so none of its bookings succeeds. `OthersBook`: everybody else's state, and the state every step has read, names a reservation of the guest from the hotel on. `AtStage` ties a step's request to the stage it read |
| `ReservationsKnown` (traffic) | `Tracked`, for guests neither `overlapped` nor `dropped`: one step of this visit at most, which has read the present state, and the confirmed reservations of this visit are the one that the step, or between steps the state, knows. `NoneAhead` keeps steps of earlier visits out of it |

The invariants are proved by step lemmas, one per action or group of actions that disturb the same
parts, and under each one step per conjunct. `TrafficInv` and `PanelsInv` were also checked by TLC as
invariants of the instance of their run before they were proved. The assumptions on constants are
those the code's types give; the panels' (`PanelsAssumption`) are finitely many guests, that nobody
is called `Nobody`, and a bound on turns that is a natural number.

Only model-checked: liveness (`AdultsProcessed`, `FamiliesProcessed`, `AllAnswered`,
`EventuallyLive`, `EarnedIsSpendable`), since fairness is outside the prover. Every other property of
a passing run is stated by a theorem. Types (`TypeOK`), `PartyFits`, `NothingOversold` and `QuoteInInterval` are
proved and not repeated by a run.

## 5. Not modelled

Forwarding, header rewriting, logging and health checks of the gateway; the assistant's language
model, its tool loop and its profanity events; rendering, panning and
animation; the administrator's read-only summaries and the announcement form; generated UI
components and the mock service worker of the tests; deployment files; the evaluation scripts of
the assistant. The airport's positions and waiting times and the occupancy of `GET /rooms` are
pure reads. Lists with filters and paging (GET /arrivals, GET /reservations, GET /activities) read
the tables and change nothing. Database failures other than those named, and clients of the
services that hang up, are left out; the panels' lost answers are their counterpart.

## 6. Plan

1. `ParrotChat`: the assistant's tool loop, with the history read before it and written after it.
2. Abstract specifications: `Arrivals` (an arrival waits, is served once, is announced at most
   once), implemented by `AirportGates` without closes; a serial booking ledger, implemented by
   `BeachActivities` when requests do not overlap.
