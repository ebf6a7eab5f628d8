---------------------------- MODULE GatewayCache ----------------------------
(***************************************************************************)
(* The gateway's response cache (gateway/cache.go) in front of one route:  *)
(* GET and HEAD answers are kept for a time to live, and requests for one  *)
(* key that miss while a fetch is under way wait for it (single flight).   *)
(*                                                                         *)
(* One action is one section under the cache's or the flights' lock, or    *)
(* one step of the proxied fetch.  A flight is named by the request that   *)
(* leads it.  A body is the version of the backend's data it was read from.*)
(***************************************************************************)
EXTENDS Integers

CONSTANTS
  Requests,          \* GET and HEAD requests
  Keys,              \* method, path and query
  Streams,           \* the keys that are answered with an event stream
  TTL, MaxTime,      \* time to live, and a bound on the clock
  MaxVersion,        \* bound on changes of the backend's data
  NoKey, NoFlight, NoEntry,
  NoAnswer, Streaming, Failed    \* answers without a cacheable response

\* A captured response; `at` is when it was put into the cache or handed to the
\* waiters.
Response == [version : Nat \ {0}, at : Nat]

ASSUME CacheAssumption ==
  /\ Streams \subseteq Keys /\ NoKey \notin Keys
  /\ NoFlight \notin Requests
  /\ TTL \in Nat \ {0} /\ MaxTime \in Nat /\ MaxVersion \in Nat \ {0}
  /\ NoEntry \notin Response
  /\ \A x \in {NoAnswer, Streaming, Failed} : x \notin Response

VARIABLES
  now,
  data,                        \* version of the backend's data behind a key
  pc, key, arrived,            \* a request: progress, key, arrival time
  entries,                     \* the cached response of a key, see Response
  flights,                     \* the leader of the flight of a key
  fl, result, closed,          \* flight a request is in; a flight's result, done
  answer,                      \* what the client received
  stored                       \* history: version last put into the cache

reqVars    == <<pc, key, arrived, answer>>
cacheVars  == <<entries, stored>>
flightVars == <<flights, fl, result, closed>>
vars == <<now, data, reqVars, cacheVars, flightVars>>

Pc == {"new", "begin", "fetch", "stream", "store", "finish", "close", "wait", "own",
       "done"}

\* The zero flightResult, which is not cacheable.
NotCacheable == [version |-> 0, at |-> 0]
Cacheable(res) == res.version > 0

TypeOK ==
  /\ now \in Nat
  /\ data \in [Keys -> Nat \ {0}]
  /\ pc \in [Requests -> Pc]
  /\ key \in [Requests -> Keys \cup {NoKey}]
  /\ arrived \in [Requests -> Nat]
  /\ entries \in [Keys -> Response \cup {NoEntry}]
  /\ flights \in [Keys -> Requests \cup {NoFlight}]
  /\ fl \in [Requests -> Requests \cup {NoFlight}]
  /\ result \in [Requests -> Response \cup {NotCacheable}]
  /\ closed \in [Requests -> BOOLEAN]
  /\ answer \in [Requests -> Response \cup {NoAnswer, Streaming, Failed}]
  /\ stored \in [Keys -> Nat]

Init ==
  /\ now = 0
  /\ data = [k \in Keys |-> 1]
  /\ pc = [r \in Requests |-> "new"]
  /\ key = [r \in Requests |-> NoKey]
  /\ arrived = [r \in Requests |-> 0]
  /\ entries = [k \in Keys |-> NoEntry]
  /\ flights = [k \in Keys |-> NoFlight]
  /\ fl = [r \in Requests |-> NoFlight]
  /\ result = [r \in Requests |-> NotCacheable]
  /\ closed = [r \in Requests |-> FALSE]
  /\ answer = [r \in Requests |-> NoAnswer]
  /\ stored = [k \in Keys |-> 0]
-----------------------------------------------------------------------------
\* responseCache.get finds an entry.  Mutant: entries do not expire.
FreshMutant(k) == entries[k] # NoEntry
Fresh(k) == entries[k] # NoEntry /\ now <= entries[k].at + TTL

\* ... and deletes one that has expired.
AfterGet(k) == [entries EXCEPT ![k] = IF Fresh(k) THEN @ ELSE NoEntry]

\* A request comes in and looks into the cache.
Get(r, k) ==
  /\ pc[r] = "new"
  /\ key' = [key EXCEPT ![r] = k]
  /\ arrived' = [arrived EXCEPT ![r] = now]
  /\ entries' = AfterGet(k)
  /\ IF Fresh(k)
     THEN /\ answer' = [answer EXCEPT ![r] = entries[k]]
          /\ pc' = [pc EXCEPT ![r] = "done"]
     ELSE answer' = answer /\ pc' = [pc EXCEPT ![r] = "begin"]
  /\ UNCHANGED <<now, data, stored, flightVars>>

\* beginFlight: lead a new flight or follow the one under way.  Mutant: every
\* request leads.
BeginMutant(r) ==
  /\ pc[r] = "begin"
  /\ flights' = [flights EXCEPT ![key[r]] = r]
  /\ fl' = [fl EXCEPT ![r] = r] /\ pc' = [pc EXCEPT ![r] = "fetch"]
  /\ UNCHANGED <<now, data, key, arrived, answer, cacheVars, result, closed>>
Begin(r) ==
  /\ pc[r] = "begin"
  /\ IF flights[key[r]] = NoFlight
     THEN /\ flights' = [flights EXCEPT ![key[r]] = r]
          /\ fl' = [fl EXCEPT ![r] = r] /\ pc' = [pc EXCEPT ![r] = "fetch"]
     ELSE /\ flights' = flights
          /\ fl' = [fl EXCEPT ![r] = flights[key[r]]]
          /\ pc' = [pc EXCEPT ![r] = "wait"]
  /\ UNCHANGED <<now, data, key, arrived, answer, cacheVars, result, closed>>

\* What the backend sends for a key now.
Fetched(r) == [version |-> data[key[r]], at |-> now]

\* The leader's fetch returns a 200, passed on to its client and captured.
Fetch(r) ==
  /\ pc[r] = "fetch" /\ key[r] \notin Streams
  /\ answer' = [answer EXCEPT ![r] = Fetched(r)]
  /\ result' = [result EXCEPT ![r] = Fetched(r)]
  /\ pc' = [pc EXCEPT ![r] = "store"]
  /\ UNCHANGED <<now, data, key, arrived, cacheVars, flights, fl, closed>>

\* An error answer, or a panic of the proxy: the result stays the zero value and
\* the deferred finishFlight runs.  Mutant: it does not run.
FetchFailsMutant(r) ==
  /\ pc[r] = "fetch"
  /\ answer' = [answer EXCEPT ![r] = Failed]
  /\ pc' = [pc EXCEPT ![r] = "done"]
  /\ UNCHANGED <<now, data, key, arrived, cacheVars, flightVars>>
FetchFails(r) ==
  /\ pc[r] = "fetch"
  /\ answer' = [answer EXCEPT ![r] = Failed]
  /\ pc' = [pc EXCEPT ![r] = "finish"]
  /\ UNCHANGED <<now, data, key, arrived, cacheVars, flightVars>>

\* An event stream passes through; the handler returns only when it ends.
OpenStream(r) ==
  /\ pc[r] = "fetch" /\ key[r] \in Streams
  /\ answer' = [answer EXCEPT ![r] = Streaming]
  /\ pc' = [pc EXCEPT ![r] = "stream"]
  /\ UNCHANGED <<now, data, key, arrived, cacheVars, flightVars>>

EndStream(r) ==
  /\ pc[r] = "stream"
  /\ pc' = [pc EXCEPT ![r] = "finish"]
  /\ UNCHANGED <<now, data, key, arrived, answer, cacheVars, flightVars>>

\* responseCache.set; the entry expires TTL from now.
Store(r) ==
  /\ pc[r] = "store"
  /\ entries' = [entries EXCEPT ![key[r]] = [result[r] EXCEPT !.at = now]]
  /\ stored' = [stored EXCEPT ![key[r]] = result[r].version]
  /\ pc' = [pc EXCEPT ![r] = "finish"]
  /\ UNCHANGED <<now, data, key, arrived, answer, flightVars>>

\* finishFlight publishes the result and deletes the flight under the lock ...
Finish(r) ==
  /\ pc[r] = "finish"
  /\ flights' = [flights EXCEPT ![key[r]] = NoFlight]
  /\ result' = [result EXCEPT ![r] = IF Cacheable(@) THEN [@ EXCEPT !.at = now] ELSE @]
  /\ pc' = [pc EXCEPT ![r] = "close"]
  /\ UNCHANGED <<now, data, key, arrived, answer, cacheVars, fl, closed>>

\* ... and then closes its channel.
Close(r) ==
  /\ pc[r] = "close"
  /\ closed' = [closed EXCEPT ![r] = TRUE]
  /\ pc' = [pc EXCEPT ![r] = "done"]
  /\ UNCHANGED <<now, data, key, arrived, answer, cacheVars, flights, fl, result>>

\* A follower answers from the cache, else from the result it waited for.  Mutant:
\* it puts that result into the cache itself.
ShareMutant(r) ==
  /\ answer' = [answer EXCEPT ![r] = result[fl[r]]]
  /\ entries' = [entries EXCEPT ![key[r]] = [result[fl[r]] EXCEPT !.at = now]]
  /\ stored' = [stored EXCEPT ![key[r]] = result[fl[r]].version]
  /\ pc' = [pc EXCEPT ![r] = "done"]
  /\ UNCHANGED <<now, data, key, arrived, flightVars>>
Share(r) ==
  LET k == key[r] IN
  /\ answer' = [answer EXCEPT ![r] = IF Fresh(k) THEN entries[k] ELSE result[fl[r]]]
  /\ entries' = AfterGet(k)
  /\ pc' = [pc EXCEPT ![r] = "done"]
  /\ UNCHANGED <<now, data, key, arrived, stored, flightVars>>

\* A follower wakes up to a result it can share.
Wake(r) ==
  /\ pc[r] = "wait" /\ closed[fl[r]] /\ Cacheable(result[fl[r]])
  /\ Share(r)

\* Nothing to share: the follower fetches for itself and caches nothing.
WakeEmpty(r) ==
  /\ pc[r] = "wait" /\ closed[fl[r]] /\ ~Cacheable(result[fl[r]])
  /\ pc' = [pc EXCEPT ![r] = "own"]
  /\ UNCHANGED <<now, data, key, arrived, answer, cacheVars, flightVars>>

OwnFetch(r, ok) ==
  /\ pc[r] = "own"
  /\ answer' = [answer EXCEPT ![r] = IF ~ok THEN Failed
                                     ELSE IF key[r] \in Streams THEN Streaming
                                     ELSE Fetched(r)]
  /\ pc' = [pc EXCEPT ![r] = "done"]
  /\ UNCHANGED <<now, data, key, arrived, cacheVars, flightVars>>

\* Any other method passes the cache untouched and may change the backend; what a
\* stream carries has no version.
PassThrough(k) ==
  /\ k \notin Streams /\ data[k] < MaxVersion
  /\ data' = [data EXCEPT ![k] = @ + 1]
  /\ UNCHANGED <<now, reqVars, cacheVars, flightVars>>

Tick ==
  /\ now < MaxTime /\ now' = now + 1
  /\ UNCHANGED <<data, reqVars, cacheVars, flightVars>>
-----------------------------------------------------------------------------
\* The steps a request takes once it has come in, except that nobody has to
\* close an event stream.
Serve(r) ==
  \/ Begin(r) \/ Fetch(r) \/ FetchFails(r) \/ OpenStream(r) \/ Store(r) \/ Finish(r)
  \/ Close(r) \/ Wake(r) \/ WakeEmpty(r) \/ \E ok \in BOOLEAN : OwnFetch(r, ok)

Arrive(r) == \E k \in Keys : Get(r, k)

Next == \/ \E r \in Requests : Arrive(r) \/ Serve(r) \/ EndStream(r)
        \/ \E k \in Keys : PassThrough(k)
        \/ Tick

Spec == Init /\ [][Next]_vars

\* Every goroutine runs on and every backend answers or fails.
FairSpec == Spec /\ \A r \in Requests : WF_vars(Serve(r))
-----------------------------------------------------------------------------
Leading(r) == pc[r] \in {"fetch", "stream", "store", "finish"}

\* The backend never serves two leading fetches of one key at a time: a flight is
\* not forgotten or replaced before its response is in the cache.
SingleFlight ==
  \A q, r \in Requests : Leading(q) /\ Leading(r) /\ key[q] = key[r] => q = r

\* No client gets a response that was put into the cache, or handed to waiting
\* requests, more than the time to live before the client asked.
FreshEnough ==
  \A r \in Requests :
    answer[r] \notin {NoAnswer, Streaming, Failed} => arrived[r] <= answer[r].at + TTL

\* A key's cached content never goes back to older data, not even after it has
\* expired and was fetched anew by another flight.
CacheMovesForward == [][\A k \in Keys : stored'[k] >= stored[k]]_vars

\* Again and again every request that came in is answered, also when the leader it
\* follows fails or panics.  Only one that follows an event stream waits for as long
\* as that stream is open.
AllAnswered ==
  []<>(\A r \in Requests :
         \/ pc[r] = "new" \/ answer[r] # NoAnswer
         \/ pc[r] = "wait" /\ pc[fl[r]] = "stream")
=============================================================================
