---------------------------- MODULE CacheProofs ----------------------------
(***************************************************************************)
(* Proofs about the gateway: its response cache, for any number of         *)
(* requests, keys and any time to live, and its rate limiter, for any      *)
(* clients, limits, windows and updates of them.                           *)
(***************************************************************************)
EXTENDS GatewayCache, RateLimiter, FiniteSetTheorems, WellFoundedInduction,
        NaturalsInduction, TLAPS

\* Stamping a response anew changes its time only.
LEMMA StampResponse ==
  ASSUME NEW t \in Nat, NEW res \in Response
  PROVE  /\ [res EXCEPT !.at = t] \in Response
         /\ [res EXCEPT !.at = t].at = t
         /\ [res EXCEPT !.at = t].version = res.version
BY DEF Response

\* A result that can be shared is a response.
LEMMA CacheableResponse ==
  ASSUME NEW res \in Response \cup {NotCacheable}, Cacheable(res)
  PROVE  res \in Response
BY DEF Cacheable, NotCacheable, Response

\* What a fetch brings is a response of the present.
LEMMA FetchedResponse ==
  ASSUME TypeOK, NEW r \in Requests, key[r] \in Keys
  PROVE  Fetched(r) \in Response /\ Fetched(r).at = now
                                 /\ Fetched(r).version = data[key[r]]
BY DEF TypeOK, Fetched, Response

-----------------------------------------------------------------------------
\* A request that has come in has a key; it came in before now.
Known == \A r \in Requests : pc[r] # "new" => key[r] \in Keys /\ arrived[r] <= now

\* Nobody is answered before asking.
Unanswered == \A r \in Requests : pc[r] = "new" => answer[r] = NoAnswer

\* The flight of a key is led by a request that is still leading it ...
FlightsLed ==
  \A k \in Keys : flights[k] # NoFlight => Leading(flights[k]) /\ key[flights[k]] = k

\* ... and no leading request has lost its flight.
LeadersFly == \A r \in Requests : Leading(r) => flights[key[r]] = r

\* A request stores what it fetched, which is a response.
Captured ==
  \A r \in Requests : pc[r] = "store" => result[r] \in Response

\* A request waits for a flight that it joined before the result was published.
Followers ==
  \A r \in Requests : pc[r] = "wait" =>
    /\ fl[r] \in Requests
    /\ Leading(fl[r]) \/ pc[fl[r]] \in {"close", "done"}
    /\ (~Leading(fl[r]) /\ Cacheable(result[fl[r]])) => arrived[r] <= result[fl[r]].at

\* Only a flight that is over has its channel closed.
ClosedDone == \A r \in Requests : closed[r] => pc[r] = "done"

\* The version about to be stored is as new as the one stored last.
VersionsUp ==
  /\ \A k \in Keys : stored[k] <= data[k]
  /\ \A r \in Requests : pc[r] = "store" =>
       stored[key[r]] <= result[r].version /\ result[r].version <= data[key[r]]

IInv == /\ TypeOK /\ Known /\ Unanswered /\ FlightsLed /\ LeadersFly /\ Captured /\ Followers
        /\ ClosedDone /\ VersionsUp /\ FreshEnough

\* The inductive invariant holds of an empty cache.
LEMMA InitIInv == Init => IInv
<1> SUFFICES ASSUME Init PROVE IInv
  OBVIOUS
<1> USE CacheAssumption
<1>1. TypeOK
  BY DEF Init, TypeOK, Pc, Response, NotCacheable
<1>2. Known /\ Unanswered /\ FlightsLed /\ LeadersFly /\ Captured /\ Followers /\ ClosedDone
  BY DEF Init, Known, Unanswered, FlightsLed, LeadersFly, Captured, Followers, ClosedDone, Leading
<1>3. VersionsUp
  BY DEF Init, VersionsUp
<1>4. FreshEnough
  BY DEF Init, FreshEnough
<1>5. QED
  BY <1>1, <1>2, <1>3, <1>4 DEF IInv
-----------------------------------------------------------------------------
(* Types.                                                                  *)

\* Every step of the middleware keeps the types.
LEMMA TypeStep == ASSUME IInv, [Next]_vars PROVE TypeOK'
<1> USE CacheAssumption DEF IInv
<1>1. ASSUME NEW r \in Requests, NEW k \in Keys, Get(r, k) PROVE TypeOK'
  <2>1. AfterGet(k) \in [Keys -> Response \cup {NoEntry}]
    BY DEF TypeOK, AfterGet
  <2>2. ASSUME Fresh(k) PROVE entries[k] \in Response
    BY <2>2 DEF TypeOK, Fresh
  <2>3. answer' \in [Requests -> Response \cup {NoAnswer, Streaming, Failed}]
    BY <1>1, <2>2 DEF TypeOK, Get
  <2>4. QED
    BY <1>1, <2>1, <2>3 DEF TypeOK, Get, Pc, flightVars
<1>2. ASSUME NEW r \in Requests, Begin(r) PROVE TypeOK'
  BY <1>2 DEF TypeOK, Begin, Pc, Known, cacheVars
<1>3. ASSUME NEW r \in Requests, Fetch(r) PROVE TypeOK'
  <2>1. Fetched(r) \in Response
    BY <1>3, FetchedResponse DEF Fetch, Known
  <2>2. QED
    BY <1>3, <2>1 DEF TypeOK, Fetch, Pc, cacheVars
<1>4. ASSUME NEW r \in Requests, FetchFails(r) PROVE TypeOK'
  BY <1>4 DEF TypeOK, FetchFails, Pc, cacheVars, flightVars
<1>5. ASSUME NEW r \in Requests, OpenStream(r) PROVE TypeOK'
  BY <1>5 DEF TypeOK, OpenStream, Pc, cacheVars, flightVars
<1>6. ASSUME NEW r \in Requests, EndStream(r) PROVE TypeOK'
  BY <1>6 DEF TypeOK, EndStream, Pc, cacheVars, flightVars
<1>7. ASSUME NEW r \in Requests, Store(r) PROVE TypeOK'
  <2>1. [result[r] EXCEPT !.at = now] \in Response /\ result[r].version \in Nat
    <3>1. result[r] \in Response /\ now \in Nat
      BY <1>7 DEF Store, Captured, TypeOK
    <3>2. QED
      BY <3>1, StampResponse DEF Response
  <2>2. QED
    BY <1>7, <2>1 DEF TypeOK, Store, Pc, Known, flightVars
<1>8. ASSUME NEW r \in Requests, Finish(r) PROVE TypeOK'
  <2>1. Cacheable(result[r]) => [result[r] EXCEPT !.at = now] \in Response
    BY CacheableResponse, StampResponse DEF TypeOK
  <2>2. QED
    BY <1>8, <2>1 DEF TypeOK, Finish, Pc, cacheVars
<1>9. ASSUME NEW r \in Requests, Close(r) PROVE TypeOK'
  BY <1>9 DEF TypeOK, Close, Pc, cacheVars
<1>10. ASSUME NEW r \in Requests, Wake(r) PROVE TypeOK'
  <2> DEFINE src == IF Fresh(key[r]) THEN entries[key[r]] ELSE result[fl[r]]
  <2>1. key[r] \in Keys /\ fl[r] \in Requests
    BY <1>10 DEF Wake, Known, Followers
  <2>2. src \in Response
    BY <1>10, <2>1, CacheableResponse DEF TypeOK, Fresh, Wake
  <2>4. AfterGet(key[r]) \in [Keys -> Response \cup {NoEntry}]
    BY DEF TypeOK, AfterGet
  <2>5. answer' = [answer EXCEPT ![r] = src]
    BY <1>10 DEF Wake, Share
  <2>6. QED
    <3> HIDE DEF src
    <3> QED
      BY <1>10, <2>2, <2>4, <2>5 DEF TypeOK, Wake, Share, Pc, flightVars
<1>11. ASSUME NEW r \in Requests, WakeEmpty(r) PROVE TypeOK'
  BY <1>11 DEF TypeOK, WakeEmpty, Pc, cacheVars, flightVars
<1>12. ASSUME NEW r \in Requests, NEW ok \in BOOLEAN, OwnFetch(r, ok) PROVE TypeOK'
  <2>1. Fetched(r) \in Response
    BY <1>12, FetchedResponse DEF OwnFetch, Known
  <2>2. QED
    BY <1>12, <2>1 DEF TypeOK, OwnFetch, Pc, cacheVars, flightVars
<1>13. ASSUME NEW k \in Keys, PassThrough(k) PROVE TypeOK'
  BY <1>13 DEF TypeOK, PassThrough, reqVars, cacheVars, flightVars
<1>14. CASE Tick
  BY <1>14 DEF TypeOK, Tick, reqVars, cacheVars, flightVars
<1>15. CASE UNCHANGED vars
  BY <1>15 DEF TypeOK, vars, reqVars, cacheVars, flightVars
<1>16. QED
  BY <1>1, <1>2, <1>3, <1>4, <1>5, <1>6, <1>7, <1>8, <1>9, <1>10, <1>11, <1>12, <1>13,
     <1>14, <1>15 DEF Next, Arrive, Serve
-----------------------------------------------------------------------------
(* Flights.                                                                *)

\* What a request is given when it comes in stays; only a flight that is over is closed.
LEMMA KnownStep == ASSUME IInv, [Next]_vars PROVE (Known /\ Unanswered /\ ClosedDone)'
<1> USE CacheAssumption DEF IInv, TypeOK, Known, Unanswered, ClosedDone
<1>1. ASSUME NEW r \in Requests, NEW k \in Keys, Get(r, k) PROVE (Known /\ Unanswered /\ ClosedDone)'
  BY <1>1 DEF Get, reqVars, cacheVars, flightVars
<1>2. ASSUME NEW r \in Requests, Begin(r) PROVE (Known /\ Unanswered /\ ClosedDone)'
  BY <1>2 DEF Begin, reqVars, cacheVars, flightVars
<1>3. ASSUME NEW r \in Requests, Fetch(r) PROVE (Known /\ Unanswered /\ ClosedDone)'
  BY <1>3 DEF Fetch, reqVars, cacheVars, flightVars
<1>4. ASSUME NEW r \in Requests, FetchFails(r) PROVE (Known /\ Unanswered /\ ClosedDone)'
  BY <1>4 DEF FetchFails, reqVars, cacheVars, flightVars
<1>5. ASSUME NEW r \in Requests, OpenStream(r) PROVE (Known /\ Unanswered /\ ClosedDone)'
  BY <1>5 DEF OpenStream, reqVars, cacheVars, flightVars
<1>6. ASSUME NEW r \in Requests, EndStream(r) PROVE (Known /\ Unanswered /\ ClosedDone)'
  BY <1>6 DEF EndStream, reqVars, cacheVars, flightVars
<1>7. ASSUME NEW r \in Requests, Store(r) PROVE (Known /\ Unanswered /\ ClosedDone)'
  BY <1>7 DEF Store, reqVars, cacheVars, flightVars
<1>8. ASSUME NEW r \in Requests, Finish(r) PROVE (Known /\ Unanswered /\ ClosedDone)'
  BY <1>8 DEF Finish, reqVars, cacheVars, flightVars
<1>9. ASSUME NEW r \in Requests, Close(r) PROVE (Known /\ Unanswered /\ ClosedDone)'
  BY <1>9 DEF Close, reqVars, cacheVars, flightVars
<1>10. ASSUME NEW r \in Requests, Wake(r) PROVE (Known /\ Unanswered /\ ClosedDone)'
  BY <1>10 DEF Wake, Share, reqVars, cacheVars, flightVars
<1>11. ASSUME NEW r \in Requests, WakeEmpty(r) PROVE (Known /\ Unanswered /\ ClosedDone)'
  BY <1>11 DEF WakeEmpty, reqVars, cacheVars, flightVars
<1>12. ASSUME NEW r \in Requests, NEW ok \in BOOLEAN, OwnFetch(r, ok) PROVE (Known /\ Unanswered /\ ClosedDone)'
  BY <1>12 DEF OwnFetch, reqVars, cacheVars, flightVars
<1>13. ASSUME NEW k \in Keys, PassThrough(k) PROVE (Known /\ Unanswered /\ ClosedDone)'
  BY <1>13 DEF PassThrough, reqVars, cacheVars, flightVars
<1>14. CASE Tick
  BY <1>14 DEF Tick, reqVars, cacheVars, flightVars
<1>15. CASE UNCHANGED vars
  BY <1>15 DEF vars, reqVars, cacheVars, flightVars
<1> HIDE DEF IInv, TypeOK, Known, Unanswered, ClosedDone
<1>16. QED
  BY <1>1, <1>2, <1>3, <1>4, <1>5, <1>6, <1>7, <1>8, <1>9, <1>10, <1>11, <1>12, <1>13,
     <1>14, <1>15 DEF Next, Arrive, Serve

\* A flight is led until its leader deletes it, and nobody else takes its place.
LEMMA FlightStep == ASSUME IInv, [Next]_vars PROVE (FlightsLed /\ LeadersFly)'
<1> USE CacheAssumption DEF IInv, TypeOK, Known, FlightsLed, LeadersFly, Leading
<1>1. ASSUME NEW r \in Requests, NEW k \in Keys, Get(r, k) PROVE (FlightsLed /\ LeadersFly)'
  BY <1>1 DEF Get, reqVars, cacheVars, flightVars
<1>2. ASSUME NEW r \in Requests, Begin(r) PROVE (FlightsLed /\ LeadersFly)'
  BY <1>2 DEF Begin, reqVars, cacheVars, flightVars
<1>3. ASSUME NEW r \in Requests, Fetch(r) PROVE (FlightsLed /\ LeadersFly)'
  BY <1>3 DEF Fetch, reqVars, cacheVars, flightVars
<1>4. ASSUME NEW r \in Requests, FetchFails(r) PROVE (FlightsLed /\ LeadersFly)'
  BY <1>4 DEF FetchFails, reqVars, cacheVars, flightVars
<1>5. ASSUME NEW r \in Requests, OpenStream(r) PROVE (FlightsLed /\ LeadersFly)'
  BY <1>5 DEF OpenStream, reqVars, cacheVars, flightVars
<1>6. ASSUME NEW r \in Requests, EndStream(r) PROVE (FlightsLed /\ LeadersFly)'
  BY <1>6 DEF EndStream, reqVars, cacheVars, flightVars
<1>7. ASSUME NEW r \in Requests, Store(r) PROVE (FlightsLed /\ LeadersFly)'
  BY <1>7 DEF Store, reqVars, cacheVars, flightVars
<1>8. ASSUME NEW r \in Requests, Finish(r) PROVE (FlightsLed /\ LeadersFly)'
  BY <1>8 DEF Finish, reqVars, cacheVars, flightVars
<1>9. ASSUME NEW r \in Requests, Close(r) PROVE (FlightsLed /\ LeadersFly)'
  BY <1>9 DEF Close, reqVars, cacheVars, flightVars
<1>10. ASSUME NEW r \in Requests, Wake(r) PROVE (FlightsLed /\ LeadersFly)'
  BY <1>10 DEF Wake, Share, reqVars, cacheVars, flightVars
<1>11. ASSUME NEW r \in Requests, WakeEmpty(r) PROVE (FlightsLed /\ LeadersFly)'
  BY <1>11 DEF WakeEmpty, reqVars, cacheVars, flightVars
<1>12. ASSUME NEW r \in Requests, NEW ok \in BOOLEAN, OwnFetch(r, ok) PROVE (FlightsLed /\ LeadersFly)'
  BY <1>12 DEF OwnFetch, reqVars, cacheVars, flightVars
<1>13. ASSUME NEW k \in Keys, PassThrough(k) PROVE (FlightsLed /\ LeadersFly)'
  BY <1>13 DEF PassThrough, reqVars, cacheVars, flightVars
<1>14. CASE Tick
  BY <1>14 DEF Tick, reqVars, cacheVars, flightVars
<1>15. CASE UNCHANGED vars
  BY <1>15 DEF vars, reqVars, cacheVars, flightVars
<1> HIDE DEF IInv, TypeOK, Known, FlightsLed, LeadersFly, Leading
<1>16. QED
  BY <1>1, <1>2, <1>3, <1>4, <1>5, <1>6, <1>7, <1>8, <1>9, <1>10, <1>11, <1>12, <1>13,
     <1>14, <1>15 DEF Next, Arrive, Serve

\* A flight that is followed publishes its result after its followers came in.
LEMMA FollowerStep == ASSUME IInv, [Next]_vars PROVE Followers'
<1> USE CacheAssumption DEF IInv, TypeOK, Known, FlightsLed, LeadersFly, ClosedDone, Followers, Leading
<1>1. ASSUME NEW r \in Requests, NEW k \in Keys, Get(r, k) PROVE Followers'
  BY <1>1 DEF Get, reqVars, cacheVars, flightVars
<1>2. ASSUME NEW r \in Requests, Begin(r) PROVE Followers'
  BY <1>2 DEF Begin, reqVars, cacheVars, flightVars
<1>3. ASSUME NEW r \in Requests, Fetch(r) PROVE Followers'
  BY <1>3 DEF Fetch, reqVars, cacheVars, flightVars
<1>4. ASSUME NEW r \in Requests, FetchFails(r) PROVE Followers'
  BY <1>4 DEF FetchFails, reqVars, cacheVars, flightVars
<1>5. ASSUME NEW r \in Requests, OpenStream(r) PROVE Followers'
  BY <1>5 DEF OpenStream, reqVars, cacheVars, flightVars
<1>6. ASSUME NEW r \in Requests, EndStream(r) PROVE Followers'
  BY <1>6 DEF EndStream, reqVars, cacheVars, flightVars
<1>7. ASSUME NEW r \in Requests, Store(r) PROVE Followers'
  BY <1>7 DEF Store, reqVars, cacheVars, flightVars
<1>8. ASSUME NEW r \in Requests, Finish(r) PROVE Followers'
  BY <1>8 DEF Finish, reqVars, cacheVars, flightVars
<1>9. ASSUME NEW r \in Requests, Close(r) PROVE Followers'
  BY <1>9 DEF Close, reqVars, cacheVars, flightVars
<1>10. ASSUME NEW r \in Requests, Wake(r) PROVE Followers'
  BY <1>10 DEF Wake, Share, reqVars, cacheVars, flightVars
<1>11. ASSUME NEW r \in Requests, WakeEmpty(r) PROVE Followers'
  BY <1>11 DEF WakeEmpty, reqVars, cacheVars, flightVars
<1>12. ASSUME NEW r \in Requests, NEW ok \in BOOLEAN, OwnFetch(r, ok) PROVE Followers'
  BY <1>12 DEF OwnFetch, reqVars, cacheVars, flightVars
<1>13. ASSUME NEW k \in Keys, PassThrough(k) PROVE Followers'
  BY <1>13 DEF PassThrough, reqVars, cacheVars, flightVars
<1>14. CASE Tick
  BY <1>14 DEF Tick, reqVars, cacheVars, flightVars
<1>15. CASE UNCHANGED vars
  BY <1>15 DEF vars, reqVars, cacheVars, flightVars
<1> HIDE DEF IInv, TypeOK, Known, FlightsLed, LeadersFly, ClosedDone, Followers, Leading
<1>16. QED
  BY <1>1, <1>2, <1>3, <1>4, <1>5, <1>6, <1>7, <1>8, <1>9, <1>10, <1>11, <1>12, <1>13,
     <1>14, <1>15 DEF Next, Arrive, Serve

-----------------------------------------------------------------------------
(* Versions and times.                                                     *)

\* While a request holds a response to store, nobody else stores for its key.
LEMMA VersionStep == ASSUME IInv, [Next]_vars PROVE (Captured /\ VersionsUp)'
<1> USE CacheAssumption DEF IInv, TypeOK, Known, LeadersFly, Leading, Captured, VersionsUp
<1>1. ASSUME NEW r \in Requests, NEW k \in Keys, Get(r, k) PROVE (Captured /\ VersionsUp)'
  BY <1>1 DEF Get, AfterGet, reqVars, cacheVars, flightVars
<1>2. ASSUME NEW r \in Requests, Begin(r) PROVE (Captured /\ VersionsUp)'
  BY <1>2 DEF Begin, reqVars, cacheVars, flightVars
<1>3. ASSUME NEW r \in Requests, FetchFails(r) PROVE (Captured /\ VersionsUp)'
  BY <1>3 DEF FetchFails, reqVars, cacheVars, flightVars
<1>4. ASSUME NEW r \in Requests, OpenStream(r) PROVE (Captured /\ VersionsUp)'
  BY <1>4 DEF OpenStream, reqVars, cacheVars, flightVars
<1>5. ASSUME NEW r \in Requests, EndStream(r) PROVE (Captured /\ VersionsUp)'
  BY <1>5 DEF EndStream, reqVars, cacheVars, flightVars
<1>6. ASSUME NEW r \in Requests, Store(r) PROVE (Captured /\ VersionsUp)'
  BY <1>6 DEF Store, reqVars, cacheVars, flightVars
<1>7. ASSUME NEW r \in Requests, Finish(r) PROVE (Captured /\ VersionsUp)'
  BY <1>7 DEF Finish, reqVars, cacheVars, flightVars
<1>8. ASSUME NEW r \in Requests, Close(r) PROVE (Captured /\ VersionsUp)'
  BY <1>8 DEF Close, reqVars, cacheVars, flightVars
<1>9. ASSUME NEW r \in Requests, Wake(r) PROVE (Captured /\ VersionsUp)'
  BY <1>9 DEF Wake, Share, reqVars, cacheVars, flightVars
<1>10. ASSUME NEW r \in Requests, WakeEmpty(r) PROVE (Captured /\ VersionsUp)'
  BY <1>10 DEF WakeEmpty, reqVars, cacheVars, flightVars
<1>11. ASSUME NEW r \in Requests, NEW ok \in BOOLEAN, OwnFetch(r, ok) PROVE (Captured /\ VersionsUp)'
  BY <1>11 DEF OwnFetch, reqVars, cacheVars, flightVars
<1>12. ASSUME NEW k \in Keys, PassThrough(k) PROVE (Captured /\ VersionsUp)'
  <2>1. UNCHANGED <<pc, key, result, stored>>
    BY <1>12 DEF PassThrough, reqVars, cacheVars, flightVars
  <2>2. \A j \in Keys : data'[j] >= data[j] /\ data'[j] \in Nat
    BY <1>12 DEF PassThrough
  <2>3. \A r \in Requests : pc[r] = "store" => result[r].version \in Nat
    BY DEF Response
  <2>4. QED
    BY <2>1, <2>2, <2>3
<1>13. ASSUME NEW r \in Requests, Fetch(r) PROVE (Captured /\ VersionsUp)'
  <2>1. /\ Fetched(r) \in Response
        /\ Fetched(r).version = data[key[r]]
    BY <1>13, FetchedResponse DEF Fetch
  <2>2. QED
    BY <1>13, <2>1 DEF Fetch, cacheVars
<1>14. CASE Tick
  BY <1>14 DEF Tick, reqVars, cacheVars, flightVars
<1>15. CASE UNCHANGED vars
  BY <1>15 DEF vars, reqVars, cacheVars, flightVars
<1> HIDE DEF IInv, TypeOK, Known, LeadersFly, Leading, Captured, VersionsUp
<1>16. QED
  BY <1>1, <1>2, <1>3, <1>4, <1>5, <1>6, <1>7, <1>8, <1>9, <1>10, <1>11, <1>12, <1>13,
     <1>14, <1>15 DEF Next, Arrive, Serve

\* A response is shared within its time to live, or with a request that was there
\* when it was published.
LEMMA FreshStep == ASSUME IInv, [Next]_vars PROVE FreshEnough'
<1> USE CacheAssumption DEF IInv, TypeOK, Known, ClosedDone, Followers, Leading, FreshEnough
<1>1. ASSUME NEW r \in Requests, NEW k \in Keys, Get(r, k) PROVE FreshEnough'
  <2>2. ASSUME Fresh(k) PROVE now <= entries[k].at + TTL
    BY <2>2 DEF Fresh
  <2>3. CASE Fresh(k)
    <3>1. /\ answer' = [answer EXCEPT ![r] = entries[k]]
          /\ arrived' = [arrived EXCEPT ![r] = now]
      BY <1>1, <2>3 DEF Get
    <3>2. QED
      BY <2>2, <2>3, <3>1
  <2>4. CASE ~Fresh(k)
    <3>1. UNCHANGED answer /\ arrived' = [arrived EXCEPT ![r] = now]
      BY <1>1, <2>4 DEF Get
    <3>2. answer[r] = NoAnswer
      BY <1>1 DEF Get, Unanswered
    <3>3. QED
      BY <3>1, <3>2
  <2>5. QED
    BY <2>3, <2>4
<1>2. ASSUME NEW r \in Requests, Begin(r) PROVE FreshEnough'
  BY <1>2 DEF Begin, reqVars, cacheVars, flightVars
<1>3. ASSUME NEW r \in Requests, FetchFails(r) PROVE FreshEnough'
  BY <1>3 DEF FetchFails, reqVars, cacheVars, flightVars
<1>4. ASSUME NEW r \in Requests, OpenStream(r) PROVE FreshEnough'
  BY <1>4 DEF OpenStream, reqVars, cacheVars, flightVars
<1>5. ASSUME NEW r \in Requests, EndStream(r) PROVE FreshEnough'
  BY <1>5 DEF EndStream, reqVars, cacheVars, flightVars
<1>6. ASSUME NEW r \in Requests, Store(r) PROVE FreshEnough'
  BY <1>6 DEF Store, reqVars, cacheVars, flightVars
<1>7. ASSUME NEW r \in Requests, Finish(r) PROVE FreshEnough'
  BY <1>7 DEF Finish, reqVars, cacheVars, flightVars
<1>8. ASSUME NEW r \in Requests, Close(r) PROVE FreshEnough'
  BY <1>8 DEF Close, reqVars, cacheVars, flightVars
<1>9. ASSUME NEW r \in Requests, Wake(r) PROVE FreshEnough'
  <2> DEFINE src == IF Fresh(key[r]) THEN entries[key[r]] ELSE result[fl[r]]
  <2>1. key[r] \in Keys /\ fl[r] \in Requests /\ arrived[r] <= now
    BY <1>9 DEF Wake
  <2>2. src \in Response
    BY <1>9, <2>1, CacheableResponse DEF Fresh, Wake
  <2>3. arrived[r] <= src.at + TTL
    <3>1. CASE Fresh(key[r])
      BY <2>1, <2>2, <3>1 DEF Fresh, Response
    <3>2. CASE ~Fresh(key[r])
      <4>1. src = result[fl[r]] /\ Cacheable(result[fl[r]]) /\ pc[fl[r]] = "done"
        BY <1>9, <2>1, <3>2 DEF Wake
      <4>2. arrived[r] <= src.at
        BY <1>9, <4>1 DEF Wake
      <4>3. QED
        BY <2>2, <4>2 DEF Response
    <3>3. QED
      BY <3>1, <3>2
  <2>5. answer' = [answer EXCEPT ![r] = src] /\ UNCHANGED arrived
    BY <1>9 DEF Wake, Share
  <2>6. QED
    <3> HIDE DEF src
    <3> QED
      BY <2>3, <2>5
<1>10. ASSUME NEW r \in Requests, WakeEmpty(r) PROVE FreshEnough'
  BY <1>10 DEF WakeEmpty, reqVars, cacheVars, flightVars
<1>11. ASSUME NEW r \in Requests, NEW ok \in BOOLEAN, OwnFetch(r, ok) PROVE FreshEnough'
  <2>1. Fetched(r) \in Response /\ Fetched(r).at = now
    BY <1>11, FetchedResponse DEF OwnFetch
  <2>2. QED
    BY <1>11, <2>1 DEF OwnFetch
<1>12. ASSUME NEW k \in Keys, PassThrough(k) PROVE FreshEnough'
  BY <1>12 DEF PassThrough, reqVars, cacheVars, flightVars
<1>13. ASSUME NEW r \in Requests, Fetch(r) PROVE FreshEnough'
  <2>1. Fetched(r) \in Response /\ Fetched(r).at = now
    BY <1>13, FetchedResponse DEF Fetch
  <2>2. QED
    BY <1>13, <2>1 DEF Fetch
<1>14. CASE Tick
  BY <1>14 DEF Tick, reqVars, cacheVars, flightVars
<1>15. CASE UNCHANGED vars
  BY <1>15 DEF vars, reqVars, cacheVars, flightVars
<1> HIDE DEF IInv, TypeOK, Known, ClosedDone, Followers, Leading, FreshEnough
<1>16. QED
  BY <1>1, <1>2, <1>3, <1>4, <1>5, <1>6, <1>7, <1>8, <1>9, <1>10, <1>11, <1>12, <1>13,
     <1>14, <1>15 DEF Next, Arrive, Serve
-----------------------------------------------------------------------------
\* The invariant is inductive.
LEMMA IInvStep == ASSUME IInv, [Next]_vars PROVE IInv'
BY TypeStep, KnownStep, FlightStep, FollowerStep, VersionStep, FreshStep DEF IInv

\* The invariant holds in every reachable state of the cache.
LEMMA Inductive == Spec => []IInv
<1>1. IInv /\ [Next]_vars => IInv'
  BY IInvStep
<1>2. QED
  BY InitIInv, <1>1, PTL DEF Spec

\* The cache's state keeps its types: an empty result is never replayed.
THEOREM CacheTypeCorrect == Spec => []TypeOK
<1>1. IInv => TypeOK
  BY DEF IInv
<1>2. QED
  BY Inductive, <1>1, PTL

\* CacheMiddleware never has two leaders of one key at a time, whatever expires,
\* fails or panics meanwhile.
THEOREM OneLeader == Spec => []SingleFlight
<1>1. IInv => SingleFlight
  BY DEF IInv, SingleFlight, LeadersFly
<1>2. QED
  BY Inductive, <1>1, PTL

\* No request is answered with a response that had left its time to live when the
\* request came in.
THEOREM NoStaleAnswer == Spec => []FreshEnough
<1>1. IInv => FreshEnough
  BY DEF IInv
<1>2. QED
  BY Inductive, <1>1, PTL

\* The cached content of a key only moves to newer data.
THEOREM NeverBackwards == Spec => CacheMovesForward
<1>1. ASSUME IInv, [Next]_vars PROVE [\A k \in Keys : stored'[k] >= stored[k]]_vars
  <2>1. ASSUME NEW r \in Requests, Store(r) PROVE \A k \in Keys : stored'[k] >= stored[k]
    BY <1>1, <2>1 DEF IInv, TypeOK, Known, VersionsUp, Captured, Response, Store
  <2>2. ASSUME UNCHANGED stored PROVE \A k \in Keys : stored'[k] >= stored[k]
    BY <1>1, <2>2 DEF IInv, TypeOK
  <2>3. (\E r \in Requests : Store(r)) \/ UNCHANGED stored
    BY <1>1 DEF Next, Arrive, Serve, Get, Begin, Fetch, FetchFails, OpenStream, EndStream,
       Finish, Close, Wake, Share, WakeEmpty, OwnFetch, PassThrough, Tick, cacheVars, vars
  <2>4. QED
    BY <2>1, <2>2, <2>3
<1>2. QED
  BY Inductive, <1>1, PTL DEF Spec, CacheMovesForward

-----------------------------------------------------------------------------
(* The rate limiter.                                                       *)

\* Every nonempty set of naturals has a least element.
LEMMA LeastNatural ==
  ASSUME NEW T \in SUBSET Nat, T # {}
  PROVE  \E m \in T : \A n \in T : m <= n
<1>1. PICK m \in T : \A n \in T : ~ (<<n, m>> \in OpToRel(<, Nat))
  BY NatLessThanWellFounded, WFMin, Zenon
<1>2. \A n \in T : ~ (n < m)
  BY <1>1 DEF OpToRel
<1> QED
  BY <1>2

\* The largest limit, the longest and the shortest window bound the others.
LEMMA Bounds ==
  /\ Max(Limits) \in Int /\ \A l \in Limits : l <= Max(Limits)
  /\ Max(Windows) \in Int /\ \A w \in Windows : w <= Max(Windows)
  /\ ShortestWindow \in Nat /\ ShortestWindow > 0
  /\ \A w \in Windows : w > 0 => ShortestWindow <= w
<1> DEFINE P == {w \in Windows : w > 0}
<1>1. Max(Limits) \in Limits /\ \A l \in Limits : Max(Limits) >= l
  BY RateAssumption DEF Max
<1>2. Max(Windows) \in Windows /\ \A w \in Windows : Max(Windows) >= w
  BY RateAssumption DEF Max
<1>3. P \in SUBSET Nat /\ P # {}
  <2>1. FirstWindow \in P
    BY RateAssumption
  <2>2. \A w \in P : w \in Nat
    BY RateAssumption
  <2> QED
    BY <2>1, <2>2
<1>4. \E m \in P : \A n \in P : m <= n
  <2> HIDE DEF P
  <2> QED
    BY <1>3, LeastNatural
<1>5. ShortestWindow \in P /\ \A w \in P : ShortestWindow <= w
  BY <1>4 DEF ShortestWindow, Min
<1> QED
  BY <1>1, <1>2, <1>3, <1>5, RateAssumption

\* Limits and windows are numbers.
LEMMA Numbers == /\ \A l \in Limits : l \in Int
                 /\ \A w \in Windows : w \in Int
  BY RateAssumption

-----------------------------------------------------------------------------
\* What the admission times a of a client have to do with its count k and the end r of its
\* window, at time t.  The last k admissions belong to the window, the others came before.
Paced(a, k, r, t) ==
  LET top == Max(Limits)
      short == ShortestWindow
  IN
  /\ a \in Seq(Nat) /\ k \in Nat /\ k <= Len(a) /\ t \in Nat /\ r \in Nat \cup {NoWindow}
  /\ r = NoWindow => Len(a) = 0
  /\ r # NoWindow => r <= t + Max(Windows)
  /\ k > 0 => k <= top
  /\ Len(a) > 0 => top > 0
  /\ \A i \in 1..Len(a) : a[i] <= t /\ a[i] <= r
  /\ \A i \in 1..Len(a) : i <= Len(a) - k => a[i] + short < r
  /\ \A i \in 1..Len(a) : i + top <= Len(a) - k => a[i] + short < t
  /\ \A i \in 1..Len(a) : i > Len(a) - k => a[i] >= r - Max(Windows)
  /\ \A i, j \in 1..Len(a) : j >= i + 2 * top => a[j] > a[i] + short

\* Time passes.
LEMMA PacedLater ==
  ASSUME NEW a, NEW k, NEW r, NEW t, Paced(a, k, r, t), NEW u \in Nat, t <= u
  PROVE  Paced(a, k, r, u)
<1>1. t \in Nat /\ Max(Windows) \in Int /\ ShortestWindow \in Nat
  BY Bounds DEF Paced
<1>2. r # NoWindow => r <= u + Max(Windows)
  <2>1. r # NoWindow => r \in Nat /\ r <= t + Max(Windows)
    BY DEF Paced, NoWindow
  <2> QED
    BY <1>1, <2>1
<1>3. ASSUME NEW i \in 1..Len(a)
      PROVE  /\ a[i] <= u
             /\ i + Max(Limits) <= Len(a) - k => a[i] + ShortestWindow < u
  <2>1. a[i] \in Nat /\ a[i] <= t
    BY DEF Paced
  <2>2. i + Max(Limits) <= Len(a) - k => a[i] + ShortestWindow < t
    BY DEF Paced
  <2> QED
    BY <1>1, <2>1, <2>2
<1> QED
  BY <1>2, <1>3 DEF Paced

\* A window that is over is replaced by one that opens now.
LEMMA PacedOpen ==
  ASSUME NEW a, NEW k, NEW r, NEW t, Paced(a, k, r, t), r = NoWindow \/ t > r,
         NEW w \in Windows, w > 0
  PROVE  Paced(a, 0, t + w, t)
<1>0. /\ Max(Limits) \in Int /\ ShortestWindow \in Nat /\ ShortestWindow > 0
      /\ w \in Nat /\ w <= Max(Windows) /\ Max(Windows) \in Int /\ ShortestWindow <= w
  BY Bounds, RateAssumption
<1>1. /\ a \in Seq(Nat) /\ k \in Nat /\ k <= Len(a) /\ t \in Nat /\ Len(a) \in Nat
      /\ \A i \in 1..Len(a) : a[i] \in Nat
  BY DEF Paced
<1>2. t + w \in Nat /\ t + w # NoWindow
  BY <1>0, <1>1 DEF NoWindow
<1>3. ASSUME NEW i \in 1..Len(a)
      PROVE  /\ a[i] <= t /\ a[i] <= t + w /\ a[i] + ShortestWindow < t + w
             /\ i + Max(Limits) <= Len(a) => a[i] + ShortestWindow < t
  <2>1. r \in Nat /\ t > r
    BY <1>1, <1>3 DEF Paced, NoWindow
  <2>2. a[i] <= r /\ a[i] \in Nat
    BY <1>1 DEF Paced
  <2>3. i + Max(Limits) <= Len(a) => i <= Len(a) - k
    <3>1. Max(Limits) > 0 /\ (k > 0 => k <= Max(Limits))
      BY <1>1 DEF Paced
    <3> QED
      BY <1>0, <1>1, <3>1
  <2>4. i <= Len(a) - k => a[i] + ShortestWindow < r
    BY DEF Paced
  <2>5. a[i] <= t /\ a[i] <= t + w /\ a[i] + ShortestWindow < t + w
    BY <1>0, <1>1, <2>1, <2>2
  <2>6. ASSUME i + Max(Limits) <= Len(a) PROVE a[i] + ShortestWindow < t
    <3>1. a[i] + ShortestWindow < r
      BY <2>3, <2>4, <2>6
    <3> QED
      BY <1>0, <1>1, <2>1, <2>2, <3>1
  <2> QED
    BY <2>5, <2>6
<1>4. /\ t + w <= t + Max(Windows)
      /\ Len(a) > 0 => Max(Limits) > 0
      /\ \A i, j \in 1..Len(a) : j >= i + 2 * Max(Limits) => a[j] > a[i] + ShortestWindow
  BY <1>0, <1>1 DEF Paced
<1> QED
  BY <1>1, <1>2, <1>3, <1>4 DEF Paced

\* A request is admitted within the window.
LEMMA PacedAdmit ==
  ASSUME NEW a, NEW k, NEW r, NEW t, Paced(a, k, r, t), r # NoWindow, t <= r,
         NEW l \in Limits, k < l
  PROVE  Paced(Append(a, t), k + 1, r, t)
<1> DEFINE b == Append(a, t)
<1>0. /\ Max(Limits) \in Int /\ ShortestWindow \in Nat /\ ShortestWindow > 0
      /\ Max(Windows) \in Int /\ l \in Int /\ l <= Max(Limits)
  BY Bounds, RateAssumption
<1>1. /\ a \in Seq(Nat) /\ k \in Nat /\ k <= Len(a) /\ t \in Nat /\ Len(a) \in Nat /\ r \in Nat
      /\ \A i \in 1..Len(a) : a[i] \in Nat
  BY DEF Paced
<1>2. /\ b \in Seq(Nat) /\ Len(b) = Len(a) + 1 /\ b[Len(a) + 1] = t
      /\ \A i \in 1..Len(a) : b[i] = a[i]
  BY <1>1
<1> HIDE DEF b
<1>3. k + 1 <= Max(Limits) /\ k + 1 \in Nat /\ Max(Limits) > 0 /\ r <= t + Max(Windows)
  BY <1>0, <1>1 DEF Paced
<1>4. \A i \in 1..Len(b) : i = Len(a) + 1 \/ i \in 1..Len(a)
  BY <1>1, <1>2
<1>5. ASSUME NEW i \in 1..Len(b)
      PROVE  /\ b[i] <= t /\ b[i] <= r
             /\ i <= Len(b) - (k + 1) => b[i] + ShortestWindow < r
             /\ i + Max(Limits) <= Len(b) - (k + 1) => b[i] + ShortestWindow < t
             /\ i > Len(b) - (k + 1) => b[i] >= r - Max(Windows)
  <2>1. CASE i = Len(a) + 1
    <3>1. b[i] = t /\ t >= r - Max(Windows)
      BY <1>0, <1>1, <1>2, <1>3, <2>1
    <3>2. ~ (i <= Len(b) - (k + 1)) /\ ~ (i + Max(Limits) <= Len(b) - (k + 1))
      BY <1>0, <1>1, <1>2, <1>3, <2>1
    <3> QED
      BY <1>1, <3>1, <3>2
  <2>2. CASE i \in 1..Len(a)
    <3>1. /\ a[i] <= t /\ a[i] <= r
          /\ i <= Len(a) - k => a[i] + ShortestWindow < r
          /\ i + Max(Limits) <= Len(a) - k => a[i] + ShortestWindow < t
          /\ i > Len(a) - k => a[i] >= r - Max(Windows)
      BY <2>2 DEF Paced
    <3>2. Len(b) - (k + 1) = Len(a) - k /\ b[i] = a[i]
      BY <1>1, <1>2, <2>2
    <3> QED
      BY <3>1, <3>2
  <2> QED
    BY <1>4, <2>1, <2>2
<1>6. ASSUME NEW i \in 1..Len(b), NEW j \in 1..Len(b), j >= i + 2 * Max(Limits)
      PROVE  b[j] > b[i] + ShortestWindow
  <2>1. i \in 1..Len(a)
    BY <1>0, <1>1, <1>2, <1>3, <1>6
  <2>2. CASE j = Len(a) + 1
    <3>1. i + Max(Limits) <= Len(a) - k
      <4>1. i + 2 * Max(Limits) <= Len(a) + 1 /\ i \in Int
        BY <1>0, <1>1, <1>6, <2>2
      <4> QED
        BY <1>0, <1>1, <1>3, <4>1
    <3>2. a[i] + ShortestWindow < t
      BY <2>1, <3>1 DEF Paced
    <3> QED
      BY <1>0, <1>1, <1>2, <2>1, <2>2, <3>2
  <2>3. CASE j \in 1..Len(a)
    BY <1>2, <1>6, <2>1, <2>3 DEF Paced
  <2> QED
    BY <1>4, <2>2, <2>3
<1>7. k + 1 <= Len(b)
  BY <1>1, <1>2
<1> QED
  BY <1>1, <1>2, <1>3, <1>5, <1>6, <1>7 DEF Paced, b

\* Admissions that keep this pace fill no stretch of time as long as the shortest window
\* with more than twice the largest limit.
LEMMA PacedBurst ==
  ASSUME NEW a, NEW k, NEW r, NEW t, Paced(a, k, r, t), NEW m \in 1..Len(a)
  PROVE  Cardinality({i \in 1..Len(a) : a[m] <= a[i] /\ a[i] <= a[m] + ShortestWindow})
           <= 2 * Max(Limits)
<1> DEFINE T == {i \in 1..Len(a) : a[m] <= a[i] /\ a[i] <= a[m] + ShortestWindow}
<1>0. /\ Max(Limits) \in Int /\ ShortestWindow \in Nat /\ Len(a) \in Nat /\ Max(Limits) > 0
      /\ \A i \in 1..Len(a) : a[i] \in Nat
      /\ \A i, j \in 1..Len(a) : j >= i + 2 * Max(Limits) => a[j] > a[i] + ShortestWindow
  <2>1. Max(Limits) \in Int /\ ShortestWindow \in Nat
    BY Bounds
  <2>2. Len(a) \in Nat /\ \A i \in 1..Len(a) : a[i] \in Nat
    BY DEF Paced
  <2>3. Max(Limits) > 0
    BY <2>2 DEF Paced
  <2>4. \A i, j \in 1..Len(a) : j >= i + 2 * Max(Limits) => a[j] > a[i] + ShortestWindow
    BY DEF Paced
  <2> QED
    BY <2>1, <2>2, <2>3, <2>4
<1>1. T \in SUBSET Nat /\ m \in T
  BY <1>0
<1>2. PICK f \in T : \A n \in T : f <= n
  <2> HIDE DEF T
  <2> QED
    BY <1>1, LeastNatural
<1>3. ASSUME NEW n \in T PROVE n \in f..(f + 2 * Max(Limits) - 1)
  <2>1. /\ f <= n /\ f \in 1..Len(a) /\ n \in 1..Len(a) /\ a[m] <= a[f]
        /\ a[n] <= a[m] + ShortestWindow
    BY <1>2
  <2>2. n < f + 2 * Max(Limits)
    <3>1. ASSUME n >= f + 2 * Max(Limits) PROVE FALSE
      <4>1. a[n] > a[f] + ShortestWindow
        BY <1>0, <2>1, <3>1
      <4> QED
        BY <1>0, <2>1, <4>1
    <3> QED
      BY <1>0, <2>1, <3>1
  <2> QED
    BY <1>0, <2>1, <2>2
<1>4. f \in Int /\ f + 2 * Max(Limits) - 1 \in Int
  BY <1>0, <1>1, <1>2
<1>5. /\ IsFiniteSet(f..(f + 2 * Max(Limits) - 1))
      /\ Cardinality(f..(f + 2 * Max(Limits) - 1)) = 2 * Max(Limits)
  <2>1. ~ (f > f + 2 * Max(Limits) - 1) /\ (f + 2 * Max(Limits) - 1) - f + 1 = 2 * Max(Limits)
    BY <1>0, <1>4
  <2> QED
    BY <1>4, <2>1, FS_Interval
<1> HIDE DEF T
<1>6. T \in SUBSET (f..(f + 2 * Max(Limits) - 1))
  BY <1>3
<1>7. Cardinality(T) <= Cardinality(f..(f + 2 * Max(Limits) - 1))
  BY <1>5, <1>6, FS_Subset, Zenon
<1> QED
  BY <1>5, <1>7 DEF T

\* A full window holds as many admissions as its count says, none older than the longest
\* window.
LEMMA PacedFull ==
  ASSUME NEW a, NEW k, NEW r, NEW t, Paced(a, k, r, t), t <= r, NEW d, d = Max(Windows)
  PROVE  Cardinality({i \in 1..Len(a) : t - d <= a[i] /\ a[i] <= t}) >= k
<1> DEFINE T == {i \in 1..Len(a) : t - d <= a[i] /\ a[i] <= t}
<1>0. d \in Int /\ Len(a) \in Nat /\ k \in Nat /\ k <= Len(a) /\ t \in Nat
      /\ \A i \in 1..Len(a) : a[i] \in Nat
  BY Bounds DEF Paced
<1>1. IsFiniteSet(1..Len(a)) /\ T \in SUBSET (1..Len(a))
  BY <1>0, FS_Interval
<1>2. ASSUME NEW i \in (Len(a) - k + 1)..Len(a) PROVE i \in T
  <2>1. i \in 1..Len(a) /\ i > Len(a) - k
    BY <1>0
  <2>2. a[i] >= r - d /\ a[i] <= t /\ r \in Nat
    BY <2>1 DEF Paced, NoWindow
  <2> QED
    BY <1>0, <2>1, <2>2
<1> HIDE DEF T
<1>3. IsFiniteSet(T)
  BY <1>1, FS_Subset, Zenon
<1>4. (Len(a) - k + 1)..Len(a) \in SUBSET T
  BY <1>2
<1>5. Cardinality((Len(a) - k + 1)..Len(a)) <= Cardinality(T)
  BY <1>3, <1>4, FS_Subset, Zenon
<1>6. Cardinality((Len(a) - k + 1)..Len(a)) = k
  <2>1. Len(a) - k + 1 \in Int /\ Len(a) \in Int
    BY <1>0
  <2>2. Cardinality((Len(a) - k + 1)..Len(a))
          = IF Len(a) - k + 1 > Len(a) THEN 0 ELSE Len(a) - (Len(a) - k + 1) + 1
    BY <2>1, FS_Interval
  <2> QED
    BY <1>0, <2>2
<1>7. Cardinality(T) \in Nat
  BY <1>3, FS_CardinalityType
<1> QED
  BY <1>0, <1>5, <1>6, <1>7 DEF T

-----------------------------------------------------------------------------
\* What a request or an update has already loaded is one of the values configured.
Loaded ==
  /\ \A s \in Slots : span[s] > 0 /\ (stage[s] # "new" => client[s] \in Clients)
  /\ \A a \in Admins : apc[a] \in {"window", "setLimit", "setWindow"} => newLimit[a] \in Limits
  /\ \A a \in Admins : apc[a] \in {"setLimit", "setWindow"} => newPer[a] \in Windows

\* The inductive invariant: the clients' windows keep the pace, and so do the refusals.
RateInv ==
  /\ RateTypeOK /\ Loaded
  /\ \A c \in Clients : Paced(admits[c], count[c], reset[c], clock)
  /\ FairRefusal

\* The initial state.
LEMMA RateStart == RateInit => RateInv
<1> SUFFICES ASSUME RateInit PROVE RateInv
  OBVIOUS
<1> USE DEF RateInit
<1>1. RateTypeOK
  BY RateAssumption DEF RateTypeOK, Answers, NoWindow
<1>2. Loaded
  BY RateAssumption DEF Loaded
<1>3. ASSUME NEW c \in Clients PROVE Paced(admits[c], count[c], reset[c], clock)
  BY DEF Paced, NoWindow
<1>4. FairRefusal
  BY DEF FairRefusal
<1> QED
  BY <1>1, <1>2, <1>3, <1>4 DEF RateInv

\* A step keeps the types, and what SetLimits stores and allow() loads are values that were
\* configured: a window is stored only when it is positive.
LEMMA RateTypes ==
  ASSUME RateTypeOK, Loaded, [RateNext]_rateVars
  PROVE  RateTypeOK' /\ Loaded'
<1> USE RateAssumption DEF RateTypeOK, Loaded, limits, windows, slotVars, adminVars
<1>1. ASSUME NEW s \in Slots, NEW c \in Clients, Middleware(s, c) PROVE RateTypeOK' /\ Loaded'
  BY <1>1 DEF Middleware, Answers
<1>2. ASSUME NEW s \in Slots, LoadLimit(s) PROVE RateTypeOK' /\ Loaded'
  BY <1>2 DEF LoadLimit
<1>3. ASSUME NEW s \in Slots, LoadWindow(s) PROVE RateTypeOK' /\ Loaded'
  BY <1>3 DEF LoadWindow
<1>4. ASSUME NEW s \in Slots, Allow(s) PROVE RateTypeOK' /\ Loaded'
  <2>1. client[s] \in Clients /\ span[s] \in Nat /\ clock + span[s] \in Nat
    <3>1. client[s] \in Clients /\ span[s] \in Windows /\ span[s] > 0
      BY <1>4 DEF Allow
    <3>2. span[s] \in Int /\ clock \in Nat
      BY <3>1, Numbers
    <3> HIDE RateAssumption DEF RateTypeOK, Loaded
    <3> QED
      BY <3>1, <3>2
  <2>2. count' \in [Clients -> Nat]
    BY <1>4, <2>1 DEF Allow
  <2>5. reset' \in [Clients -> Nat \cup {NoWindow}]
    BY <1>4, <2>1 DEF Allow
  <2>3. admits' \in [Clients -> Seq(Nat)] /\ when' \in [Slots -> Nat]
    BY <1>4, <2>1 DEF Allow
  <2>4. /\ stage' \in [Slots -> {"new", "limit", "window", "allow"} \cup Answers]
        /\ \A q \in Slots : stage'[q] # "new" => stage[q] # "new"
    BY <1>4 DEF Allow, Answers
  <2> QED
    BY <1>4, <2>2, <2>3, <2>4, <2>5 DEF Allow
<1>5. ASSUME NEW a \in Admins, NEW body \in Limits \cup {Omitted}, UpdateLimit(a, body)
      PROVE  RateTypeOK' /\ Loaded'
  BY <1>5 DEF UpdateLimit
<1>6. ASSUME NEW a \in Admins, NEW body \in Windows \cup {Omitted}, UpdateWindow(a, body)
      PROVE  RateTypeOK' /\ Loaded'
  BY <1>6 DEF UpdateWindow
<1>7. ASSUME NEW a \in Admins, UpdateInvalid(a) PROVE RateTypeOK' /\ Loaded'
  BY <1>7 DEF UpdateInvalid
<1>8. ASSUME NEW a \in Admins, SetLimit(a) PROVE RateTypeOK' /\ Loaded'
  BY <1>8 DEF SetLimit
<1>9. ASSUME NEW a \in Admins, SetWindow(a) PROVE RateTypeOK' /\ Loaded'
  BY <1>9 DEF SetWindow, KeptWindow
<1>10. CASE ClockTick
  BY <1>10 DEF ClockTick
<1>11. CASE UNCHANGED rateVars
  BY <1>11 DEF rateVars
<1> QED
  BY <1>1, <1>2, <1>3, <1>4, <1>5, <1>6, <1>7, <1>8, <1>9, <1>10, <1>11
     DEF RateNext, Handle, Update

\* The locked section of allow keeps the pace of its client.
LEMMA AllowPaced ==
  ASSUME RateInv, NEW s \in Slots, Allow(s)
  PROVE  \A c \in Clients : Paced(admits'[c], count'[c], reset'[c], clock')
<1> DEFINE c == client[s]
           n == IF Expired(c) THEN 0 ELSE count[c]
           r == IF Expired(c) THEN clock + span[s] ELSE reset[c]
<1>0. /\ c \in Clients /\ seen[s] \in Limits /\ span[s] \in Windows /\ span[s] > 0
      /\ clock' = clock /\ clock \in Nat
      /\ \A d \in Clients : Paced(admits[d], count[d], reset[d], clock)
      /\ reset[c] \in Nat \cup {NoWindow}
  BY DEF Allow, RateInv, RateTypeOK, Loaded
<1>1. /\ reset' = [reset EXCEPT ![c] = r]
      /\ count' = [count EXCEPT ![c] = IF AtLimit(n, seen[s]) THEN n ELSE n + 1]
      /\ admits' = [admits EXCEPT ![c] = IF AtLimit(n, seen[s]) THEN admits[c]
                                         ELSE Append(admits[c], clock)]
  BY DEF Allow
<1>2. /\ reset \in [Clients -> Nat \cup {NoWindow}] /\ count \in [Clients -> Nat]
      /\ admits \in [Clients -> Seq(Nat)]
  BY DEF RateInv, RateTypeOK
<1>3. Paced(admits[c], n, r, clock) /\ r # NoWindow /\ clock <= r
  <2>1. CASE Expired(c)
    <3>1. reset[c] = NoWindow \/ clock > reset[c]
      BY <2>1 DEF Expired
    <3>2. Paced(admits[c], 0, clock + span[s], clock)
      BY <1>0, <3>1, PacedOpen
    <3>3. span[s] \in Nat /\ clock + span[s] # NoWindow
      BY <1>0, Numbers DEF NoWindow
    <3> QED
      BY <1>0, <2>1, <3>2, <3>3
  <2>2. CASE ~ Expired(c)
    BY <1>0, <2>2 DEF Expired, NoWindow
  <2> QED
    BY <2>1, <2>2
<1> HIDE DEF c, n, r
<1>4. Paced(admits'[c], count'[c], reset'[c], clock)
  <2>1. CASE AtLimit(n, seen[s])
    BY <1>0, <1>1, <1>2, <1>3, <2>1
  <2>2. CASE ~ AtLimit(n, seen[s])
    <3>1. n < seen[s]
      <4>1. n \in Nat
        BY <1>3 DEF Paced
      <4>2. seen[s] \in Int
        BY <1>0, Numbers
      <4> QED
        BY <2>2, <4>1, <4>2 DEF AtLimit
    <3>2. Paced(Append(admits[c], clock), n + 1, r, clock)
      BY <1>0, <1>3, <3>1, PacedAdmit
    <3> QED
      BY <1>0, <1>1, <1>2, <2>2, <3>2
  <2> QED
    BY <2>1, <2>2
<1>5. ASSUME NEW d \in Clients, d # c
      PROVE  admits'[d] = admits[d] /\ count'[d] = count[d] /\ reset'[d] = reset[d]
  BY <1>1, <1>2, <1>5
<1> QED
  BY <1>0, <1>4, <1>5

\* The admissions of a from time u to time v.
Between(a, u, v) == {i \in DOMAIN a : u <= a[i] /\ a[i] <= v}

\* More admissions never unmake a set of earlier ones.
LEMMA AdmittedGrows ==
  ASSUME NEW a \in Seq(Nat), NEW b \in Seq(Nat), Len(a) <= Len(b),
         \A i \in 1..Len(a) : b[i] = a[i], NEW u, NEW v
  PROVE  /\ Cardinality(Between(a, u, v)) \in Nat /\ Cardinality(Between(b, u, v)) \in Nat
         /\ Cardinality(Between(a, u, v)) <= Cardinality(Between(b, u, v))
<1> DEFINE A == Between(a, u, v)
           B == Between(b, u, v)
<1>1. Len(a) \in Nat /\ Len(b) \in Nat /\ DOMAIN a = 1..Len(a) /\ DOMAIN b = 1..Len(b)
  OBVIOUS
<1>2. A \in SUBSET B /\ B \in SUBSET (1..Len(b))
  BY <1>1 DEF Between
<1>3. IsFiniteSet(1..Len(b))
  <2>1. 1 \in Int /\ Len(b) \in Int
    BY <1>1
  <2> QED
    BY <2>1, FS_Interval, Zenon
<1> HIDE DEF A, B
<1>4. IsFiniteSet(B)
  BY <1>2, <1>3, FS_Subset, Zenon
<1>5. IsFiniteSet(A) /\ Cardinality(A) <= Cardinality(B)
  BY <1>2, <1>4, FS_Subset, Zenon
<1> QED
  BY <1>4, <1>5, FS_CardinalityType, Zenon DEF A, B

\* A slot that stays refused stays refused with reason: admissions are only added.
LEMMA StaysFair ==
  ASSUME RateInv, RateTypeOK', NEW s \in Slots, stage[s] = "refused",
         client'[s] = client[s], when'[s] = when[s], seen'[s] = seen[s],
         \A c \in Clients : /\ Len(admits[c]) <= Len(admits'[c])
                            /\ \A i \in 1..Len(admits[c]) : admits'[c][i] = admits[c][i]
  PROVE  Cardinality(Between(admits'[client[s]], when[s] - Max(Windows), when[s])) >= seen[s]
<1> DEFINE c == client[s]
           u == when[s] - Max(Windows)
           A == Between(admits[c], u, when[s])
           B == Between(admits'[c], u, when[s])
<1>1. c \in Clients /\ admits[c] \in Seq(Nat) /\ admits'[c] \in Seq(Nat) /\ seen[s] \in Int
  BY Numbers DEF RateInv, RateTypeOK, Loaded
<1>2. Cardinality(A) >= seen[s]
  BY DEF RateInv, FairRefusal, Admitted, Between
<1>3. Cardinality(A) \in Nat /\ Cardinality(B) \in Nat /\ Cardinality(A) <= Cardinality(B)
  BY <1>1, AdmittedGrows
<1> HIDE DEF A, B
<1> QED
  BY <1>1, <1>2, <1>3 DEF B

\* Whatever happens, admissions are only added, and times of admission stay.
LEMMA AdmitsGrow ==
  ASSUME RateTypeOK, Loaded, [RateNext]_rateVars, NEW c \in Clients
  PROVE  /\ Len(admits[c]) <= Len(admits'[c])
         /\ \A i \in 1..Len(admits[c]) : admits'[c][i] = admits[c][i]
<1>1. admits[c] \in Seq(Nat) /\ Len(admits[c]) \in Nat
  BY DEF RateTypeOK
<1>2. CASE \E s \in Slots : Allow(s)
  <2>1. PICK s \in Slots : Allow(s)
    BY <1>2
  <2>2. admits'[c] = admits[c] \/ admits'[c] = Append(admits[c], clock)
    BY <2>1 DEF Allow, RateTypeOK
  <2>3. /\ Len(Append(admits[c], clock)) = Len(admits[c]) + 1
        /\ \A i \in 1..Len(admits[c]) : Append(admits[c], clock)[i] = admits[c][i]
    <3>1. clock \in Nat
      BY DEF RateTypeOK
    <3> QED
      BY <1>1, <3>1
  <2>4. CASE admits'[c] = admits[c]
    BY <1>1, <2>4
  <2>5. CASE admits'[c] = Append(admits[c], clock)
    BY <1>1, <2>3, <2>5
  <2> QED
    BY <2>2, <2>4, <2>5
<1>3. CASE admits' = admits
  BY <1>1, <1>3
<1>4. (\E s \in Slots : Allow(s)) \/ admits' = admits
  BY DEF RateNext, Handle, Update, Middleware, LoadLimit, LoadWindow, UpdateLimit, UpdateWindow,
     UpdateInvalid, SetLimit, SetWindow, ClockTick, rateVars
<1> QED
  BY <1>2, <1>3, <1>4

\* Every refusal has its reason: a window that is not over and as full as the limit seen.
LEMMA RefusedFairly ==
  ASSUME RateInv, RateTypeOK', NEW s \in Slots, Allow(s), stage'[s] = "refused"
  PROVE  Cardinality(Between(admits'[client[s]], clock - Max(Windows), clock)) >= seen[s]
<1> DEFINE c == client[s]
           n == IF Expired(c) THEN 0 ELSE count[c]
           T == Between(admits[c], clock - Max(Windows), clock)
<1>0. /\ c \in Clients /\ seen[s] \in Int /\ admits[c] \in Seq(Nat) /\ count[c] \in Nat
      /\ Paced(admits[c], count[c], reset[c], clock)
  BY Numbers DEF Allow, RateInv, RateTypeOK, Loaded
<1>1. AtLimit(n, seen[s])
  BY DEF Allow, RateInv, RateTypeOK
<1>2. admits'[c] = admits[c]
  BY <1>0, <1>1 DEF Allow, RateInv, RateTypeOK
<1>3. Cardinality(T) \in Nat
  BY <1>0, AdmittedGrows
<1>4. Cardinality(T) >= n
  <2>1. CASE Expired(c)
    BY <1>3, <2>1
  <2>2. CASE ~ Expired(c)
    <3>1. clock <= reset[c]
      BY <1>0, <2>2 DEF Expired, Paced, NoWindow
    <3>2. DOMAIN admits[c] = 1..Len(admits[c])
      BY <1>0
    <3>3. Cardinality(T) >= count[c]
      BY <1>0, <3>1, <3>2, PacedFull DEF Between
    <3> QED
      BY <2>2, <3>3
  <2> QED
    BY <2>1, <2>2
<1>5. n \in Nat /\ n >= seen[s]
  BY <1>0, <1>1 DEF AtLimit
<1> HIDE DEF T, n
<1>6. Cardinality(T) >= seen[s]
  BY <1>0, <1>3, <1>4, <1>5
<1> QED
  BY <1>2, <1>6 DEF T

\* Only its own handler moves a slot: one that is refused and was not refused by this very
\* step keeps its client, the limit it saw and the time of its answer.
LEMMA SlotStays ==
  ASSUME RateTypeOK, [RateNext]_rateVars, NEW s \in Slots, stage'[s] = "refused", ~ Allow(s)
  PROVE  /\ stage[s] = "refused" /\ client'[s] = client[s] /\ when'[s] = when[s]
         /\ seen'[s] = seen[s]
<1> USE DEF RateTypeOK
<1>1. ASSUME NEW z \in Slots, NEW c \in Clients, Middleware(z, c)
      PROVE  z # s /\ client' = [client EXCEPT ![z] = c] /\ stage'[s] = stage[s]
             /\ seen' = seen /\ when' = when
  BY <1>1 DEF Middleware
<1>2. ASSUME NEW z \in Slots, LoadLimit(z)
      PROVE  z # s /\ stage'[s] = stage[s] /\ seen'[s] = seen[s] /\ client' = client /\ when' = when
  BY <1>2 DEF LoadLimit
<1>3. ASSUME NEW z \in Slots, LoadWindow(z)
      PROVE  stage'[s] = stage[s] /\ seen' = seen /\ client' = client /\ when' = when
  BY <1>3 DEF LoadWindow
<1>4. ASSUME NEW z \in Slots, Allow(z)
      PROVE  stage'[s] = stage[s] /\ seen' = seen /\ client' = client /\ when'[s] = when[s]
  BY <1>4 DEF Allow
<1>5. ASSUME UNCHANGED slotVars /\ when' = when
      PROVE  stage' = stage /\ seen' = seen /\ client' = client
  BY <1>5 DEF slotVars
<1>6. \/ \E z \in Slots : \/ \E c \in Clients : Middleware(z, c)
                          \/ LoadLimit(z) \/ LoadWindow(z) \/ Allow(z)
      \/ UNCHANGED slotVars /\ when' = when
  BY DEF RateNext, Handle, Update, UpdateLimit, UpdateWindow, UpdateInvalid, SetLimit, SetWindow,
     ClockTick, rateVars
<1> QED
  BY <1>1, <1>2, <1>3, <1>4, <1>5, <1>6

\* Every step keeps the invariant.
LEMMA RateStep ==
  ASSUME RateInv, [RateNext]_rateVars
  PROVE  RateInv'
<1>1. RateTypeOK' /\ Loaded'
  BY RateTypes DEF RateInv
<1>2. \A c \in Clients : Paced(admits'[c], count'[c], reset'[c], clock')
  <2>1. CASE \E s \in Slots : Allow(s)
    BY <2>1, AllowPaced
  <2>2. CASE UNCHANGED <<admits, count, reset>> /\ clock' \in {clock, clock + 1}
    <3>1. clock \in Nat /\ clock' \in Nat /\ clock <= clock'
      BY <2>2 DEF RateInv, RateTypeOK
    <3> QED
      BY <2>2, <3>1, PacedLater DEF RateInv
  <2>3. \/ \E s \in Slots : Allow(s)
        \/ UNCHANGED <<admits, count, reset>> /\ clock' \in {clock, clock + 1}
    BY DEF RateNext, Handle, Update, Middleware, LoadLimit, LoadWindow, UpdateLimit, UpdateWindow,
       UpdateInvalid, SetLimit, SetWindow, ClockTick, rateVars, windows
  <2> QED
    BY <2>1, <2>2, <2>3
<1>3. FairRefusal'
  <2> SUFFICES ASSUME NEW s \in Slots, stage'[s] = "refused"
               PROVE  Cardinality(Between(admits'[client'[s]], when'[s] - Max(Windows), when'[s]))
                        >= seen'[s]
    BY DEF FairRefusal, Admitted, Between
  <2>1. CASE Allow(s)
    <3>1. client' = client /\ seen' = seen /\ when'[s] = clock
      BY <2>1 DEF Allow, RateInv, RateTypeOK
    <3> QED
      BY <1>1, <2>1, <3>1, RefusedFairly
  <2>2. CASE ~ Allow(s)
    <3>1. /\ stage[s] = "refused" /\ client'[s] = client[s] /\ when'[s] = when[s]
          /\ seen'[s] = seen[s]
      BY <2>2, SlotStays DEF RateInv
    <3>2. \A c \in Clients : /\ Len(admits[c]) <= Len(admits'[c])
                             /\ \A i \in 1..Len(admits[c]) : admits'[c][i] = admits[c][i]
      BY AdmitsGrow DEF RateInv
    <3> QED
      BY <1>1, <3>1, <3>2, StaysFair
  <2> QED
    BY <2>1, <2>2
<1> QED
  BY <1>1, <1>2, <1>3 DEF RateInv

\* The invariant holds in every reachable state of the limiter.
LEMMA RateInvariance == RateSpec => []RateInv
  BY RateStart, RateStep, PTL DEF RateSpec

\* Type correctness: limit, window and what slots and updates loaded stay configured values.
THEOREM RateTypeCorrect == RateSpec => []RateTypeOK
<1>1. RateInv => RateTypeOK
  BY DEF RateInv
<1> QED
  BY <1>1, RateInvariance, PTL

\* Where two windows meet, allow() admits at most twice the largest limit within the shortest
\* window, however the limit and the window change and whatever stale value of them a request
\* has loaded.
THEOREM BurstsBounded == RateSpec => []BurstBound
<1>1. RateInv => BurstBound
  <2> SUFFICES ASSUME RateInv, NEW c \in Clients, NEW m \in DOMAIN admits[c]
               PROVE  Cardinality(Admitted(c, admits[c][m], admits[c][m] + ShortestWindow))
                        <= 2 * Max(Limits)
    BY DEF BurstBound
  <2>1. Paced(admits[c], count[c], reset[c], clock) /\ DOMAIN admits[c] = 1..Len(admits[c])
    BY DEF RateInv, RateTypeOK
  <2> QED
    BY <2>1, PacedBurst DEF Admitted
<1> QED
  BY <1>1, RateInvariance, PTL

\* allow() refuses nobody for admissions of a window that is over: within the longest window
\* before the refusal, the client was admitted as often as the limit that refused it.
THEOREM RefusalsFair == RateSpec => []FairRefusal
<1>1. RateInv => FairRefusal
  BY DEF RateInv
<1> QED
  BY <1>1, RateInvariance, PTL
=============================================================================
