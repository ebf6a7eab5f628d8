---------------------------- MODULE RateLimiter ----------------------------
(***************************************************************************)
(* The gateway's fixed-window limiter (gateway/ratelimit.go) while an      *)
(* administrator changes limit and window (gateway/admin.go).  Limit and   *)
(* window are two atomics: every load and every store of one is a step of  *)
(* its own.  A slot is a goroutine that serves one request after another.  *)
(***************************************************************************)
EXTENDS Integers, Sequences, FiniteSets, FiniteSetsExt

CONSTANTS
  Slots, Clients, Admins,
  Limits,          \* the limits that are ever configured; <= 0 disables
  Windows,         \* the window lengths that are ever sent; <= 0 is ignored
  FirstLimit, FirstWindow,
  MaxRequests, MaxClock,     \* bounds on requests and on the clock
  Omitted, NoClient

(* The first window is GATEWAY_RATE_WINDOW, a minute unless it is set;     *)
(* config.go does not refuse one that is not positive, this module does.   *)
ASSUME RateAssumption ==
  /\ Limits \subseteq Int /\ \E top \in Limits : \A l \in Limits : l <= top
  /\ Windows \subseteq Int /\ \E top \in Windows : \A w \in Windows : w <= top
  /\ FirstLimit \in Limits /\ FirstWindow \in Windows /\ FirstWindow > 0
  /\ MaxRequests \in Nat /\ MaxClock \in Nat
  /\ Omitted \notin Int /\ NoClient \notin Clients

VARIABLES
  clock,
  limit, per,                   \* the two atomics
  count, reset,                 \* clients: a window each; NoWindow: none yet
  stage, client, seen, span,    \* slots: progress, client, limit and window loaded
  apc, newLimit, newPer,        \* PUT /admin/rate-limit: progress and locals
  requests,                     \* requests so far
  admits, when                  \* history: admission times, time of an answer

limits  == <<limit, per>>
windows == <<count, reset>>
slotVars  == <<stage, client, seen, span>>
adminVars == <<apc, newLimit, newPer>>
rateVars == <<clock, limits, windows, slotVars, adminVars, requests, admits, when>>

Answers == {"passed", "admitted", "refused"}
NoWindow == -1

RateTypeOK ==
  /\ clock \in Nat
  /\ limit \in Limits /\ per \in Windows /\ per > 0
  /\ count \in [Clients -> Nat] /\ reset \in [Clients -> Nat \cup {NoWindow}]
  /\ stage \in [Slots -> {"new", "limit", "window", "allow"} \cup Answers]
  /\ client \in [Slots -> Clients \cup {NoClient}]
  /\ seen \in [Slots -> Limits] /\ span \in [Slots -> Windows]
  /\ apc \in [Admins -> {"new", "window", "setLimit", "setWindow", "done"}]
  /\ newLimit \in [Admins -> Limits \cup {Omitted}]
  /\ newPer \in [Admins -> Windows \cup {Omitted}]
  /\ requests \in 0..MaxRequests
  /\ admits \in [Clients -> Seq(Nat)] /\ when \in [Slots -> Nat]

RateInit ==
  /\ clock = 0
  /\ limit = FirstLimit /\ per = FirstWindow
  /\ count = [c \in Clients |-> 0] /\ reset = [c \in Clients |-> NoWindow]
  /\ stage = [s \in Slots |-> "new"] /\ client = [s \in Slots |-> NoClient]
  /\ seen = [s \in Slots |-> FirstLimit] /\ span = [s \in Slots |-> FirstWindow]
  /\ apc = [a \in Admins |-> "new"]
  /\ newLimit = [a \in Admins |-> Omitted] /\ newPer = [a \in Admins |-> Omitted]
  /\ requests = 0
  /\ admits = [c \in Clients |-> <<>>] /\ when = [s \in Slots |-> 0]
-----------------------------------------------------------------------------
\* RateLimitMiddleware looks whether limiting is on at all.
Middleware(s, c) ==
  /\ stage[s] \in {"new"} \cup Answers /\ requests < MaxRequests
  /\ requests' = requests + 1
  /\ client' = [client EXCEPT ![s] = c]
  /\ stage' = [stage EXCEPT ![s] = IF limit <= 0 THEN "passed" ELSE "limit"]
  /\ UNCHANGED <<clock, limits, windows, seen, span, adminVars, admits, when>>

\* allow loads the limit again, and then the window.
LoadLimit(s) ==
  /\ stage[s] = "limit"
  /\ seen' = [seen EXCEPT ![s] = limit]
  /\ stage' = [stage EXCEPT ![s] = "window"]
  /\ UNCHANGED <<clock, limits, windows, client, span, adminVars, requests, admits, when>>

LoadWindow(s) ==
  /\ stage[s] = "window"
  /\ span' = [span EXCEPT ![s] = per]
  /\ stage' = [stage EXCEPT ![s] = "allow"]
  /\ UNCHANGED <<clock, limits, windows, client, seen, adminVars, requests, admits, when>>

\* The client's window is over.  Mutant: once opened, it stays.
ExpiredMutant(c) == reset[c] = NoWindow
Expired(c) == reset[c] = NoWindow \/ clock > reset[c]

\* The count compared with the limit.  Mutant: one request too many.
AtLimitMutant(n, lim) == n > lim
AtLimit(n, lim) == n >= lim

\* The locked section of allow.
Allow(s) ==
  LET c == client[s]
      n == IF Expired(c) THEN 0 ELSE count[c]
      full == AtLimit(n, seen[s])
  IN
  /\ stage[s] = "allow"
  /\ reset' = [reset EXCEPT ![c] = IF Expired(c) THEN clock + span[s] ELSE @]
  /\ count' = [count EXCEPT ![c] = IF full THEN n ELSE n + 1]
  /\ admits' = [admits EXCEPT ![c] = IF full THEN @ ELSE Append(@, clock)]
  /\ when' = [when EXCEPT ![s] = clock]
  /\ stage' = [stage EXCEPT ![s] = IF full THEN "refused" ELSE "admitted"]
  /\ UNCHANGED <<clock, limits, client, seen, span, adminVars, requests>>
-----------------------------------------------------------------------------
\* AdminRateLimitHandler: fields that the body omits are read from the limiter.
UpdateLimit(a, body) ==
  /\ apc[a] = "new"
  /\ newLimit' = [newLimit EXCEPT ![a] = IF body = Omitted THEN limit ELSE body]
  /\ apc' = [apc EXCEPT ![a] = "window"]
  /\ UNCHANGED <<clock, limits, windows, slotVars, newPer, requests, admits, when>>

UpdateWindow(a, body) ==
  /\ apc[a] = "window"
  /\ newPer' = [newPer EXCEPT ![a] = IF body = Omitted THEN per ELSE body]
  /\ apc' = [apc EXCEPT ![a] = "setLimit"]
  /\ UNCHANGED <<clock, limits, windows, slotVars, newLimit, requests, admits, when>>

\* A body or a window that cannot be parsed: a 400, nothing is stored.
UpdateInvalid(a) ==
  /\ apc[a] \in {"new", "window"}
  /\ apc' = [apc EXCEPT ![a] = "done"]
  /\ UNCHANGED <<clock, limits, windows, slotVars, newLimit, newPer, requests, admits, when>>

\* SetLimits stores the limit, and then a window that is positive.
SetLimit(a) ==
  /\ apc[a] = "setLimit"
  /\ limit' = newLimit[a]
  /\ apc' = [apc EXCEPT ![a] = "setWindow"]
  /\ UNCHANGED <<clock, per, windows, slotVars, newLimit, newPer, requests, admits, when>>

KeptWindow(p) == IF p > 0 THEN p ELSE per
SetWindow(a) ==
  /\ apc[a] = "setWindow"
  /\ per' = KeptWindow(newPer[a])
  /\ apc' = [apc EXCEPT ![a] = "done"]
  /\ UNCHANGED <<clock, limit, windows, slotVars, newLimit, newPer, requests, admits, when>>

ClockTick ==
  /\ clock < MaxClock /\ clock' = clock + 1
  /\ UNCHANGED <<limits, windows, slotVars, adminVars, requests, admits, when>>
-----------------------------------------------------------------------------
Handle(s) == \/ \E c \in Clients : Middleware(s, c)
             \/ LoadLimit(s) \/ LoadWindow(s) \/ Allow(s)

Update(a) == \/ \E body \in Limits \cup {Omitted} : UpdateLimit(a, body)
             \/ \E body \in Windows \cup {Omitted} : UpdateWindow(a, body)
             \/ UpdateInvalid(a) \/ SetLimit(a) \/ SetWindow(a)

RateNext == (\E s \in Slots : Handle(s)) \/ (\E a \in Admins : Update(a)) \/ ClockTick

RateSpec == RateInit /\ [][RateNext]_rateVars
-----------------------------------------------------------------------------
\* The admissions of client c from time t on, up to time u.
Admitted(c, t, u) == {i \in DOMAIN admits[c] : t <= admits[c][i] /\ admits[c][i] <= u}

ShortestWindow == Min({w \in Windows : w > 0})

\* However requests fall on the windows and whatever the administrator does, no
\* stretch of time as long as the shortest window admits more than twice the
\* largest limit.
BurstBound ==
  \A c \in Clients : \A t \in {admits[c][i] : i \in DOMAIN admits[c]} :
    Cardinality(Admitted(c, t, t + ShortestWindow)) <= 2 * Max(Limits)

\* A client is turned away only when as many of its requests as the limit says were
\* admitted within the longest window: an old window never counts.
FairRefusal ==
  \A s \in Slots : stage[s] = "refused" =>
    Cardinality(Admitted(client[s], when[s] - Max(Windows), when[s])) >= seen[s]
=============================================================================
