--------------------------- MODULE GatewayServer ---------------------------
(***************************************************************************)
(* The life of a gateway (createGateway, listen and close of               *)
(* core/gateway.js) and the way of a request through it: connection, clock *)
(* guard, ingress limiter, body, account and shared limiter, work on the   *)
(* stores, answer.  The clock guard is TimeGuard.tla.                      *)
(*                                                                         *)
(* Abstractions: what a handler does between its limits and its answer is  *)
(* one wait (Admission.tla and SeasonMembers.tla open it), and so are the  *)
(* awaits of a refresh.  One attempt to listen is made at a time.  Between *)
(* the release of a SQLite store, the only one that is pruned, and that of *)
(* the timers no timer fires, because its close is synchronous.  The store *)
(* is one with a handle to give back (the memory store has none).  A       *)
(* request is sent once per process.                                       *)
(***************************************************************************)
EXTENDS TimeGuard, RateLimiter, FiniteSets

CONSTANTS
  Requests,      \* state-bearing requests
  Client,        \* Client[r]: clientKey(req)
  Account,       \* Account[r]: the account the body names
  IngressMax, AccountMax, SharedMax   \* the limits per window

ASSUME ServerAssumption ==
  /\ DOMAIN Client = Requests /\ DOMAIN Account = Requests
  /\ {IngressMax, AccountMax, SharedMax} \subseteq Nat \ {0}

VARIABLES
  phase,       \* how far createGateway has come
  releases,    \* the release list
  refreshing,  \* refreshInFlight
  socket,      \* the listening socket
  closing,     \* where the shared teardown of close() is
  conn, pc,    \* per request: its connection, its handler
  inFlight,    \* inFlightRequests
  ingress, account, shared,   \* the tables of three limiters
  passed       \* history: the requests that passed their limits

guardVars == <<clock, marks, file, served, refused>>
lifeVars == <<phase, releases, refreshing, socket, closing>>
requestVars == <<conn, pc, inFlight>>
limitVars == <<ingress, account, shared, passed>>
serverVars == <<guardVars, lifeVars, requestVars, limitVars>>

closed == closing # "no"
Handling(r) == pc[r] \in {"body", "work"}
-----------------------------------------------------------------------------
(* Boot.                                                                   *)

\* A new process: nothing of the last one is left but the marks file.
Fresh ==
  /\ phase' = "opening"
  /\ releases' = <<"timers">>
  /\ refreshing' = FALSE /\ socket' = "none" /\ closing' = "no"
  /\ conn' = [r \in Requests |-> "none"]
  /\ pc' = [r \in Requests |-> "idle"]
  /\ inFlight' = 0
  /\ ingress' = <<>> /\ account' = <<>> /\ shared' = <<>> /\ passed' = {}

\* The process dies, or its operator starts it again after a failed boot.
StartAgain == Restart /\ Fresh

OpenStore ==
  /\ phase = "opening"
  /\ phase' = "checking"
  /\ releases' = Append(releases, "nullifiers")
  /\ UNCHANGED <<guardVars, refreshing, socket, closing, requestVars, limitVars>>

\* A boot that throws gives back what it took, also when a release
\* throws.
BootFails ==
  /\ phase \in {"opening", "checking"}
  /\ phase' = "failed"
  /\ releases' = <<>>
  /\ UNCHANGED <<guardVars, refreshing, socket, closing, requestVars, limitVars>>

ChecksPass ==
  /\ phase = "checking"
  /\ phase' = "refreshing"
  /\ refreshing' = TRUE
  /\ UNCHANGED <<guardVars, releases, socket, closing, requestVars, limitVars>>

\* The first refresh is over, by an adoption or not: the timers start and the
\* claims are pruned once.
BootEnds ==
  /\ phase = "refreshing"
  /\ phase' = "up"
  /\ refreshing' = FALSE
  /\ ObserveEpoch
  /\ UNCHANGED <<releases, socket, closing, requestVars, limitVars>>
-----------------------------------------------------------------------------
(* Timers.                                                                 *)

TimersRun == phase = "up" /\ "timers" \in ToSet(releases)

RefreshTimer ==
  /\ TimersRun /\ ~refreshing /\ ~closed
  /\ refreshing' = TRUE
  /\ UNCHANGED <<guardVars, phase, releases, socket, closing, requestVars, limitVars>>

RefreshEnds ==
  /\ phase = "up" /\ refreshing
  /\ refreshing' = FALSE
  /\ UNCHANGED <<guardVars, phase, releases, socket, closing, requestVars, limitVars>>

PruneTimer ==
  /\ TimersRun /\ closing # "release"
  /\ ObserveEpoch
  /\ UNCHANGED <<lifeVars, requestVars, limitVars>>

sweepLimiters ==
  /\ TimersRun
  /\ ingress' = Swept(ingress, clock)
  /\ account' = Swept(account, clock)
  /\ shared' = Swept(shared, clock)
  /\ UNCHANGED <<guardVars, lifeVars, requestVars, passed>>
-----------------------------------------------------------------------------
(* A request.                                                              *)

Connect(r) ==
  /\ socket = "listening" /\ conn[r] = "none"
  /\ conn' = [conn EXCEPT ![r] = "open"]
  /\ UNCHANGED <<guardVars, lifeVars, pc, inFlight, limitVars>>

\* The client goes away, an idle connection is closed, or a request times out.
\* The handler runs on.
Disconnect(r) ==
  /\ conn[r] = "open"
  /\ conn' = [conn EXCEPT ![r] = "over"]
  /\ UNCHANGED <<guardVars, lifeVars, pc, inFlight, limitVars>>

Enter(r, to) ==
  /\ pc' = [pc EXCEPT ![r] = to]
  /\ inFlight' = IF to = "done" THEN inFlight ELSE inFlight + 1

\* Slip: a handler that throws is not counted down.
LeaveForgotten(r) ==
  /\ pc' = [pc EXCEPT ![r] = "done"]
  /\ inFlight' \in {inFlight - 1, inFlight}

\* finally
Leave(r) ==
  /\ pc' = [pc EXCEPT ![r] = "done"]
  /\ inFlight' = inFlight - 1

\* Up to the first await: the clock guard and the ingress limiter.  A request on
\* an open connection is handled although the gateway is closing.
Arrive(r) ==
  /\ conn[r] = "open" /\ pc[r] = "idle"
  /\ \E f \in Faults :
       /\ RequestWith(f)
       /\ IF Throws(marks, clock, f) \/ marks'.regressed
          THEN Enter(r, "done") /\ UNCHANGED ingress
          ELSE /\ ingress' = Charged(ingress, Client[r], clock)
               /\ Enter(r, IF allow(ingress, Client[r], clock, IngressMax)
                             THEN "body" ELSE "done")
  /\ UNCHANGED <<lifeVars, conn, account, shared, passed>>

\* The body is cut off, too large, not JSON, or lacks a field.
BodyFails(r) ==
  /\ pc[r] = "body"
  /\ Leave(r)
  /\ UNCHANGED <<guardVars, lifeVars, conn, limitVars>>

AccountKey(r) == <<Client[r], Account[r]>>

\* Slip: the account is charged before the shared limit is asked.
allowInTurn(r) ==
  IF ~allow(account, AccountKey(r), clock, AccountMax)
  THEN account' = Charged(account, AccountKey(r), clock) /\ UNCHANGED shared
  ELSE /\ account' = Charged(account, AccountKey(r), clock)
       /\ shared' = Charged(shared, Client[r], clock)

\* allowAll(): both tables are charged or neither.
allowAll(r) ==
  IF /\ wouldAllow(account, AccountKey(r), clock, AccountMax)
     /\ wouldAllow(shared, Client[r], clock, SharedMax)
  THEN /\ account' = Charged(account, AccountKey(r), clock)
       /\ shared' = Charged(shared, Client[r], clock)
  ELSE UNCHANGED <<account, shared>>

\* The windows a request has been charged to.
Pass(r) ==
  [request |-> r, account |-> WindowOf(account', AccountKey(r)).reset,
   shared |-> WindowOf(shared', Client[r]).reset]

BodyArrives(r) ==
  /\ pc[r] = "body" /\ conn[r] = "open"
  /\ allowAll(r)
  /\ IF /\ wouldAllow(account, AccountKey(r), clock, AccountMax)
        /\ wouldAllow(shared, Client[r], clock, SharedMax)
     THEN /\ pc' = [pc EXCEPT ![r] = "work"]
          /\ passed' = passed \cup {Pass(r)}
          /\ UNCHANGED inFlight
     ELSE Leave(r) /\ UNCHANGED passed
  /\ UNCHANGED <<guardVars, lifeVars, conn, ingress>>

\* The stores have answered or thrown; so does the handler.
Finish(r) ==
  /\ pc[r] = "work"
  /\ Leave(r)
  /\ UNCHANGED <<guardVars, lifeVars, conn, limitVars>>
-----------------------------------------------------------------------------
(* listen() and close().                                                   *)

listen ==
  /\ phase = "up" /\ ~closed /\ socket = "none"
  /\ socket' = "binding"
  /\ UNCHANGED <<guardVars, phase, releases, refreshing, closing, requestVars, limitVars>>

BindEnds ==
  /\ socket = "binding"
  /\ socket' \in {"listening", "none"}
  /\ UNCHANGED <<guardVars, phase, releases, refreshing, closing, requestVars, limitVars>>

closeMoves(from, to) ==
  /\ closing = from
  /\ closing' = to
  /\ UNCHANGED <<guardVars, phase, refreshing, requestVars, limitVars>>

close ==
  /\ phase = "up"
  /\ closeMoves("no", "refresh")
  /\ UNCHANGED <<releases, socket>>

RefreshAwaited ==
  /\ ~refreshing
  /\ closeMoves("refresh", "bind")
  /\ UNCHANGED <<releases, socket>>

\* A bind in progress is awaited, and server.close() accepts no more.
ListenAwaited ==
  /\ socket # "binding"
  /\ closeMoves("bind", IF socket = "listening" THEN "socket" ELSE "drain")
  /\ socket' = "none"
  /\ UNCHANGED releases

ConnectionsEnded ==
  /\ \A r \in Requests : conn[r] # "open"
  /\ closeMoves("socket", "drain")
  /\ UNCHANGED <<releases, socket>>

DrainForgotten ==   \* slip: the connections' end is taken for the handlers'
  /\ closeMoves("drain", "release")
  /\ UNCHANGED <<releases, socket>>

Drained ==
  /\ inFlight = 0
  /\ closeMoves("drain", "release")
  /\ UNCHANGED <<releases, socket>>

\* The last acquisition still held is given back, or its release throws, which
\* does not end the loop.
Release ==
  /\ releases # <<>>
  /\ releases' = Front(releases)
  /\ closeMoves("release", "release")
  /\ UNCHANGED socket

CloseSettles ==
  /\ releases = <<>>
  /\ closeMoves("release", "settled")
  /\ UNCHANGED <<releases, socket>>
-----------------------------------------------------------------------------
ServerInit ==
  /\ Init
  /\ phase = "opening" /\ releases = <<"timers">>
  /\ refreshing = FALSE /\ socket = "none" /\ closing = "no"
  /\ conn = [r \in Requests |-> "none"]
  /\ pc = [r \in Requests |-> "idle"]
  /\ inFlight = 0
  /\ ingress = <<>> /\ account = <<>> /\ shared = <<>> /\ passed = {}

ClockSet == SetClock /\ UNCHANGED <<lifeVars, requestVars, limitVars>>

HandlerStep(r) == BodyFails(r) \/ BodyArrives(r) \/ Finish(r)

TeardownStep ==
  \/ RefreshAwaited \/ ListenAwaited \/ ConnectionsEnded \/ Drained \/ Release
  \/ CloseSettles

ServerNext ==
  \/ ClockSet \/ StartAgain
  \/ OpenStore \/ BootFails \/ ChecksPass \/ BootEnds
  \/ RefreshTimer \/ RefreshEnds \/ PruneTimer \/ sweepLimiters
  \/ \E r \in Requests : Connect(r) \/ Disconnect(r) \/ Arrive(r) \/ HandlerStep(r)
  \/ listen \/ BindEnds \/ close \/ TeardownStep

ServerSpec == ServerInit /\ [][ServerNext]_serverVars

\* Bodies come or their connections end, stores answer, fetches and binds
\* settle, and the connections of a closing server end (idle ones are closed,
\* others time out).
FairServerSpec ==
  /\ ServerSpec
  /\ WF_serverVars(RefreshEnds) /\ WF_serverVars(BindEnds) /\ WF_serverVars(TeardownStep)
  /\ \A r \in Requests :
       WF_serverVars(HandlerStep(r)) /\ WF_serverVars(closing = "socket" /\ Disconnect(r))
-----------------------------------------------------------------------------
(* Properties.                                                             *)

\* What a handler or a refresh works with has not been given back.
WorkHasItsStores ==
  /\ \A r \in Requests : Handling(r) => "nullifiers" \in ToSet(releases)
  /\ refreshing => "nullifiers" \in ToSet(releases)

\* A gateway that is closed, or whose boot failed, has no socket, no connection,
\* no timer and no store of its own left: nothing outlives close(), also when a
\* bind or a refresh was in progress, clients had gone or a release threw.
NothingIsLeft ==
  phase = "failed" \/ closing = "settled" =>
    /\ releases = <<>>
    /\ socket = "none" /\ ~refreshing
    /\ \A r \in Requests : conn[r] # "open" /\ ~Handling(r)

TeardownIsSafe == WorkHasItsStores /\ NothingIsLeft

\* No window is charged for a request that did not pass its limits: an account
\* that is refused keeps its share, and cannot drain its community's.
RefusalsAreFree ==
  /\ \A i \in DOMAIN account :
       LET e == account[i]
       IN e.count <= Cardinality({p \in passed : AccountKey(p.request) = e.key
                                                   /\ p.account = e.reset})
  /\ \A i \in DOMAIN shared :
       LET e == shared[i]
       IN e.count <= Cardinality({p \in passed : Client[p.request] = e.key
                                                   /\ p.shared = e.reset})

\* close() settles whatever clients and handlers were doing, unless the process
\* is killed: no handler is counted that is over, and nobody waits for one.
TeardownEnds == closing = "refresh" ~> closing = "settled" \/ phase # "up"
=============================================================================
