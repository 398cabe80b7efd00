------------------------------ MODULE CcxtLive ------------------------------
(***************************************************************************)
(* CcxtLiveBarSession (providers/ccxt/live.py): native clients shared by   *)
(* client id, one watching task per subscription, one merge queue.  Tasks  *)
(* run on one event loop: what happens between two awaits is one step, and *)
(* an await that need not wait is none.                                    *)
(*                                                                         *)
(* The steps here say what a call or task does to the provider session;    *)
(* LiveSession adds what it does to the public session around it.          *)
(***************************************************************************)
EXTENDS Naturals, Sequences, FiniteSets

CONSTANTS
  Subs,        \* calls of subscribe_bar_updates
  Markets,     \* resolved datasets: an identity with a timeframe
  Clients,     \* native client ids
  MarketOf,    \* the dataset a call subscribes
  ClientOf,    \* the native client id of a dataset
  Stamps,      \* bar starts
  FeedSize,    \* the capacity of the merge queue
  MaxUpdates,  \* bound: updates published in a behaviour
  None

ASSUME LiveAssumption ==
  /\ MarketOf \in [Subs -> Markets]
  /\ ClientOf \in [Markets -> Clients]
  /\ Stamps \subseteq Nat
  /\ FeedSize \in Nat \ {0}
  /\ None \notin Subs \cup Markets \cup Stamps

VARIABLES
  ccxt,      \* the session's fields
  watch,     \* watch[k]: the task watching dataset k
  native,    \* native[s]: the native client that call s created
  shutdown,  \* the shutdown task
  published  \* history: every update put in the merge queue

ccxtVars == <<ccxt, watch, native, shutdown, published>>

Update == [market : Markets, stamp : Stamps]

\* The failure marker a queue holds instead of updates.
Failed == [market |-> None, stamp |-> 0]

CcxtFields == [open          : BOOLEAN,
               failed        : BOOLEAN,
               feed          : Seq(Update \cup {Failed}),
               clients       : [Clients -> Subs \cup {None}],
               subscriptions : SUBSET Markets]

Shutdown == [pc      : {"none", "created", "gathering", "closing", "ended"},
             tasks   : SUBSET Markets,    \* the tasks it waits for
             clients : SUBSET Clients,    \* the dictionary it iterates over
             left    : SUBSET Clients,    \* clients it has yet to close
             closing : Subs \cup {None},  \* the client it is closing
             failed  : BOOLEAN]

CcxtTypeOK ==
  /\ ccxt \in CcxtFields
  /\ Len(ccxt.feed) <= FeedSize
  /\ watch \in [Markets -> {"none", "created", "watching", "cancelled", "ended"}]
  /\ native \in [Subs -> {"none", "open", "closed", "interrupted"}]
  /\ shutdown \in Shutdown
  /\ published \in Seq(Update)

CcxtInit ==
  /\ ccxt = [open |-> FALSE, failed |-> FALSE, feed |-> <<>>,
             clients |-> [c \in Clients |-> None], subscriptions |-> {}]
  /\ watch = [k \in Markets |-> "none"]
  /\ native = [s \in Subs |-> "none"]
  /\ shutdown = [pc |-> "none", tasks |-> {}, clients |-> {}, left |-> {},
                 closing |-> None, failed |-> FALSE]
  /\ published = <<>>

-----------------------------------------------------------------------------
(* Subscribing.                                                            *)

ClientId(s) == ClientOf[MarketOf[s]]

Registered == {c \in Clients : ccxt.clients[c] # None}

Available(k) == ccxt.open /\ ~ccxt.failed /\ k \notin ccxt.subscriptions

\* The client is there; the rest of the call does not wait.
CcxtSubscribe(s, clients) ==
  LET k == MarketOf[s] IN
  /\ ccxt' = [ccxt EXCEPT !.clients = clients, !.subscriptions = @ \cup {k}]
  /\ watch' = [watch EXCEPT ![k] = "created"]
  /\ UNCHANGED <<native, shutdown, published>>

CcxtReuseClient(s) ==
  /\ ClientId(s) \in Registered
  /\ CcxtSubscribe(s, ccxt.clients)

\* A client is created but not registered while its markets load.
CcxtCreateClient(s) ==
  /\ ClientId(s) \notin Registered
  /\ native' = [native EXCEPT ![s] = "open"]
  /\ UNCHANGED <<ccxt, watch, shutdown, published>>

\* The markets are loaded and the client is registered, whatever has been
\* registered meanwhile, and whether or not the session is still open.
CcxtRegisterClient(s) ==
  CcxtSubscribe(s, [ccxt.clients EXCEPT ![ClientId(s)] = s])

CcxtForgetClient(s, how) == UNCHANGED ccxtVars
CcxtCloseClient(s, how) ==
  /\ native' = [native EXCEPT ![s] = how]
  /\ UNCHANGED <<ccxt, watch, shutdown, published>>

-----------------------------------------------------------------------------
(* The watching tasks.                                                     *)

Alive == {k \in Markets : watch[k] \in {"created", "watching"}}

CancelNone(tasks) == watch
Cancel(tasks) ==
  [k \in Markets |-> IF k \in tasks \cap Alive THEN "cancelled" ELSE watch[k]]

\* _watch is entered: it may find that there is nothing left to watch.
WatchStarts(k) ==
  /\ watch[k] = "created"
  /\ watch' = [watch EXCEPT ![k] = IF ccxt.open /\ ~ccxt.failed THEN "watching"
                                   ELSE "ended"]
  /\ UNCHANGED <<ccxt, native, shutdown, published>>

\* _fail: the merge queue is emptied for the failure, other tasks cancelled.
FeedFails(k) ==
  /\ ccxt' = [ccxt EXCEPT !.failed = TRUE, !.feed = <<Failed>>]
  /\ watch' = [Cancel(Markets) EXCEPT ![k] = "ended"]
  /\ UNCHANGED <<native, shutdown, published>>

\* watch_ohlcv returns rows, which are published without waiting.
Overflow(feed, rows) == Len(feed) + Len(rows) > FeedSize

PutLatest(feed, rows) ==
  SelectSeq(feed, LAMBDA update : update.market # rows[1].market) \o rows
Put(feed, rows) == feed \o rows

WatchReturns(k, stamps) ==
  LET rows == [i \in 1..Len(stamps) |-> [market |-> k, stamp |-> stamps[i]]] IN
  /\ watch[k] = "watching"
  /\ IF Overflow(ccxt.feed, rows) THEN FeedFails(k)
     ELSE /\ Len(published) + Len(rows) <= MaxUpdates
          /\ ccxt' = [ccxt EXCEPT !.feed = Put(@, rows)]
          /\ published' = published \o rows
          /\ watch' = [watch EXCEPT ![k] = IF ccxt.open THEN @ ELSE "ended"]
          /\ UNCHANGED <<native, shutdown>>

\* watch_ohlcv raises, or returns something malformed.
WatchFails(k) ==
  /\ watch[k] = "watching"
  /\ FeedFails(k)

WatchCancelled(k) ==
  /\ watch[k] = "cancelled"
  /\ watch' = [watch EXCEPT ![k] = "ended"]
  /\ UNCHANGED <<ccxt, native, shutdown, published>>

-----------------------------------------------------------------------------
(* Leaving the session.                                                    *)

\* __aexit__: no new subscription, and a task that shuts the session down,
\* which a cancellation of the caller does not reach.
CcxtExit ==
  /\ ccxt' = [ccxt EXCEPT !.open = FALSE]
  /\ shutdown' = [shutdown EXCEPT !.pc = "created"]
  /\ UNCHANGED <<watch, native, published>>

ShutdownStarts ==
  /\ shutdown.pc = "created"
  /\ watch' = Cancel(Markets)
  /\ shutdown' = [shutdown EXCEPT !.pc = "gathering",
                    !.tasks = {k \in Markets : watch[k] \notin {"none", "ended"}}]
  /\ UNCHANGED <<ccxt, native, published>>

\* The loop over the dictionary of clients awaits each close, so that the
\* dictionary can grow meanwhile, which makes the iterator raise.
ClosesNext(next) ==
  IF Registered # next.clients
  THEN /\ shutdown' = [next EXCEPT !.pc = "ended", !.failed = TRUE]
       /\ UNCHANGED ccxt
  ELSE IF next.left = {}
  THEN /\ shutdown' = [next EXCEPT !.pc = "ended"]
       /\ ccxt' = [ccxt EXCEPT !.clients = [c \in Clients |-> None]]
  ELSE /\ \E c \in next.left :
            shutdown' = [next EXCEPT !.pc = "closing", !.left = @ \ {c},
                           !.closing = ccxt.clients[c]]
       /\ UNCHANGED ccxt

TasksGathered ==
  /\ shutdown.pc = "gathering"
  /\ \A k \in shutdown.tasks : watch[k] = "ended"
  /\ ClosesNext([shutdown EXCEPT !.clients = Registered, !.left = Registered])
  /\ UNCHANGED <<watch, native, published>>

CloseReturns(raised) ==
  /\ shutdown.pc = "closing"
  /\ native' = [native EXCEPT ![shutdown.closing] = "closed"]
  /\ ClosesNext([shutdown EXCEPT !.closing = None, !.failed = @ \/ raised])
  /\ UNCHANGED <<watch, published>>

\* The steps of the session's own tasks.
CcxtTask ==
  \/ \E k \in Markets : WatchStarts(k) \/ WatchCancelled(k)
  \/ ShutdownStarts \/ TasksGathered
  \/ \E raised \in BOOLEAN : CloseReturns(raised)

\* The steps of the venue.
CcxtVenue ==
  \E k \in Markets :
    \/ WatchFails(k)
    \/ \E n \in 1..2 : \E stamps \in [1..n -> Stamps] : WatchReturns(k, stamps)
=============================================================================
