---------------------------- MODULE LiveSession ----------------------------
(***************************************************************************)
(* LiveMarketData (live.py) and LiveBarRuntime (providers/live_runtime.py) *)
(* over the provider session of CcxtLive: calls that subscribe, a reader   *)
(* task that moves updates from the merge queue to the public one, one     *)
(* consumer, and the task that enters and leaves the context.  Calls may   *)
(* overlap each other and the exit, and be cancelled.                      *)
(***************************************************************************)
EXTENDS CcxtLive

CONSTANT QueueSize  \* the capacity of the public queue

ASSUME QueueAssumption == QueueSize \in Nat \ {0}

VARIABLES
  live,      \* the fields of the session and of its runtime
  sub,       \* sub[s]: the frame of a call of subscribe_bar_updates
  reader,    \* the reader task the session holds
  consumer,  \* the consuming task
  received,  \* history: the updates it got
  exit       \* the frame of __aexit__

liveVars == <<ccxt, watch, native, shutdown, published,
              live, sub, reader, consumer, received, exit>>

Failures == {"stream", "unrouted", "backwards", "overflow", "ended", "cancelled"}

Session == [state     : {"created", "open", "closing", "closed", "failed"},
            runtime   : BOOLEAN,          \* it still has its runtime
            requested : SUBSET Markets,
            routes    : SUBSET Markets,
            active    : SUBSET Markets,   \* the runtime's subscriptions
            last      : [Markets -> Stamps \cup {None}],
            failure   : {"none"} \cup Failures,
            observed  : BOOLEAN,
            queue     : Seq(Update \cup {Failed})]

CallFrame == [pc      : {"idle", "resolving", "loading", "closing", "unwinding",
                         "done"},
              overlap : {"none", "call", "exit"}]  \* history

ExitFrame == [pc      : {"none", "reader", "provider", "done"},
              primary : {"none", "body", "failure"},  \* the error to raise
              cleanup : BOOLEAN]                       \* and another

LiveTypeOK ==
  /\ CcxtTypeOK
  /\ live \in Session
  /\ Len(live.queue) <= QueueSize
  /\ sub \in [Subs -> CallFrame]
  /\ reader \in {"none", "created", "waiting", "cancelled", "ended"}
  /\ consumer \in {"idle", "waiting", "stopped"}
  /\ received \in Seq(Update)
  /\ exit \in ExitFrame

LiveInit ==
  /\ CcxtInit
  /\ live = [state |-> "created", runtime |-> FALSE, requested |-> {},
             routes |-> {}, active |-> {}, last |-> [k \in Markets |-> None],
             failure |-> "none", observed |-> FALSE, queue |-> <<>>]
  /\ sub = [s \in Subs |-> [pc |-> "idle", overlap |-> "none"]]
  /\ reader = "none"
  /\ consumer = "idle"
  /\ received = <<>>
  /\ exit = [pc |-> "none", primary |-> "none", cleanup |-> FALSE]

Healthy == live.failure = "none"

-----------------------------------------------------------------------------
(* Entering, and failing.                                                  *)

Enter ==
  /\ live.state = "created"
  /\ live' = [live EXCEPT !.state = "open", !.runtime = TRUE]
  /\ ccxt' = [ccxt EXCEPT !.open = TRUE]
  /\ UNCHANGED <<watch, native, shutdown, published, sub, reader, consumer,
                 received, exit>>

\* There is no live capability, or opening it failed.
EnterFails ==
  /\ live.state = "created"
  /\ live' = [live EXCEPT !.state = "failed"]
  /\ UNCHANGED <<ccxtVars, sub, reader, consumer, received, exit>>

\* _publish_failure: the first failure counts; the queue is emptied for it.
PublishFailureQuietly(l, why) ==
  IF l.failure # "none" THEN l
  ELSE [l EXCEPT !.failure = why, !.state = "failed", !.queue = <<>>]
PublishFailure(l, why) ==
  IF l.failure # "none" THEN l
  ELSE [l EXCEPT !.failure = why, !.state = "failed", !.queue = <<Failed>>]

\* It cancels the reader, unless the reader itself published it.
ReaderAfterFailure ==
  IF Healthy /\ reader \in {"created", "waiting"} THEN "cancelled" ELSE reader

-----------------------------------------------------------------------------
(* subscribe_bar_updates.                                                  *)

At(s, pc) == sub[s].pc = pc

Goes(s, pc) == sub' = [sub EXCEPT ![s].pc = pc]

Subscribe(s) ==
  /\ At(s, "idle")
  /\ live.state # "created"
  /\ Goes(s, IF live.state = "open" /\ MarketOf[s] \notin live.requested
             THEN "resolving" ELSE "done")
  /\ UNCHANGED <<ccxtVars, live, reader, consumer, received, exit>>

\* The market is resolved in a thread.  It may not be supported, or the call
\* is cancelled meanwhile: nothing has been registered yet.
ResolveFails(s) ==
  /\ At(s, "resolving")
  /\ Goes(s, "done")
  /\ UNCHANGED <<ccxtVars, live, reader, consumer, received, exit>>

Routed(k) == [live EXCEPT !.routes = @ \cup {k}, !.active = @ \cup {k}]
Unrouted(k) == [live EXCEPT !.routes = @ \ {k}, !.active = @ \ {k}]

\* The call is completed, and the session has a reader.
Completed(s, l) ==
  /\ live' = [l EXCEPT !.requested = @ \cup {MarketOf[s]}]
  /\ reader' = IF reader = "none" THEN "created" ELSE reader
  /\ Goes(s, "done")

\* Calls that activate the same client overlap; see also ExitBegins.
Overlapping(s) == {t \in Subs : At(t, "loading") /\ ClientId(t) = ClientId(s)}
Overlaps(calls, with) ==
  [s \in Subs |-> IF s \in calls /\ sub[s].overlap # "exit"
                  THEN [sub[s] EXCEPT !.overlap = with] ELSE sub[s]]

AdmittedTwice(k) == TRUE
Admitted(k) == k \notin live.routes /\ k \notin live.active

\* The market is resolved.  Duplicates are refused, then the provider
\* session is asked, which reuses its client or creates one.
Resolved(s) ==
  LET k == MarketOf[s] IN
  /\ At(s, "resolving")
  /\ UNCHANGED <<consumer, received, exit>>
  /\ \/ /\ Admitted(k) /\ live.runtime /\ Available(k)
        /\ \/ CcxtReuseClient(s) /\ Completed(s, Routed(k))
           \/ /\ CcxtCreateClient(s)
              /\ live' = Routed(k)
              /\ sub' = [Overlaps(IF Overlapping(s) = {} THEN {}
                                  ELSE Overlapping(s) \cup {s}, "call")
                           EXCEPT ![s].pc = "loading"]
              /\ UNCHANGED reader
     \/ /\ ~Admitted(k)
        /\ Goes(s, "done")
        /\ UNCHANGED <<ccxtVars, live, reader>>
     \/ \* Refused by the session, the client cannot be created, or the reused
        \* one lacks the timeframe; or there is no runtime any more.
        /\ Admitted(k)
        /\ Goes(s, "done")
        /\ live' = Unrouted(k)
        /\ UNCHANGED <<ccxtVars, reader>>

MarketsLoaded(s) ==
  /\ At(s, "loading")
  /\ CcxtRegisterClient(s)
  /\ Completed(s, live)
  /\ UNCHANGED <<consumer, received, exit>>

\* Loading failed or the client cannot watch; it is closed, in silence.
LoadFails(s) ==
  /\ At(s, "loading")
  /\ Goes(s, "closing")
  /\ UNCHANGED <<ccxtVars, live, reader, consumer, received, exit>>

LoadFailureClosed(s) ==
  /\ At(s, "closing")
  /\ CcxtCloseClient(s, "closed")
  /\ live' = Unrouted(MarketOf[s])
  /\ Goes(s, "done")
  /\ UNCHANGED <<reader, consumer, received, exit>>

\* A call cancelled while markets load closes its client, whatever else
\* cancels it; only then does it fail the session.
LoadCancelled(s) ==
  /\ At(s, "loading")
  /\ Goes(s, "unwinding")
  /\ UNCHANGED <<ccxtVars, live, reader, consumer, received, exit>>

ActivationCancelled(s, how) ==
  /\ CcxtCloseClient(s, how)
  /\ live' = PublishFailure(Unrouted(MarketOf[s]), "cancelled")
  /\ reader' = ReaderAfterFailure
  /\ Goes(s, "done")
  /\ UNCHANGED <<consumer, received, exit>>

CancelledClosed(s) == At(s, "unwinding") /\ ActivationCancelled(s, "closed")

\* The close of a client that failed to load can be cancelled itself.
CloseCancelled(s) == At(s, "closing") /\ ActivationCancelled(s, "interrupted")

-----------------------------------------------------------------------------
(* The reader task: _read_updates over LiveBarRuntime.updates.             *)

ReaderFails(l, why) ==
  /\ live' = PublishFailure(l, why)
  /\ reader' = "ended"

\* The task is entered; a session that is being left has no runtime.
ReaderStarts ==
  /\ reader = "created"
  /\ IF ~live.runtime THEN reader' = "ended" /\ UNCHANGED live
     ELSE IF ccxt.failed THEN ReaderFails(live, "stream")
     ELSE reader' = "waiting" /\ UNCHANGED live
  /\ UNCHANGED <<ccxtVars, sub, consumer, received, exit>>

\* What is wrong with the i-th update of the merge queue, in the order of
\* the checks of _normalize, _route_update and _enqueue.
EarlierStamp(update, i) ==
  LET k == update.market
      before == {j \in 1..(i - 1) : ccxt.feed[j].market = k} IN
  IF before = {} THEN live.last[k]
  ELSE ccxt.feed[CHOOSE j \in before : \A n \in before : n <= j].stamp

NothingBackwards(i) == FALSE
Backwards(i) ==
  LET earlier == EarlierStamp(ccxt.feed[i], i) IN
  earlier # None /\ ccxt.feed[i].stamp < earlier

\* put_nowait of the i-th update, after the i - 1 before it.
QueueFullLate(i) == Len(live.queue) + i > QueueSize + 1
QueueFull(i) == Len(live.queue) + i > QueueSize

Wrong(i) ==
  LET k == ccxt.feed[i].market IN
  IF k \notin live.active THEN "unrouted"
  ELSE IF Backwards(i) THEN "backwards"
  ELSE IF ~Healthy THEN "stopped"
  ELSE IF k \notin live.routes THEN "unrouted"
  ELSE IF QueueFull(i) THEN "overflow"
  ELSE "nothing"

\* The reader takes what the merge queue has, without waiting in between,
\* up to the first update it cannot pass on.
ReaderReads ==
  LET size == Len(ccxt.feed)
      wrong == {i \in 1..size : Wrong(i) # "nothing"}
      n == IF wrong = {} THEN size
           ELSE CHOOSE i \in wrong : \A j \in wrong : i <= j
      taken == 1..n
      moved == [live EXCEPT
        !.queue = @ \o ccxt.feed,
        !.last = [k \in Markets |->
                    IF \E i \in taken : ccxt.feed[i].market = k
                    THEN EarlierStamp([market |-> k], n + 1) ELSE @[k]]]
  IN
  /\ reader = "waiting"
  /\ size > 0
  /\ UNCHANGED <<watch, native, shutdown, published, sub, consumer, received, exit>>
  /\ ccxt' = [ccxt EXCEPT !.feed = SubSeq(@, n + 1, size)]
  /\ IF ccxt.feed[1] = Failed THEN ReaderFails(live, "stream")
     ELSE IF wrong # {} THEN ReaderFails(live, Wrong(n))
     ELSE IF ~ccxt.open THEN ReaderFails(moved, "ended")
     ELSE live' = moved /\ UNCHANGED reader

ReaderCancelled ==
  /\ reader = "cancelled"
  /\ reader' = "ended"
  /\ UNCHANGED <<ccxtVars, live, sub, consumer, received, exit>>

-----------------------------------------------------------------------------
(* The consumer: __anext__.                                                *)

\* The head of the queue: a failure is raised, an update is returned.
Take(l) ==
  /\ consumer' = "idle"
  /\ IF Head(l.queue) = Failed
     THEN /\ live' = [l EXCEPT !.queue = Tail(@), !.observed = TRUE]
          /\ UNCHANGED received
     ELSE /\ live' = [l EXCEPT !.queue = Tail(@)]
          /\ received' = Append(received, Head(l.queue))

Ask ==
  /\ consumer = "idle"
  /\ live.state # "created"
  /\ UNCHANGED <<ccxtVars, sub, reader, exit>>
  /\ IF ~Healthy
     THEN live' = [live EXCEPT !.observed = TRUE] /\ UNCHANGED <<consumer, received>>
     ELSE IF live.state \notin {"open", "failed"}
     THEN consumer' = "stopped" /\ UNCHANGED <<live, received>>
     ELSE /\ reader # "none"
          /\ IF live.queue # <<>> THEN Take(live)
             ELSE consumer' = "waiting" /\ UNCHANGED <<live, received>>

Wake ==
  /\ consumer = "waiting"
  /\ live.queue # <<>>
  /\ Take(live)
  /\ UNCHANGED <<ccxtVars, sub, reader, exit>>

\* The consumer is cancelled while it waits; the queue is as it was.
GiveUp ==
  /\ consumer = "waiting"
  /\ consumer' = "idle"
  /\ UNCHANGED <<ccxtVars, live, sub, reader, received, exit>>

-----------------------------------------------------------------------------
(* __aexit__.                                                              *)

\* The provider session is told to shut down.
LeaveProvider ==
  /\ live' = [live EXCEPT !.runtime = FALSE,
                          !.state = IF exit.pc = "none" THEN "closing" ELSE @]
  /\ CcxtExit

ExitBegins(bodyRaised) ==
  LET running == reader \in {"created", "waiting", "cancelled"} IN
  /\ exit.pc = "none"
  /\ live.state \in {"open", "failed"}
  /\ live.runtime
  /\ exit' = [exit EXCEPT
                !.pc = IF running THEN "reader" ELSE "provider",
                !.primary = IF bodyRaised THEN "body"
                            ELSE IF ~Healthy /\ ~live.observed THEN "failure"
                            ELSE "none"]
  /\ reader' = "none"
  /\ IF running THEN /\ live' = [live EXCEPT !.state = "closing"]
                     /\ UNCHANGED ccxtVars
     ELSE LeaveProvider
  /\ sub' = Overlaps({s \in Subs : sub[s].pc \notin {"idle", "done"}}, "exit")
  /\ UNCHANGED <<consumer, received>>

\* The reader has ended, cancelled, without another step.
ReaderAwaited ==
  /\ exit.pc = "reader"
  /\ exit' = [exit EXCEPT !.pc = "provider"]
  /\ LeaveProvider
  /\ UNCHANGED <<sub, reader, consumer, received>>

\* A cancellation waits for the shutdown and is raised with its result.
ExitCancelled ==
  /\ exit.pc = "provider"
  /\ ~exit.cleanup
  /\ exit' = [exit EXCEPT !.cleanup = TRUE]
  /\ UNCHANGED <<ccxtVars, live, sub, reader, consumer, received>>

ExitReturns ==
  /\ exit.pc = "provider"
  /\ shutdown.pc = "ended"
  /\ exit' = [exit EXCEPT !.pc = "done", !.cleanup = @ \/ shutdown.failed]
  /\ live' = [live EXCEPT !.state = "closed"]
  /\ UNCHANGED <<ccxtVars, sub, reader, consumer, received>>

-----------------------------------------------------------------------------

Venue ==
  /\ CcxtVenue
  /\ UNCHANGED <<live, sub, reader, consumer, received, exit>>

\* What the event loop runs without anyone from outside having to act.
Scheduled ==
  \/ CcxtTask /\ UNCHANGED <<live, sub, reader, consumer, received, exit>>
  \/ \E s \in Subs : LoadFailureClosed(s) \/ CancelledClosed(s)
  \/ ReaderStarts \/ ReaderReads \/ ReaderCancelled
  \/ Wake
  \/ ReaderAwaited \/ ExitReturns

Outside ==
  \/ Enter \/ EnterFails
  \/ \E s \in Subs :
       \/ Subscribe(s) \/ ResolveFails(s) \/ Resolved(s)
       \/ MarketsLoaded(s) \/ LoadFails(s) \/ LoadCancelled(s) \/ CloseCancelled(s)
  \/ Venue
  \/ Ask \/ GiveUp
  \/ \E bodyRaised \in BOOLEAN : ExitBegins(bodyRaised)
  \/ ExitCancelled

LiveNext == Scheduled \/ Outside

LiveSpec == LiveInit /\ [][LiveNext]_liveVars

\* The event loop starves nobody, and closing a client returns or raises.
\* Nothing is assumed of the venue, the callers or the consumer.
LiveFairSpec ==
  /\ LiveSpec
  /\ WF_liveVars(CcxtTask /\ UNCHANGED <<live, sub, reader, consumer, received, exit>>)
  /\ WF_liveVars(ReaderStarts \/ ReaderReads \/ ReaderCancelled)
  /\ WF_liveVars(Wake)
  /\ WF_liveVars(ReaderAwaited \/ ExitReturns)
  /\ \A s \in Subs : WF_liveVars(LoadFailureClosed(s) \/ CancelledClosed(s))

-----------------------------------------------------------------------------
(* Safety.                                                                 *)

\* The three registers of subscriptions agree at every await, although
\* calls overlap, fail and are cancelled in between: a dataset is routed
\* exactly when its call is under way or completed.  So no update of a
\* live stream is ever without a subscription.
RoutesAgree ==
  /\ live.routes = live.active
  /\ live.active = ccxt.subscriptions
       \cup {MarketOf[s] : s \in {t \in Subs : sub[t].pc \in {"loading", "closing",
                                                              "unwinding"}}}
  /\ live.failure # "unrouted"

\* Until a failure, every published update is with the consumer or in one of
\* the two queues, once and in order: nothing is coalesced or dropped
\* (docs/guides/live-bars.md:61).
NothingLost ==
  (Healthy /\ ~ccxt.failed) => received \o live.queue \o ccxt.feed = published

\* An exit that reports no cleanup error has closed every client of a call
\* that did not overlap another activation of that client or the exit.
OnlyOverlapsLeak ==
  (exit.pc = "done" /\ ~exit.cleanup) =>
    \A s \in Subs : native[s] = "open" => sub[s].overlap # "none"

\* Leaving the context closes every native client owned by the session
\* (docs/guides/live-bars.md:33), when no call of it is under way any more.
EveryClientClosed ==
  (exit.pc = "done" /\ ~exit.cleanup /\ \A s \in Subs : sub[s].overlap # "exit") =>
    \A s \in Subs : native[s] # "open"

(* Liveness.                                                               *)

\* Leaving the context ends, whatever the session was doing.
ExitEnds == exit.pc # "none" ~> exit.pc = "done"

\* A failure of the provider session gets through both queues to a consumer
\* that waits, unless the context is left.
FailureArrives ==
  (ccxt.failed /\ consumer = "waiting") ~> (consumer # "waiting" \/ exit.pc # "none")

(* Refinement: what the consumer is promised.                              *)

Stream == INSTANCE UpdateStream WITH
  delivered <- received, failed <- ~Healthy

\* With its tasks, queues and clients, the session is one ordered stream
\* without omissions that ends with its first failure.
ImplementsStream == Stream!StreamSpec
=============================================================================
