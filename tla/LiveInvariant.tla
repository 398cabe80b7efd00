--------------------------- MODULE LiveInvariant ---------------------------
(***************************************************************************)
(* The inductive invariants behind the safety properties of LiveSession,   *)
(* one for each of its concerns: the shape of the queues, the registers of *)
(* subscriptions, the order of the updates, the clients left open.         *)
(***************************************************************************)
EXTENDS LiveSession

\* The merge queue holds updates until its failure, then nothing but that
\* failure, and no task goes on watching.
FeedPhase ==
  IF ccxt.failed
  THEN ccxt.feed \in {<<>>, <<Failed>>} /\ \A k \in Markets : watch[k] # "watching"
  ELSE ccxt.feed \in Seq(Update)

\* So does the public queue with the first failure of the session.
QueuePhase ==
  IF Healthy THEN live.queue \in Seq(Update) ELSE live.queue \in {<<>>, <<Failed>>}

\* The shutdown closes clients of calls, those it found, each of them once.
ShutdownPhase ==
  /\ shutdown.pc = "closing" => shutdown.closing \in Subs
  /\ shutdown.left \subseteq shutdown.clients

ShapeInv == LiveTypeOK /\ FeedPhase /\ QueuePhase /\ ShutdownPhase

-----------------------------------------------------------------------------

UnderWay == {s \in Subs : sub[s].pc \in {"loading", "closing", "unwinding"}}

\* Calls under way subscribe datasets of their own, none of them subscribed.
CallsApart ==
  /\ \A s \in UnderWay : MarketOf[s] \notin ccxt.subscriptions
  /\ \A s, t \in UnderWay : MarketOf[s] = MarketOf[t] => s = t

\* Only subscribed datasets are watched, and only their updates are queued.
OnlySubscribed ==
  /\ \A k \in Markets : watch[k] # "none" => k \in ccxt.subscriptions
  /\ \A i \in 1..Len(ccxt.feed) :
       ccxt.feed[i] # Failed => ccxt.feed[i].market \in ccxt.subscriptions

RoutesInv == RoutesAgree /\ CallsApart /\ OnlySubscribed

-----------------------------------------------------------------------------

\* Until a failure, what the consumer got or can get begins the stream of
\* published updates ...
Delivered == received \o live.queue

BeginsPublished ==
  Healthy => /\ Len(Delivered) <= Len(published)
             /\ \A i \in 1..Len(Delivered) : Delivered[i] = published[i]

\* ... time never runs backwards in it for one dataset, and `last` bounds it.
DeliveredInOrder ==
  Healthy =>
    /\ \A i, j \in 1..Len(Delivered) :
         i < j /\ Delivered[i].market = Delivered[j].market =>
           Delivered[i].stamp <= Delivered[j].stamp
    /\ \A i \in 1..Len(Delivered) :
         /\ live.last[Delivered[i].market] # None
         /\ Delivered[i].stamp <= live.last[Delivered[i].market]

StreamInv == NothingLost /\ BeginsPublished /\ DeliveredInOrder

-----------------------------------------------------------------------------

Alone(s) == sub[s].overlap = "none"

\* A call that is loading a client alone is the only one to load it, and its
\* client is not registered; whoever registered a client that is being
\* loaded was not alone.
LoadsAlone ==
  /\ \A s \in Subs : At(s, "loading") /\ Alone(s) =>
       /\ ccxt.clients[ClientId(s)] = None
       /\ \A t \in Subs \ {s} : At(t, "loading") => ClientId(t) # ClientId(s)
  /\ \A s, t \in Subs : At(t, "loading") /\ ccxt.clients[ClientId(t)] = s => ~Alone(s)

\* A call that does not overlap the exit ends before it begins; none starts
\* after it.
CallsBeforeExit ==
  /\ \A s \in Subs : sub[s].pc \notin {"idle", "done"} /\ Alone(s) => exit.pc = "none"
  /\ live.state \in {"created", "open"} => exit.pc = "none"

\* The client of a call that was alone is registered until it is closed; the
\* shutdown has it still to close.
KnownToShutdown(s) ==
  IF shutdown.pc = "ended" THEN shutdown.failed
  ELSE /\ ccxt.clients[ClientId(s)] = s
       /\ shutdown.pc = "closing" => ClientId(s) \in shutdown.left \/ shutdown.closing = s

OpenIsKnown ==
  \A s \in Subs : native[s] = "open" /\ Alone(s) =>
    \/ s \in UnderWay
    \/ At(s, "done") /\ KnownToShutdown(s)

\* The exit shuts the provider session down once, and reports its failures.
ExitPhase ==
  /\ exit.pc \in {"none", "reader"} <=> shutdown.pc = "none"
  /\ exit.pc = "done" => /\ shutdown.pc = "ended"
                         /\ shutdown.failed => exit.cleanup

LeakInv == LoadsAlone /\ CallsBeforeExit /\ OpenIsKnown /\ ExitPhase
=============================================================================
