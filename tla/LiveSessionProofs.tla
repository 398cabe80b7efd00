------------------------- MODULE LiveSessionProofs -------------------------
(***************************************************************************)
(* The safety theorems of a live session, from the inductive invariants of *)
(* LiveInvariant.  ShapeInv is inductive by itself and the others on top   *)
(* of it; each concern first sorts the steps by what they do to it, and    *)
(* the step of the reader, by far the largest, into what it can amount to. *)
(***************************************************************************)
EXTENDS LiveInvariant, SequenceTheorems, WellFoundedInduction, TLAPS

-----------------------------------------------------------------------------
(* Numbers and sequences.                                                  *)

LEMMA SomeLeast ==
  ASSUME NEW S \in SUBSET Nat, S # {}
  PROVE  \E i \in S : \A j \in S : i <= j
<1>1. PICK i \in S : \A j \in S : <<j, i>> \notin OpToRel(<, Nat)
  BY NatLessThanWellFounded, WFMin, Zenon
<1>2. \A j \in S : ~(j < i)
  BY <1>1 DEF OpToRel
<1> QED BY <1>2

LEMMA SomeGreatest ==
  ASSUME NEW n \in Nat, NEW S \in SUBSET (1..n), S # {}
  PROVE  \E i \in S : \A j \in S : j <= i
<1> DEFINE T == {n - j : j \in S}
<1>0. \A j \in S : n - j \in Nat
  OBVIOUS
<1>1. T \in SUBSET Nat /\ T # {}
  BY <1>0
<1>2. PICK t \in T : \A u \in T : t <= u
  BY <1>1, SomeLeast
<1>3. PICK i \in S : t = n - i
  OBVIOUS
<1>4. \A j \in S : n - j \in T
  OBVIOUS
<1>5. \A j \in S : n - i <= n - j
  BY <1>2, <1>3, <1>4
<1> QED BY <1>5

LEMMA FailedFacts == Failed \notin Update /\ Failed.market = None /\ None \notin Markets
BY LiveAssumption DEF Failed, Update

-----------------------------------------------------------------------------
(* What the reader does.                                                   *)

SameMarket(update, i) == {j \in 1..(i - 1) : ccxt.feed[j].market = update.market}

\* The stamp an update is compared with is that of the last update of its
\* market before it, in the merge queue or before.
LEMMA EarlierStampIs ==
  ASSUME ShapeInv, NEW update, NEW i \in 1..(Len(ccxt.feed) + 1)
  PROVE  /\ SameMarket(update, i) = {} =>
              EarlierStamp(update, i) = live.last[update.market]
         /\ SameMarket(update, i) # {} =>
              \E j \in SameMarket(update, i) :
                /\ \A n \in SameMarket(update, i) : n <= j
                /\ EarlierStamp(update, i) = ccxt.feed[j].stamp
<1>1. CASE SameMarket(update, i) = {}
  BY <1>1 DEF EarlierStamp, SameMarket
<1>2. CASE SameMarket(update, i) # {}
  <2> DEFINE S == SameMarket(update, i)
             j == CHOOSE j \in S : \A n \in S : n <= j
  <2>1. S \in SUBSET (1..(i - 1)) /\ i - 1 \in Nat
    BY DEF SameMarket, ShapeInv, LiveTypeOK, CcxtTypeOK
  <2>2. \E m \in S : \A n \in S : n <= m
    BY <1>2, <2>1, SomeGreatest
  <2>3. j \in S /\ \A n \in S : n <= j
    BY <2>2
  <2>4. EarlierStamp(update, i) = ccxt.feed[j].stamp
    BY <1>2 DEF EarlierStamp, SameMarket
  <2> QED BY <2>3, <2>4, <1>2
<1> QED BY <1>1, <1>2

\* The session after the reader has passed the whole merge queue on.
Moved(last) == [live EXCEPT !.queue = @ \o ccxt.feed, !.last = last]

\* `last` is the stamp of the last update of each market in the merge queue.
LastOfFeed(last) ==
  \A k \in Markets :
    IF \E i \in 1..Len(ccxt.feed) : ccxt.feed[i].market = k
    THEN \E j \in 1..Len(ccxt.feed) :
           /\ ccxt.feed[j].market = k
           /\ \A i \in 1..Len(ccxt.feed) : ccxt.feed[i].market = k => i <= j
           /\ last[k] = ccxt.feed[j].stamp
    ELSE last[k] = live.last[k]

\* The reader stops at an update it cannot pass on, or at a failure.
ReadsUpTo(n, why) ==
  /\ ccxt' = [ccxt EXCEPT !.feed = SubSeq(@, n + 1, Len(@))]
  /\ ReaderFails(live, why)
  /\ why = "unrouted" /\ Healthy =>
       /\ ccxt.feed[n] # Failed
       /\ ccxt.feed[n].market \notin live.active \/ ccxt.feed[n].market \notin live.routes

\* Or it passes all on; that the provider session is closed it finds after.
ReadsAll ==
  /\ Healthy /\ ~ccxt.failed
  /\ \A i \in 1..Len(ccxt.feed) : ~Backwards(i) /\ ~QueueFull(i)
  /\ ccxt' = [ccxt EXCEPT !.feed = <<>>]
  /\ \E last \in [Markets -> Stamps \cup {None}] :
       /\ LastOfFeed(last)
       /\ \/ live' = Moved(last) /\ reader' = reader
          \/ ReaderFails(Moved(last), "ended")

LEMMA ReaderReadsIs ==
  ASSUME ShapeInv, ReaderReads
  PROVE  /\ reader = "waiting" /\ ccxt.feed # <<>>
         /\ UNCHANGED <<watch, native, shutdown, published, sub, consumer, received, exit>>
         /\ \/ \E n \in 1..Len(ccxt.feed), why \in Failures : ReadsUpTo(n, why)
            \/ ReadsAll
<1> DEFINE size == Len(ccxt.feed)
           wrong == {i \in 1..size : Wrong(i) # "nothing"}
           n == IF wrong = {} THEN size
                ELSE CHOOSE i \in wrong : \A j \in wrong : i <= j
           last == [k \in Markets |->
                      IF \E i \in 1..n : ccxt.feed[i].market = k
                      THEN EarlierStamp([market |-> k], n + 1) ELSE live.last[k]]
<1>1. /\ ccxt.feed \in Seq(Update \cup {Failed})
      /\ size \in Nat
  BY DEF ShapeInv, LiveTypeOK, CcxtTypeOK, CcxtFields
<1>2. size > 0 /\ reader = "waiting" /\ ccxt.feed # <<>>
  BY <1>1 DEF ReaderReads
<1>3. /\ UNCHANGED <<watch, native, shutdown, published, sub, consumer, received, exit>>
      /\ ccxt' = [ccxt EXCEPT !.feed = SubSeq(@, n + 1, size)]
      /\ IF ccxt.feed[1] = Failed THEN ReaderFails(live, "stream")
         ELSE IF wrong # {} THEN ReaderFails(live, Wrong(n))
         ELSE IF ~ccxt.open THEN ReaderFails(Moved(last), "ended")
         ELSE live' = Moved(last) /\ UNCHANGED reader
  BY DEF ReaderReads, Moved
<1>4. wrong # {} => n \in wrong
  <2> SUFFICES ASSUME wrong # {} PROVE n \in wrong
    OBVIOUS
  <2>1. wrong \in SUBSET Nat
    BY <1>1
  <2>2. \E i \in wrong : \A j \in wrong : i <= j
    BY <2>1, SomeLeast
  <2> QED BY <2>2
<1>5. n \in 1..size
  <2>1. CASE wrong = {}
    <3>1. size \in 1..size
      BY <1>1, <1>2
    <3>2. n = size
      BY <2>1
    <3> HIDE DEF n
    <3> QED BY <3>1, <3>2
  <2>2. CASE wrong # {}
    <3>1. n \in wrong
      BY <1>4, <2>2
    <3> QED BY <3>1
  <2> QED BY <2>1, <2>2
<1> HIDE DEF n, last
<1>6. ccxt' = [ccxt EXCEPT !.feed = SubSeq(@, n + 1, Len(@))]
  BY <1>3
<1>7. CASE ccxt.feed[1] = Failed
  <2>1. ReadsUpTo(n, "stream")
    BY <1>3, <1>6, <1>7 DEF ReadsUpTo
  <2> QED BY <1>2, <1>3, <1>5, <2>1 DEF Failures
<1>8. CASE ccxt.feed[1] # Failed /\ wrong # {}
  <2>1. ReaderFails(live, Wrong(n)) /\ Wrong(n) # "nothing"
    BY <1>3, <1>4, <1>8
  <2>2. CASE ~Healthy
    <3>1. ReaderFails(live, "stream")
      BY <2>1, <2>2 DEF ReaderFails, PublishFailure, Healthy
    <3>2. ReadsUpTo(n, "stream")
      BY <1>6, <3>1 DEF ReadsUpTo
    <3> QED BY <1>2, <1>3, <1>5, <3>2 DEF Failures
  <2>3. CASE Healthy
    <3>1. ccxt.feed[n] # Failed
      BY <1>1, <1>2, <1>5, <1>8, FailedFacts DEF ShapeInv, FeedPhase
    <3>2. Wrong(n) \in Failures
      BY <2>1, <2>3 DEF Wrong, Failures
    <3>3. Wrong(n) = "unrouted" =>
            ccxt.feed[n].market \notin live.active \/ ccxt.feed[n].market \notin live.routes
      BY DEF Wrong
    <3>4. ReadsUpTo(n, Wrong(n))
      BY <1>6, <2>1, <3>1, <3>3 DEF ReadsUpTo
    <3> QED BY <1>2, <1>3, <1>5, <3>2, <3>4
  <2> QED BY <2>2, <2>3
<1>9. CASE ccxt.feed[1] # Failed /\ wrong = {}
  <2>1. n = size
    BY <1>9 DEF n
  <2>2. ~ccxt.failed /\ ccxt.feed \in Seq(Update)
    BY <1>1, <1>2, <1>9 DEF ShapeInv, FeedPhase
  <2>3. \A i \in 1..size : Wrong(i) = "nothing"
    BY <1>9
  <2>4. \A i \in 1..size : ~Backwards(i) /\ Healthy /\ ~QueueFull(i)
    BY <2>3 DEF Wrong
  <2>5. Healthy
    BY <1>1, <1>2, <2>4
  <2>6. ccxt' = [ccxt EXCEPT !.feed = <<>>]
    <3>1. SubSeq(ccxt.feed, size + 1, size) = <<>>
      BY <1>1, SubSeqEmpty
    <3> QED BY <1>3, <2>1, <3>1
  <2>7. ASSUME NEW k \in Markets
        PROVE  /\ last[k] \in Stamps \cup {None}
               /\ IF \E i \in 1..size : ccxt.feed[i].market = k
                  THEN \E j \in 1..size :
                         /\ ccxt.feed[j].market = k
                         /\ \A i \in 1..size : ccxt.feed[i].market = k => i <= j
                         /\ last[k] = ccxt.feed[j].stamp
                  ELSE last[k] = live.last[k]
    <3>1. CASE \E i \in 1..size : ccxt.feed[i].market = k
      <4> DEFINE u == [market |-> k]
      <4>1. SameMarket(u, size + 1) = {j \in 1..size : ccxt.feed[j].market = k}
        BY <1>1 DEF SameMarket
      <4>2. size + 1 \in 1..(size + 1)
        BY <1>1
      <4>3. PICK j \in 1..size :
              /\ ccxt.feed[j].market = k
              /\ \A i \in 1..size : ccxt.feed[i].market = k => i <= j
              /\ EarlierStamp(u, size + 1) = ccxt.feed[j].stamp
        BY <3>1, <4>1, <4>2, EarlierStampIs
      <4>4. last[k] = ccxt.feed[j].stamp
        BY <2>1, <3>1, <4>3 DEF last
      <4>5. ccxt.feed[j].stamp \in Stamps
        <5>1. ccxt.feed[j] \in Update
          BY <2>2, ElementOfSeq
        <5> QED BY <5>1 DEF Update
      <4> QED BY <3>1, <4>3, <4>4, <4>5
    <3>2. CASE ~ \E i \in 1..size : ccxt.feed[i].market = k
      <4>1. last[k] = live.last[k]
        BY <2>1, <3>2 DEF last
      <4>2. live.last[k] \in Stamps \cup {None}
        BY DEF ShapeInv, LiveTypeOK, Session
      <4> QED BY <3>2, <4>1, <4>2
    <3> QED BY <3>1, <3>2
  <2>8. last \in [Markets -> Stamps \cup {None}] /\ LastOfFeed(last)
    <3>1. last \in [Markets -> Stamps \cup {None}]
      BY <2>7 DEF last
    <3> QED BY <3>1, <2>7 DEF LastOfFeed
  <2>9. ReadsAll
    BY <1>3, <1>9, <2>2, <2>4, <2>5, <2>6, <2>8 DEF ReadsAll
  <2> QED BY <1>2, <1>3, <2>9
<1> QED BY <1>7, <1>8, <1>9

-----------------------------------------------------------------------------
(* The shape of the queues.                                                *)

Aside == UNCHANGED <<live, sub, reader, consumer, received, exit>>

LEMMA ShapeInit == LiveInit => ShapeInv
<1> SUFFICES ASSUME LiveInit PROVE ShapeInv
  OBVIOUS
<1>1. CcxtTypeOK
  BY LiveAssumption DEF LiveInit, CcxtInit, CcxtTypeOK, CcxtFields, Shutdown
<1>2. live \in Session
  BY DEF LiveInit, Session, Failures
<1>3. LiveTypeOK
  BY <1>1, <1>2, QueueAssumption DEF LiveInit, LiveTypeOK, CallFrame, ExitFrame
<1>4. FeedPhase /\ QueuePhase /\ ShutdownPhase
  BY DEF LiveInit, CcxtInit, FeedPhase, QueuePhase, ShutdownPhase, Healthy
<1> QED BY <1>3, <1>4 DEF ShapeInv

\* A failure leaves a well-formed session.
LEMMA PublishFailureIs ==
  ASSUME NEW l \in Session, NEW why \in Failures
  PROVE  /\ PublishFailure(l, why) \in Session
         /\ PublishFailure(l, why).failure # "none"
         /\ l.failure # "none" => PublishFailure(l, why) = l
         /\ l.failure = "none" =>
              /\ PublishFailure(l, why).queue = <<Failed>>
              /\ PublishFailure(l, why).failure = why
              /\ PublishFailure(l, why).state = "failed"
         /\ PublishFailure(l, why).runtime = l.runtime
         /\ PublishFailure(l, why).requested = l.requested
         /\ PublishFailure(l, why).routes = l.routes
         /\ PublishFailure(l, why).active = l.active
         /\ PublishFailure(l, why).last = l.last
         /\ PublishFailure(l, why).observed = l.observed
<1>1. CASE l.failure # "none"
  BY <1>1 DEF PublishFailure
<1>2. CASE l.failure = "none"
  <2> DEFINE m == [l EXCEPT !.failure = why, !.state = "failed", !.queue = <<Failed>>]
  <2>1. PublishFailure(l, why) = m
    BY <1>2 DEF PublishFailure
  <2>2. <<Failed>> \in Seq(Update \cup {Failed})
    OBVIOUS
  <2>3. m \in Session
    BY <2>2, Zenon DEF Session
  <2> QED BY <1>2, <2>1, <2>3 DEF Session, Failures
<1> QED BY <1>1, <1>2

LEMMA ShapeAside ==
  ASSUME ShapeInv, Aside, CcxtTypeOK', FeedPhase', ShutdownPhase'
  PROVE  ShapeInv'
BY DEF ShapeInv, LiveTypeOK, QueuePhase, Aside, Healthy

LEMMA ClosesNextShape ==
  ASSUME ShapeInv, NEW next, ClosesNext(next), UNCHANGED <<watch, published>>,
         next \in Shutdown,
         next.left \subseteq next.clients,
         native' \in [Subs -> {"none", "open", "closed", "interrupted"}]
  PROVE  CcxtTypeOK' /\ FeedPhase' /\ ShutdownPhase'
<1>0. /\ ccxt'.failed = ccxt.failed /\ ccxt'.feed = ccxt.feed /\ ccxt' \in CcxtFields
      /\ shutdown' \in Shutdown /\ ShutdownPhase'
  <2>1. CASE Registered # next.clients
    <3>1. shutdown' = [next EXCEPT !.pc = "ended", !.failed = TRUE] /\ UNCHANGED ccxt
      BY <2>1 DEF ClosesNext
    <3> QED BY <3>1 DEF ShapeInv, LiveTypeOK, CcxtTypeOK, Shutdown, ShutdownPhase
  <2>2. CASE Registered = next.clients /\ next.left = {}
    <3>1. /\ shutdown' = [next EXCEPT !.pc = "ended"]
          /\ ccxt' = [ccxt EXCEPT !.clients = [c \in Clients |-> None]]
      BY <2>2 DEF ClosesNext
    <3>2. shutdown' \in Shutdown /\ ShutdownPhase'
      BY <3>1 DEF Shutdown, ShutdownPhase
    <3>3. ccxt'.failed = ccxt.failed /\ ccxt'.feed = ccxt.feed /\ ccxt' \in CcxtFields
      BY <3>1 DEF ShapeInv, LiveTypeOK, CcxtTypeOK, CcxtFields
    <3> QED BY <3>2, <3>3
  <2>3. CASE Registered = next.clients /\ next.left # {}
    <3>1. PICK c \in next.left :
            shutdown' = [next EXCEPT !.pc = "closing", !.left = @ \ {c},
                           !.closing = ccxt.clients[c]]
      BY <2>3 DEF ClosesNext
    <3>2. ccxt.clients[c] \in Subs
      BY <2>3 DEF Registered, ShapeInv, LiveTypeOK, CcxtTypeOK, CcxtFields
    <3>3. UNCHANGED ccxt
      BY <2>3 DEF ClosesNext
    <3>4. shutdown' \in Shutdown /\ ShutdownPhase'
      BY <3>1, <3>2 DEF Shutdown, ShutdownPhase
    <3> QED BY <3>3, <3>4 DEF ShapeInv, LiveTypeOK, CcxtTypeOK, CcxtFields
  <2> QED BY <2>1, <2>2, <2>3
<1> QED BY <1>0 DEF ShapeInv, LiveTypeOK, CcxtTypeOK, CcxtFields, FeedPhase

LEMMA ShapeTasks ==
  ASSUME ShapeInv, CcxtTask, Aside
  PROVE  ShapeInv'
<1>1. ASSUME NEW k \in Markets, WatchStarts(k) PROVE ShapeInv'
  <2>1. CcxtTypeOK' /\ FeedPhase' /\ ShutdownPhase'
    BY <1>1 DEF WatchStarts, ShapeInv, LiveTypeOK, CcxtTypeOK, CcxtFields, FeedPhase, ShutdownPhase
  <2> QED BY <2>1, ShapeAside
<1>2. ASSUME NEW k \in Markets, WatchCancelled(k) PROVE ShapeInv'
  <2>1. CcxtTypeOK' /\ FeedPhase' /\ ShutdownPhase'
    BY <1>2 DEF WatchCancelled, ShapeInv, LiveTypeOK, CcxtTypeOK, CcxtFields, FeedPhase, ShutdownPhase
  <2> QED BY <2>1, ShapeAside
<1>3. ASSUME ShutdownStarts PROVE ShapeInv'
  <2>1. CcxtTypeOK' /\ FeedPhase' /\ ShutdownPhase'
    BY <1>3 DEF ShutdownStarts, Cancel, ShapeInv, LiveTypeOK, CcxtTypeOK, CcxtFields, FeedPhase, ShutdownPhase, Shutdown
  <2> QED BY <2>1, ShapeAside
<1>4. ASSUME TasksGathered PROVE ShapeInv'
  <2> DEFINE next == [shutdown EXCEPT !.clients = Registered, !.left = Registered]
  <2>1. /\ next \in Shutdown
        /\ next.left \subseteq next.clients
    BY DEF ShapeInv, LiveTypeOK, CcxtTypeOK, Registered, Shutdown
  <2>2. ClosesNext(next) /\ UNCHANGED <<watch, native, published>>
    BY <1>4 DEF TasksGathered
  <2>3. native' \in [Subs -> {"none", "open", "closed", "interrupted"}]
    BY <2>2 DEF ShapeInv, LiveTypeOK, CcxtTypeOK, CcxtFields
  <2> HIDE DEF next
  <2>4. CcxtTypeOK' /\ FeedPhase' /\ ShutdownPhase'
    BY <2>1, <2>2, <2>3, ClosesNextShape
  <2> QED BY <2>4, ShapeAside
<1>5. ASSUME NEW raised \in BOOLEAN, CloseReturns(raised) PROVE ShapeInv'
  <2> DEFINE next == [shutdown EXCEPT !.closing = None, !.failed = @ \/ raised]
  <2>1. /\ next \in Shutdown
        /\ next.left \subseteq next.clients
    BY DEF ShapeInv, LiveTypeOK, CcxtTypeOK, ShutdownPhase, Shutdown
  <2>2. ClosesNext(next) /\ UNCHANGED <<watch, published>>
    BY <1>5 DEF CloseReturns
  <2>3. native' \in [Subs -> {"none", "open", "closed", "interrupted"}]
    BY <1>5 DEF CloseReturns, ShapeInv, LiveTypeOK, CcxtTypeOK
  <2> HIDE DEF next
  <2>4. CcxtTypeOK' /\ FeedPhase' /\ ShutdownPhase'
    BY <2>1, <2>2, <2>3, ClosesNextShape
  <2> QED BY <2>4, ShapeAside
<1> QED BY <1>1, <1>2, <1>3, <1>4, <1>5 DEF CcxtTask

LEMMA FeedFailsShape ==
  ASSUME ShapeInv, NEW k \in Markets, FeedFails(k)
  PROVE  CcxtTypeOK' /\ FeedPhase' /\ ShutdownPhase'
<1>1. FeedPhase'
  BY DEF FeedFails, FeedPhase, Cancel, Alive, ShapeInv, LiveTypeOK, CcxtTypeOK
<1>2. ccxt'.feed = <<Failed>> /\ Len(ccxt'.feed) <= FeedSize
  BY LiveAssumption DEF FeedFails, ShapeInv, LiveTypeOK, CcxtTypeOK
<1>3. ccxt' \in CcxtFields
  <2>1. <<Failed>> \in Seq(Update \cup {Failed})
    OBVIOUS
  <2>2. ccxt \in CcxtFields /\ ccxt' = [ccxt EXCEPT !.failed = TRUE, !.feed = <<Failed>>]
    BY DEF FeedFails, ShapeInv, LiveTypeOK, CcxtTypeOK
  <2> QED BY <2>1, <2>2, ZenonT(60) DEF CcxtFields
<1>4. watch' \in [Markets -> {"none", "created", "watching", "cancelled", "ended"}]
  BY DEF FeedFails, Cancel, ShapeInv, LiveTypeOK, CcxtTypeOK, CcxtFields
<1>5. CcxtTypeOK'
  BY <1>2, <1>3, <1>4 DEF FeedFails, ShapeInv, LiveTypeOK, CcxtTypeOK
<1> QED BY <1>1, <1>5 DEF FeedFails, ShapeInv, ShutdownPhase

LEMMA ShapeVenue ==
  ASSUME ShapeInv, CcxtVenue, Aside
  PROVE  ShapeInv'
<1>1. ASSUME NEW k \in Markets, WatchFails(k) PROVE ShapeInv'
  <2>1. CcxtTypeOK' /\ FeedPhase' /\ ShutdownPhase'
    BY <1>1, FeedFailsShape DEF WatchFails
  <2> QED BY <2>1, ShapeAside
<1>2. ASSUME NEW k \in Markets, NEW n \in 1..2, NEW stamps \in [1..n -> Stamps],
             WatchReturns(k, stamps)
      PROVE  ShapeInv'
  <2> DEFINE rows == [i \in 1..Len(stamps) |-> [market |-> k, stamp |-> stamps[i]]]
  <2>1. rows \in Seq(Update) /\ Len(rows) \in Nat
    BY DEF Update
  <2>2. CASE Overflow(ccxt.feed, rows)
    <3>1. FeedFails(k)
      BY <1>2, <2>2 DEF WatchReturns
    <3>2. CcxtTypeOK' /\ FeedPhase' /\ ShutdownPhase'
      BY <3>1, FeedFailsShape
    <3> QED BY <3>2, ShapeAside
  <2>3. CASE ~Overflow(ccxt.feed, rows)
    <3>1. /\ watch[k] = "watching"
          /\ ccxt' = [ccxt EXCEPT !.feed = @ \o rows]
          /\ published' = published \o rows
          /\ watch' = [watch EXCEPT ![k] = IF ccxt.open THEN @ ELSE "ended"]
          /\ UNCHANGED <<native, shutdown>>
      BY <1>2, <2>3 DEF WatchReturns, Put
    <3> HIDE DEF rows
    <3>2. ~ccxt.failed /\ ccxt.feed \in Seq(Update)
      BY <3>1 DEF ShapeInv, FeedPhase
    <3>3. /\ ccxt.feed \o rows \in Seq(Update)
          /\ ccxt.feed \o rows \in Seq(Update \cup {Failed})
          /\ Len(ccxt.feed \o rows) <= FeedSize
      <4>1. /\ ccxt.feed \o rows \in Seq(Update)
            /\ Len(ccxt.feed \o rows) = Len(ccxt.feed) + Len(rows)
        BY <2>1, <3>2, ConcatProperties
      <4>2. Len(ccxt.feed) + Len(rows) <= FeedSize
        BY <2>1, <2>3, <3>2, LiveAssumption DEF Overflow
      <4>3. ccxt.feed \o rows \in Seq(Update \cup {Failed})
        BY <4>1, SeqMonotonic
      <4> QED BY <4>1, <4>2, <4>3
    <3>4. published' \in Seq(Update)
      BY <2>1, <3>1, ConcatProperties DEF ShapeInv, LiveTypeOK, CcxtTypeOK, CcxtFields
    <3>5. CcxtTypeOK' /\ FeedPhase' /\ ShutdownPhase'
      BY <3>1, <3>2, <3>3, <3>4
      DEF ShapeInv, LiveTypeOK, CcxtTypeOK, CcxtFields, FeedPhase, ShutdownPhase
    <3> QED BY <3>5, ShapeAside
  <2> QED BY <2>2, <2>3
<1> QED BY <1>1, <1>2 DEF CcxtVenue

\* The steps of the public session that leave the provider session alone.
LEMMA ShapePublic ==
  ASSUME ShapeInv, UNCHANGED ccxtVars,
         live' \in Session, QueuePhase', Len(live'.queue) <= QueueSize,
         sub' \in [Subs -> CallFrame],
         reader' \in {"none", "created", "waiting", "cancelled", "ended"},
         consumer' \in {"idle", "waiting", "stopped"},
         received' \in Seq(Update),
         exit' \in ExitFrame
  PROVE  ShapeInv'
BY DEF ShapeInv, LiveTypeOK, CcxtTypeOK, CcxtFields, FeedPhase, ShutdownPhase, ccxtVars

LEMMA Goes_ ==
  ASSUME ShapeInv, NEW s \in Subs, NEW pc \in {"idle", "resolving", "loading",
         "closing", "unwinding", "done"}, Goes(s, pc)
  PROVE  /\ sub' \in [Subs -> CallFrame]
         /\ sub'[s].pc = pc
         /\ \A t \in Subs \ {s} : sub'[t] = sub[t]
         /\ \A t \in Subs : sub'[t].overlap = sub[t].overlap
BY DEF ShapeInv, LiveTypeOK, CallFrame, Goes

LEMMA OverlapsIs ==
  ASSUME ShapeInv, NEW calls, NEW with \in {"call", "exit"}
  PROVE  /\ Overlaps(calls, with) \in [Subs -> CallFrame]
         /\ \A t \in Subs : /\ Overlaps(calls, with)[t].pc = sub[t].pc
                            /\ sub[t].overlap # "none" => Overlaps(calls, with)[t].overlap # "none"
                            /\ t \in calls => Overlaps(calls, with)[t].overlap # "none"
                            /\ t \notin calls => Overlaps(calls, with)[t] = sub[t]
BY DEF ShapeInv, LiveTypeOK, CallFrame, Overlaps

\* Publishing a failure keeps the public queue in shape.
LEMMA FailureShape ==
  ASSUME ShapeInv, NEW l \in Session, NEW why \in Failures,
         l.queue = live.queue, l.failure = live.failure,
         live' = PublishFailure(l, why)
  PROVE  live' \in Session /\ QueuePhase' /\ Len(live'.queue) <= QueueSize
<1>1. live' \in Session
  BY PublishFailureIs
<1>2. CASE l.failure # "none"
  BY <1>1, <1>2, PublishFailureIs DEF ShapeInv, LiveTypeOK, QueuePhase, Healthy
<1>3. CASE l.failure = "none"
  <2>1. live'.queue = <<Failed>> /\ live'.failure # "none"
    BY <1>3, PublishFailureIs
  <2> QED BY <1>1, <2>1, QueueAssumption DEF QueuePhase, Healthy
<1> QED BY <1>2, <1>3

\* The session after a call is unrouted or routed.
LEMMA RoutingIs ==
  ASSUME ShapeInv, NEW k \in Markets
  PROVE  /\ Routed(k) \in Session
         /\ Routed(k).routes = live.routes \cup {k} /\ Routed(k).active = live.active \cup {k}
         /\ Routed(k).queue = live.queue /\ Routed(k).failure = live.failure
         /\ Routed(k).last = live.last /\ Routed(k).state = live.state
         /\ Unrouted(k) \in Session
         /\ Unrouted(k).routes = live.routes \ {k} /\ Unrouted(k).active = live.active \ {k}
         /\ Unrouted(k).queue = live.queue /\ Unrouted(k).failure = live.failure
         /\ Unrouted(k).last = live.last /\ Unrouted(k).state = live.state
<1>1. live \in Session
  BY DEF ShapeInv, LiveTypeOK
<1>2. Routed(k) \in Session
  BY <1>1, ZenonT(60) DEF Routed, Session
<1>3. Unrouted(k) \in Session
  BY <1>1, ZenonT(60) DEF Unrouted, Session
<1> QED BY <1>1, <1>2, <1>3 DEF Routed, Unrouted, Session

LEMMA CompletedShape ==
  ASSUME ShapeInv, NEW s \in Subs, NEW l \in Session, Completed(s, l),
         l.queue = live.queue, l.failure = live.failure
  PROVE  /\ live' \in Session /\ QueuePhase' /\ Len(live'.queue) <= QueueSize
         /\ sub' \in [Subs -> CallFrame]
         /\ reader' \in {"none", "created", "waiting", "cancelled", "ended"}
         /\ live'.queue = live.queue /\ live'.failure = live.failure
         /\ live'.routes = l.routes /\ live'.active = l.active
         /\ live'.state = l.state /\ live'.last = l.last
<1>1. live' \in Session
  <2>1. MarketOf[s] \in Markets /\ live' = [l EXCEPT !.requested = @ \cup {MarketOf[s]}]
    BY LiveAssumption DEF Completed
  <2> QED BY <2>1, ZenonT(60) DEF Session
<1>2. /\ live'.queue = live.queue /\ live'.failure = live.failure
      /\ live'.routes = l.routes /\ live'.active = l.active
      /\ live'.state = l.state /\ live'.last = l.last
  BY DEF Completed, Session
<1>3. sub' \in [Subs -> CallFrame]
  BY Goes_ DEF Completed
<1> QED BY <1>1, <1>2, <1>3 DEF Completed, ShapeInv, LiveTypeOK, QueuePhase, Healthy

\* A call of the provider session, or of its clients, keeps its shape.
ProviderShape == CcxtTypeOK /\ FeedPhase /\ ShutdownPhase

LEMMA SubscribeShape ==
  ASSUME ShapeInv, NEW s \in Subs, CcxtReuseClient(s) \/ CcxtRegisterClient(s)
  PROVE  /\ ProviderShape'
         /\ ccxt' \in CcxtFields
         /\ ccxt'.subscriptions = ccxt.subscriptions \cup {MarketOf[s]}
         /\ ccxt'.failed = ccxt.failed /\ ccxt'.feed = ccxt.feed
         /\ watch' = [watch EXCEPT ![MarketOf[s]] = "created"]
         /\ UNCHANGED <<native, shutdown, published>>
<1>1. MarketOf[s] \in Markets /\ ClientId(s) \in Clients
  BY LiveAssumption DEF ClientId
<1>2. PICK clients \in [Clients -> Subs \cup {None}] : CcxtSubscribe(s, clients)
  BY <1>1 DEF CcxtReuseClient, CcxtRegisterClient, ShapeInv, LiveTypeOK, CcxtTypeOK, CcxtFields
<1>3. /\ ccxt' = [ccxt EXCEPT !.clients = clients,
                             !.subscriptions = @ \cup {MarketOf[s]}]
      /\ watch' = [watch EXCEPT ![MarketOf[s]] = "created"]
      /\ UNCHANGED <<native, shutdown, published>>
  BY <1>2 DEF CcxtSubscribe
<1>4. ccxt \in CcxtFields
  BY DEF ShapeInv, LiveTypeOK, CcxtTypeOK
<1>5. ccxt' \in CcxtFields
  BY <1>1, <1>3, <1>4, ZenonT(60) DEF CcxtFields
<1>6. /\ ccxt'.subscriptions = ccxt.subscriptions \cup {MarketOf[s]}
      /\ ccxt'.failed = ccxt.failed /\ ccxt'.feed = ccxt.feed
  BY <1>3, <1>4 DEF CcxtFields
<1>7. ProviderShape'
  BY <1>1, <1>3, <1>5, <1>6
  DEF ProviderShape, ShapeInv, LiveTypeOK, CcxtTypeOK, FeedPhase, ShutdownPhase
<1> QED BY <1>3, <1>5, <1>6, <1>7

LEMMA ClientShape ==
  ASSUME ShapeInv, NEW s \in Subs,
         \/ CcxtCreateClient(s)
         \/ \E how \in {"closed", "interrupted"} : CcxtCloseClient(s, how)
  PROVE  ProviderShape' /\ UNCHANGED <<ccxt, watch, shutdown, published>>
BY DEF CcxtCreateClient, CcxtCloseClient, ProviderShape, ShapeInv, LiveTypeOK, CcxtTypeOK,
       FeedPhase, ShutdownPhase

LEMMA ExitShape ==
  ASSUME ShapeInv, CcxtExit
  PROVE  /\ ProviderShape' /\ ccxt' \in CcxtFields
         /\ UNCHANGED <<watch, native, published>>
         /\ ccxt'.failed = ccxt.failed /\ ccxt'.feed = ccxt.feed
         /\ ccxt'.subscriptions = ccxt.subscriptions /\ ccxt'.clients = ccxt.clients
<1>1. ccxt \in CcxtFields /\ shutdown \in Shutdown
  BY DEF ShapeInv, LiveTypeOK, CcxtTypeOK
<1>2. ccxt' \in CcxtFields
  BY <1>1 DEF CcxtExit, CcxtFields
<1>3. /\ ccxt'.failed = ccxt.failed /\ ccxt'.feed = ccxt.feed
      /\ ccxt'.subscriptions = ccxt.subscriptions /\ ccxt'.clients = ccxt.clients
  BY <1>1 DEF CcxtExit, CcxtFields
<1>4. shutdown' \in Shutdown /\ ShutdownPhase'
  BY <1>1 DEF CcxtExit, Shutdown, ShapeInv, ShutdownPhase
<1>5. ProviderShape'
  BY <1>2, <1>3, <1>4 DEF CcxtExit, ProviderShape, ShapeInv, LiveTypeOK, CcxtTypeOK, FeedPhase
<1> QED BY <1>2, <1>3, <1>5 DEF CcxtExit

LEMMA ProviderSame ==
  ASSUME ShapeInv, UNCHANGED ccxtVars
  PROVE  ProviderShape'
BY DEF ShapeInv, LiveTypeOK, CcxtTypeOK, FeedPhase, ShutdownPhase, ProviderShape, ccxtVars

LEMMA ShapeParts ==
  ASSUME ShapeInv, ProviderShape',
         live' \in Session, QueuePhase', Len(live'.queue) <= QueueSize,
         sub' \in [Subs -> CallFrame],
         reader' \in {"none", "created", "waiting", "cancelled", "ended"},
         consumer' \in {"idle", "waiting", "stopped"},
         received' \in Seq(Update),
         exit' \in ExitFrame
  PROVE  ShapeInv'
BY DEF ShapeInv, LiveTypeOK, ProviderShape

\* What a step finds that leaves a part of the state as it was.
LEMMA ShapeBefore ==
  ASSUME ShapeInv
  PROVE  /\ live \in Session
         /\ UNCHANGED live => live' \in Session /\ QueuePhase' /\ Len(live'.queue) <= QueueSize
         /\ UNCHANGED sub => sub' \in [Subs -> CallFrame]
         /\ reader \in {"none", "created", "waiting", "cancelled", "ended"}
         /\ consumer \in {"idle", "waiting", "stopped"}
         /\ received \in Seq(Update)
         /\ exit \in ExitFrame
BY DEF ShapeInv, LiveTypeOK, QueuePhase, Healthy

LEMMA ShapeEnter == ASSUME ShapeInv, Enter \/ EnterFails PROVE ShapeInv'
<1>1. CASE Enter
  <2>1. ccxt' \in CcxtFields /\ ccxt'.feed = ccxt.feed /\ ccxt'.failed = ccxt.failed
    BY <1>1 DEF Enter, ShapeInv, LiveTypeOK, CcxtTypeOK, CcxtFields
  <2>2. ProviderShape'
    BY <1>1, <2>1 DEF Enter, ProviderShape, ShapeInv, LiveTypeOK, CcxtTypeOK, FeedPhase,
                      ShutdownPhase
  <2>3. live' \in Session /\ live'.queue = live.queue /\ live'.failure = live.failure
    BY <1>1, ShapeBefore DEF Enter, Session
  <2>4. QueuePhase' /\ Len(live'.queue) <= QueueSize
    BY <2>3 DEF ShapeInv, LiveTypeOK, QueuePhase, Healthy
  <2> QED BY <1>1, <2>2, <2>3, <2>4, ShapeParts, ShapeBefore DEF Enter
<1>2. CASE EnterFails
  <2>1. live' \in Session /\ live'.queue = live.queue /\ live'.failure = live.failure
    BY <1>2, ShapeBefore DEF EnterFails, Session
  <2>2. QueuePhase' /\ Len(live'.queue) <= QueueSize
    BY <2>1 DEF ShapeInv, LiveTypeOK, QueuePhase, Healthy
  <2> QED BY <1>2, <2>1, <2>2, ProviderSame, ShapeParts, ShapeBefore DEF EnterFails
<1> QED BY <1>1, <1>2

\* A call that only moves on.
LEMMA ShapeMoves ==
  ASSUME ShapeInv, NEW s \in Subs,
         Subscribe(s) \/ ResolveFails(s) \/ LoadFails(s) \/ LoadCancelled(s)
  PROVE  ShapeInv'
<1>1. /\ UNCHANGED <<ccxtVars, live, reader, consumer, received, exit>>
      /\ \E pc \in {"resolving", "closing", "unwinding", "done"} : Goes(s, pc)
  BY DEF Subscribe, ResolveFails, LoadFails, LoadCancelled
<1>2. sub' \in [Subs -> CallFrame]
  BY <1>1, Goes_
<1> QED BY <1>1, <1>2, ProviderSame, ShapeParts, ShapeBefore

LEMMA ShapeResolved == ASSUME ShapeInv, NEW s \in Subs, Resolved(s) PROVE ShapeInv'
<1> DEFINE k == MarketOf[s]
<1>1. k \in Markets /\ UNCHANGED <<consumer, received, exit>>
  BY LiveAssumption DEF Resolved
<1>2. CASE CcxtReuseClient(s) /\ Completed(s, Routed(k))
  BY <1>1, <1>2, SubscribeShape, RoutingIs, CompletedShape, ShapeParts, ShapeBefore
<1>3. CASE /\ CcxtCreateClient(s)
           /\ live' = Routed(k)
           /\ sub' = [Overlaps(IF Overlapping(s) = {} THEN {}
                              ELSE Overlapping(s) \cup {s}, "call")
                       EXCEPT ![s].pc = "loading"]
           /\ UNCHANGED reader
  <2> DEFINE o == Overlaps(IF Overlapping(s) = {} THEN {}
                           ELSE Overlapping(s) \cup {s}, "call")
  <2>1. o \in [Subs -> CallFrame]
    BY OverlapsIs
  <2>2. sub' = [o EXCEPT ![s].pc = "loading"]
    BY <1>3
  <2> HIDE DEF o
  <2>3. sub' \in [Subs -> CallFrame]
    BY <2>1, <2>2 DEF CallFrame
  <2>4. live' \in Session /\ QueuePhase' /\ Len(live'.queue) <= QueueSize
    BY <1>1, <1>3, RoutingIs DEF ShapeInv, LiveTypeOK, QueuePhase, Healthy
  <2> QED BY <1>1, <1>3, <2>3, <2>4, ClientShape, ShapeParts, ShapeBefore
<1>4. CASE Goes(s, "done") /\ UNCHANGED <<ccxtVars, live, reader>>
  BY <1>1, <1>4, Goes_, ProviderSame, ShapeParts, ShapeBefore
<1>5. CASE Goes(s, "done") /\ live' = Unrouted(k) /\ UNCHANGED <<ccxtVars, reader>>
  <2>1. live' \in Session /\ QueuePhase' /\ Len(live'.queue) <= QueueSize
    BY <1>1, <1>5, RoutingIs DEF ShapeInv, LiveTypeOK, QueuePhase, Healthy
  <2> QED BY <1>1, <1>5, <2>1, Goes_, ProviderSame, ShapeParts, ShapeBefore
<1> QED BY <1>2, <1>3, <1>4, <1>5 DEF Resolved

LEMMA ShapeMarketsLoaded == ASSUME ShapeInv, NEW s \in Subs, MarketsLoaded(s) PROVE ShapeInv'
BY SubscribeShape, CompletedShape, ShapeParts, ShapeBefore DEF MarketsLoaded

LEMMA ShapeLoadFailureClosed ==
  ASSUME ShapeInv, NEW s \in Subs, LoadFailureClosed(s) PROVE ShapeInv'
<1>1. MarketOf[s] \in Markets
  BY LiveAssumption
<1>2. live' \in Session /\ QueuePhase' /\ Len(live'.queue) <= QueueSize
  BY <1>1, RoutingIs DEF LoadFailureClosed, ShapeInv, LiveTypeOK, QueuePhase, Healthy
<1> QED BY <1>2, ClientShape, Goes_, ShapeParts, ShapeBefore DEF LoadFailureClosed

LEMMA ShapeActivationCancelled ==
  ASSUME ShapeInv, NEW s \in Subs, NEW how \in {"closed", "interrupted"},
         ActivationCancelled(s, how)
  PROVE  ShapeInv'
<1>1. MarketOf[s] \in Markets /\ "cancelled" \in Failures
  BY LiveAssumption DEF Failures
<1>2. live' \in Session /\ QueuePhase' /\ Len(live'.queue) <= QueueSize
  BY <1>1, RoutingIs, FailureShape DEF ActivationCancelled
<1>3. reader' \in {"none", "created", "waiting", "cancelled", "ended"}
  BY ShapeBefore DEF ActivationCancelled, ReaderAfterFailure
<1> QED BY <1>2, <1>3, ClientShape, Goes_, ShapeParts, ShapeBefore DEF ActivationCancelled

LEMMA MovedIs ==
  ASSUME ShapeInv, NEW last \in [Markets -> Stamps \cup {None}]
  PROVE  /\ Moved(last) \in Session
         /\ Moved(last).queue = live.queue \o ccxt.feed
         /\ Moved(last).last = last
         /\ Moved(last).failure = live.failure
         /\ Moved(last).routes = live.routes /\ Moved(last).active = live.active
         /\ Moved(last).state = live.state
<1>1. live \in Session /\ ccxt.feed \in Seq(Update \cup {Failed})
  BY DEF ShapeInv, LiveTypeOK, CcxtTypeOK, CcxtFields
<1>2. live.queue \o ccxt.feed \in Seq(Update \cup {Failed})
  BY <1>1, ConcatProperties DEF Session
<1>3. Moved(last) \in Session
  BY <1>1, <1>2, ZenonT(60) DEF Moved, Session
<1> QED BY <1>1, <1>3 DEF Moved, Session

\* What is left of the merge queue when the reader has read.
LEMMA FeedAfterRead ==
  ASSUME ShapeInv, NEW n \in 1..Len(ccxt.feed),
         ccxt' = [ccxt EXCEPT !.feed = SubSeq(@, n + 1, Len(@))]
  PROVE  /\ ccxt' \in CcxtFields
         /\ Len(ccxt'.feed) <= Len(ccxt.feed)
         /\ \A i \in 1..Len(ccxt'.feed) :
              i + n \in 1..Len(ccxt.feed) /\ ccxt'.feed[i] = ccxt.feed[i + n]
         /\ ccxt.feed \in Seq(Update) => ccxt'.feed \in Seq(Update)
         /\ ccxt.feed = <<Failed>> => ccxt'.feed = <<>>
         /\ ccxt'.failed = ccxt.failed /\ ccxt'.open = ccxt.open
         /\ ccxt'.clients = ccxt.clients /\ ccxt'.subscriptions = ccxt.subscriptions
<1> DEFINE q == ccxt.feed
           r == SubSeq(q, n + 1, Len(q))
<1>1. ccxt \in CcxtFields /\ q \in Seq(Update \cup {Failed}) /\ Len(q) \in Nat
  BY DEF ShapeInv, LiveTypeOK, CcxtTypeOK, CcxtFields
<1>2. /\ r \in Seq(Update \cup {Failed})
      /\ Len(r) = IF n + 1 <= Len(q) THEN Len(q) - (n + 1) + 1 ELSE 0
      /\ \A i \in 1..(Len(q) - (n + 1) + 1) : r[i] = q[n + 1 + i - 1]
  <2>1. \A i \in (n + 1)..Len(q) : q[i] \in Update \cup {Failed}
    BY <1>1, ElementOfSeq
  <2> QED BY <1>1, <2>1, SubSeqProperties
<1>3. q \in Seq(Update) => r \in Seq(Update)
  <2> SUFFICES ASSUME q \in Seq(Update) PROVE r \in Seq(Update)
    OBVIOUS
  <2>1. \A i \in (n + 1)..Len(q) : q[i] \in Update
    BY <1>1, ElementOfSeq
  <2> QED BY <1>1, <2>1, SubSeqProperties
<1>4. q = <<Failed>> => r = <<>>
  <2> SUFFICES ASSUME q = <<Failed>> PROVE r = <<>>
    OBVIOUS
  <2>1. Len(q) = 1
    OBVIOUS
  <2> QED BY <1>1, <2>1, SubSeqEmpty
<1>5. ccxt' = [ccxt EXCEPT !.feed = r]
  OBVIOUS
<1>6. \A i \in 1..Len(r) : i + n \in 1..Len(q) /\ r[i] = q[i + n]
  BY <1>1, <1>2
<1>7. Len(r) <= Len(q)
  BY <1>1, <1>2
<1> HIDE DEF r
<1>8. ccxt' \in CcxtFields
  BY <1>1, <1>2, <1>5, ZenonT(60) DEF CcxtFields
<1>9. /\ ccxt'.feed = r /\ ccxt'.failed = ccxt.failed /\ ccxt'.open = ccxt.open
      /\ ccxt'.clients = ccxt.clients /\ ccxt'.subscriptions = ccxt.subscriptions
  BY <1>1, <1>5 DEF CcxtFields
<1> QED BY <1>3, <1>4, <1>6, <1>7, <1>8, <1>9

LEMMA ShapeReader ==
  ASSUME ShapeInv, ReaderStarts \/ ReaderReads \/ ReaderCancelled
  PROVE  ShapeInv'
<1>1. CASE ReaderStarts
  <2>1. UNCHANGED <<ccxtVars, sub, consumer, received, exit>>
    BY <1>1 DEF ReaderStarts
  <2>2. /\ reader' \in {"ended", "waiting"}
        /\ UNCHANGED live \/ live' = PublishFailure(live, "stream")
    BY <1>1 DEF ReaderStarts, ReaderFails
  <2>3. "stream" \in Failures
    BY DEF Failures
  <2> QED BY <2>1, <2>2, <2>3, FailureShape, ProviderSame, ShapeParts, ShapeBefore
<1>2. CASE ReaderReads
  <2>1. UNCHANGED <<watch, native, shutdown, published, sub, consumer, received, exit>>
    BY <1>2, ReaderReadsIs
  <2>2. CASE \E n \in 1..Len(ccxt.feed), why \in Failures : ReadsUpTo(n, why)
    <3>1. PICK n \in 1..Len(ccxt.feed), why \in Failures : ReadsUpTo(n, why)
      BY <2>2
    <3>2. /\ ccxt' \in CcxtFields /\ Len(ccxt'.feed) <= FeedSize
          /\ FeedPhase'
      <4>1. ccxt' = [ccxt EXCEPT !.feed = SubSeq(@, n + 1, Len(@))]
        BY <3>1 DEF ReadsUpTo
      <4>2. Len(ccxt'.feed) <= FeedSize
        BY <4>1, FeedAfterRead, LiveAssumption
        DEF ShapeInv, LiveTypeOK, CcxtTypeOK, CcxtFields
      <4>3. ccxt.feed # <<>>
        BY <1>2, ReaderReadsIs
      <4> QED BY <2>1, <4>1, <4>2, <4>3, FeedAfterRead DEF ShapeInv, FeedPhase
    <3>3. ProviderShape'
      BY <2>1, <3>2 DEF ProviderShape, ShapeInv, LiveTypeOK, CcxtTypeOK, ShutdownPhase
    <3>4. live' = PublishFailure(live, why) /\ reader' = "ended"
      BY <3>1 DEF ReadsUpTo, ReaderFails
    <3> QED BY <2>1, <3>3, <3>4, FailureShape, ShapeParts, ShapeBefore
  <2>3. CASE ReadsAll
    <3>1. PICK last \in [Markets -> Stamps \cup {None}] :
            \/ live' = Moved(last) /\ reader' = reader
            \/ ReaderFails(Moved(last), "ended")
      BY <2>3 DEF ReadsAll
    <3>2. /\ ccxt' = [ccxt EXCEPT !.feed = <<>>] /\ ccxt \in CcxtFields
          /\ Healthy /\ ~ccxt.failed
      BY <2>3 DEF ReadsAll, ShapeInv, LiveTypeOK, CcxtTypeOK
    <3>3. ccxt' \in CcxtFields /\ ccxt'.feed = <<>> /\ ccxt'.failed = ccxt.failed
      <4>1. <<>> \in Seq(Update \cup {Failed})
        OBVIOUS
      <4>2. ccxt' \in CcxtFields
        BY <3>2, <4>1, ZenonT(60) DEF CcxtFields
      <4> QED BY <3>2, <4>2 DEF CcxtFields
    <3>4. ProviderShape'
      BY <2>1, <3>2, <3>3, LiveAssumption
      DEF ProviderShape, FeedPhase, ShapeInv, LiveTypeOK, CcxtTypeOK, ShutdownPhase
    <3>5. CASE live' = Moved(last) /\ reader' = reader
      <4>1. live.queue \in Seq(Update) /\ ccxt.feed \in Seq(Update)
        BY <3>2 DEF ShapeInv, QueuePhase, FeedPhase
      <4>2. /\ live.queue \o ccxt.feed \in Seq(Update)
            /\ Len(live.queue \o ccxt.feed) = Len(live.queue) + Len(ccxt.feed)
        BY <4>1, ConcatProperties
      <4>3. Len(live.queue) + Len(ccxt.feed) <= QueueSize
        <5>1. Len(ccxt.feed) \in Nat /\ Len(live.queue) \in Nat /\ QueueSize \in Nat
          BY <4>1, LenProperties, QueueAssumption
        <5>2. CASE Len(ccxt.feed) = 0
          BY <5>1, <5>2 DEF ShapeInv, LiveTypeOK
        <5>3. CASE Len(ccxt.feed) # 0
          <6>1. ~QueueFull(Len(ccxt.feed))
            BY <2>3, <5>1, <5>3 DEF ReadsAll
          <6>2. ~(Len(live.queue) + Len(ccxt.feed) > QueueSize)
            BY <6>1 DEF QueueFull
          <6>3. \A a, b, c \in Nat : ~(a + b > c) => a + b <= c
            OBVIOUS
          <6> QED BY <5>1, <6>2, <6>3
        <5> QED BY <5>2, <5>3
      <4>4. live' \in Session /\ QueuePhase' /\ Len(live'.queue) <= QueueSize
        BY <3>2, <3>5, <4>2, <4>3, MovedIs DEF QueuePhase, Healthy
      <4> QED BY <2>1, <3>4, <3>5, <4>4, ShapeParts, ShapeBefore
    <3>6. CASE ReaderFails(Moved(last), "ended")
      <4> DEFINE m == Moved(last)
      <4>1. m \in Session /\ m.failure = "none"
        BY <3>2, MovedIs DEF Healthy
      <4>2. live' = PublishFailure(m, "ended") /\ reader' = "ended" /\ "ended" \in Failures
        BY <3>6 DEF ReaderFails, Failures
      <4> HIDE DEF m
      <4>3. live' \in Session /\ live'.queue = <<Failed>> /\ live'.failure # "none"
        BY <4>1, <4>2, PublishFailureIs
      <4>4. QueuePhase' /\ Len(live'.queue) <= QueueSize
        BY <4>3, QueueAssumption DEF QueuePhase, Healthy
      <4> QED BY <2>1, <3>4, <4>2, <4>3, <4>4, ShapeParts, ShapeBefore
    <3> QED BY <3>1, <3>5, <3>6
  <2> QED BY <1>2, <2>2, <2>3, ReaderReadsIs
<1>3. CASE ReaderCancelled
  BY <1>3, ProviderSame, ShapeParts, ShapeBefore DEF ReaderCancelled
<1> QED BY <1>1, <1>2, <1>3

\* The consumer takes the head of the public queue.
LEMMA TakeIs ==
  ASSUME ShapeInv, live.queue # <<>>, Take(live)
  PROVE  /\ live' \in Session /\ live'.queue = Tail(live.queue)
         /\ live'.failure = live.failure /\ live'.routes = live.routes
         /\ live'.active = live.active /\ live'.last = live.last
         /\ live'.state = live.state
         /\ IF Healthy THEN received' = Append(received, Head(live.queue))
                       ELSE UNCHANGED received
<1>1. live \in Session /\ live.queue \in Seq(Update \cup {Failed})
  BY DEF ShapeInv, LiveTypeOK, Session
<1>2. Tail(live.queue) \in Seq(Update \cup {Failed})
  BY <1>1, HeadTailProperties
<1>3. Healthy => Head(live.queue) # Failed
  BY FailedFacts, HeadTailProperties DEF ShapeInv, QueuePhase
<1>4. ~Healthy => Head(live.queue) = Failed
  BY DEF ShapeInv, QueuePhase
<1>5. CASE Healthy
  BY <1>1, <1>2, <1>3, <1>5, ZenonT(60) DEF Take, Session
<1>6. CASE ~Healthy
  <2>1. live' = [live EXCEPT !.queue = Tail(@), !.observed = TRUE] /\ UNCHANGED received
    BY <1>4, <1>6 DEF Take
  <2> QED BY <1>1, <1>2, <1>6, <2>1 DEF Session
<1> QED BY <1>5, <1>6

LEMMA ShapeTake ==
  ASSUME ShapeInv, live.queue # <<>>, Take(live), UNCHANGED <<ccxtVars, sub, reader, exit>>
  PROVE  ShapeInv'
<1>1. live.queue \in Seq(Update \cup {Failed}) /\ Len(live.queue) <= QueueSize
  BY DEF ShapeInv, LiveTypeOK, Session
<1>2. Len(live'.queue) <= QueueSize
  <2>1. Len(Tail(live.queue)) = Len(live.queue) - 1
    BY <1>1, HeadTailProperties
  <2>2. live'.queue = Tail(live.queue)
    BY TakeIs
  <2> QED BY <1>1, <2>1, <2>2, QueueAssumption
<1>3. QueuePhase'
  <2>1. CASE Healthy
    BY <2>1, TakeIs, HeadTailProperties DEF ShapeInv, QueuePhase, Healthy
  <2>2. CASE ~Healthy
    <3>1. live.queue = <<Failed>>
      BY <2>2 DEF ShapeInv, QueuePhase
    <3>2. Tail(live.queue) = <<>>
      BY <3>1
    <3> QED BY <2>2, <3>2, TakeIs DEF QueuePhase, Healthy
  <2> QED BY <2>1, <2>2
<1>4. received' \in Seq(Update)
  BY TakeIs, HeadTailProperties, AppendProperties, ShapeBefore DEF ShapeInv, QueuePhase
<1>5. consumer' = "idle"
  BY DEF Take
<1> QED BY <1>2, <1>3, <1>4, <1>5, TakeIs, ProviderSame, ShapeParts, ShapeBefore

LEMMA ShapeConsumer == ASSUME ShapeInv, Ask \/ Wake \/ GiveUp PROVE ShapeInv'
<1>1. CASE Ask
  <2>1. UNCHANGED <<ccxtVars, sub, reader, exit>>
    BY <1>1 DEF Ask
  <2>2. CASE live.queue # <<>> /\ Take(live)
    BY <2>1, <2>2, ShapeTake
  <2>3. CASE live' = [live EXCEPT !.observed = TRUE] /\ UNCHANGED <<consumer, received>>
    <3>1. live' \in Session /\ live'.queue = live.queue /\ live'.failure = live.failure
      BY <2>3, ShapeBefore DEF Session
    <3>2. QueuePhase' /\ Len(live'.queue) <= QueueSize
      BY <3>1 DEF ShapeInv, LiveTypeOK, QueuePhase, Healthy
    <3> QED BY <2>1, <2>3, <3>1, <3>2, ProviderSame, ShapeParts, ShapeBefore
  <2>4. CASE consumer' \in {"stopped", "waiting"} /\ UNCHANGED <<live, received>>
    BY <2>1, <2>4, ProviderSame, ShapeParts, ShapeBefore
  <2> QED BY <1>1, <2>2, <2>3, <2>4 DEF Ask
<1>2. CASE Wake
  BY <1>2, ShapeTake DEF Wake
<1>3. CASE GiveUp
  BY <1>3, ProviderSame, ShapeParts, ShapeBefore DEF GiveUp
<1> QED BY <1>1, <1>2, <1>3

\* What leaving changes of the public session.
LeavesOnly ==
  /\ live' \in Session /\ live'.queue = live.queue /\ live'.failure = live.failure
  /\ live'.routes = live.routes /\ live'.active = live.active /\ live'.last = live.last
  /\ live'.state \in {"closing", "closed", live.state}

LEMMA ShapeExit ==
  ASSUME ShapeInv,
         \/ \E bodyRaised \in BOOLEAN : ExitBegins(bodyRaised)
         \/ ReaderAwaited \/ ExitCancelled \/ ExitReturns
  PROVE  ShapeInv' /\ LeavesOnly
<1>0. ASSUME LeavesOnly
      PROVE  live' \in Session /\ QueuePhase' /\ Len(live'.queue) <= QueueSize
  BY <1>0 DEF ShapeInv, LiveTypeOK, QueuePhase, Healthy, LeavesOnly
<1>1. ASSUME LeaveProvider PROVE LeavesOnly /\ ProviderShape'
  BY <1>1, ShapeBefore, ExitShape DEF LeaveProvider, LeavesOnly, Session
<1>2. ASSUME NEW bodyRaised \in BOOLEAN, ExitBegins(bodyRaised)
      PROVE  ShapeInv' /\ LeavesOnly
  <2>1. LeavesOnly /\ ProviderShape'
    <3>1. CASE live' = [live EXCEPT !.state = "closing"] /\ UNCHANGED ccxtVars
      BY <3>1, ShapeBefore, ProviderSame DEF LeavesOnly, Session
    <3> QED BY <1>1, <1>2, <3>1 DEF ExitBegins
  <2>2. exit' \in ExitFrame
    BY <1>2, ShapeBefore DEF ExitBegins, ExitFrame
  <2>3. reader' = "none" /\ UNCHANGED <<consumer, received>>
    BY <1>2 DEF ExitBegins
  <2>4. sub' \in [Subs -> CallFrame]
    BY <1>2, OverlapsIs DEF ExitBegins
  <2> QED BY <1>0, <2>1, <2>2, <2>3, <2>4, ShapeParts, ShapeBefore
<1>3. CASE ReaderAwaited
  <2>1. exit' \in ExitFrame
    BY <1>3, ShapeBefore DEF ReaderAwaited, ExitFrame
  <2>2. LeavesOnly /\ ProviderShape'
    BY <1>1, <1>3 DEF ReaderAwaited
  <2> QED BY <1>0, <1>3, <2>1, <2>2, ShapeParts, ShapeBefore DEF ReaderAwaited
<1>4. CASE ExitCancelled
  <2>1. exit' \in ExitFrame
    BY <1>4, ShapeBefore DEF ExitCancelled, ExitFrame
  <2>2. UNCHANGED live
    BY <1>4 DEF ExitCancelled
  <2>3. LeavesOnly
    BY <2>2, ShapeBefore DEF LeavesOnly
  <2> QED BY <1>4, <2>1, <2>3, ProviderSame, ShapeParts, ShapeBefore DEF ExitCancelled
<1>5. CASE ExitReturns
  <2>1. exit' \in ExitFrame
    BY <1>5, ShapeBefore DEF ExitReturns, ExitFrame, ShapeInv, LiveTypeOK, CcxtTypeOK, Shutdown
  <2>2. LeavesOnly
    BY <1>5, ShapeBefore DEF ExitReturns, LeavesOnly, Session
  <2> QED BY <1>0, <1>5, <2>1, <2>2, ProviderSame, ShapeParts, ShapeBefore DEF ExitReturns
<1> QED BY <1>2, <1>3, <1>4, <1>5

LEMMA ShapeNext == ASSUME ShapeInv, [LiveNext]_liveVars PROVE ShapeInv'
<1>1. CASE UNCHANGED liveVars
  BY <1>1, ProviderSame, ShapeParts, ShapeBefore DEF liveVars, ccxtVars
<1>2. CASE Scheduled
  BY <1>2, ShapeTasks, ShapeLoadFailureClosed, ShapeActivationCancelled, ShapeReader,
     ShapeConsumer, ShapeExit
  DEF Scheduled, CancelledClosed, Aside
<1>3. CASE Outside
  BY <1>3, ShapeEnter, ShapeMoves, ShapeResolved, ShapeMarketsLoaded,
     ShapeActivationCancelled, ShapeVenue, ShapeConsumer, ShapeExit
  DEF Outside, CloseCancelled, Venue, Aside
<1> QED BY <1>1, <1>2, <1>3 DEF LiveNext

\* ShapeInv is inductive.
THEOREM Shape == LiveSpec => []ShapeInv
<1>1. LiveInit => ShapeInv
  BY ShapeInit
<1>2. ShapeInv /\ [LiveNext]_liveVars => ShapeInv'
  BY ShapeNext
<1> QED BY <1>1, <1>2, PTL DEF LiveSpec

\* Every field of the session, its calls, its tasks and its clients has its
\* type, and neither queue ever holds more than its capacity.
THEOREM LiveTyping == LiveSpec => []LiveTypeOK
<1>1. ShapeInv => LiveTypeOK
  BY DEF ShapeInv
<1> QED BY <1>1, Shape, PTL

-----------------------------------------------------------------------------
(* The registers of subscriptions.                                         *)

UnderWayMarkets == {MarketOf[s] : s \in UnderWay}

LEMMA RoutesAre ==
  RoutesAgree <=> /\ live.routes = live.active
                  /\ live.active = ccxt.subscriptions \cup UnderWayMarkets
                  /\ live.failure # "unrouted"
BY DEF RoutesAgree, UnderWayMarkets, UnderWay

LEMMA RoutesAreNext ==
  RoutesAgree' <=> /\ live'.routes = live'.active
                   /\ live'.active = ccxt'.subscriptions \cup UnderWayMarkets'
                   /\ live'.failure # "unrouted"
BY DEF RoutesAgree, UnderWayMarkets, UnderWay

LEMMA RoutesInit == LiveInit => RoutesInv
BY LiveAssumption DEF LiveInit, CcxtInit, RoutesInv, RoutesAgree, CallsApart, OnlySubscribed, UnderWay

\* The registers and the calls under way stay as they are.
LEMMA RoutesKept ==
  ASSUME RoutesInv, live'.routes = live.routes, live'.active = live.active,
         live'.failure # "unrouted", ccxt'.subscriptions = ccxt.subscriptions,
         UnderWay' = UnderWay, OnlySubscribed'
  PROVE  RoutesInv'
<1>1. UnderWayMarkets' = UnderWayMarkets
  BY DEF UnderWayMarkets
<1>2. RoutesAgree'
  BY <1>1, RoutesAre, RoutesAreNext DEF RoutesInv
<1> QED BY <1>2 DEF RoutesInv, CallsApart

LEMMA SubscribedKept ==
  ASSUME OnlySubscribed, ccxt.subscriptions \subseteq ccxt'.subscriptions,
         ccxt'.feed = ccxt.feed,
         \A k \in Markets : watch'[k] # "none" =>
                             watch[k] # "none" \/ k \in ccxt'.subscriptions
  PROVE  OnlySubscribed'
BY DEF OnlySubscribed

\* One call goes on: it is under way afterwards, or not.
LEMMA UnderWayAfter ==
  ASSUME ShapeInv, NEW s \in Subs,
         \A t \in Subs \ {s} : sub'[t].pc = sub[t].pc
  PROVE  /\ sub'[s].pc \in {"loading", "closing", "unwinding"} =>
              UnderWay' = UnderWay \cup {s}
         /\ sub'[s].pc \notin {"loading", "closing", "unwinding"} =>
              UnderWay' = UnderWay \ {s}
BY DEF UnderWay

LEMMA RoutesTasks == ASSUME ShapeInv, RoutesInv, CcxtTask, Aside PROVE RoutesInv'
<1>1. UNCHANGED <<live, sub>> /\ UnderWay' = UnderWay
  BY DEF Aside, UnderWay
<1>2. ASSUME NEW next, ClosesNext(next)
      PROVE  ccxt'.subscriptions = ccxt.subscriptions /\ ccxt'.feed = ccxt.feed
  BY <1>2 DEF ClosesNext, ShapeInv, LiveTypeOK, CcxtTypeOK, CcxtFields
<1>3. ccxt'.subscriptions = ccxt.subscriptions /\ ccxt'.feed = ccxt.feed
  BY <1>2 DEF CcxtTask, WatchStarts, WatchCancelled, ShutdownStarts, TasksGathered, CloseReturns
<1>4. \A k \in Markets : watch'[k] # "none" => watch[k] # "none"
  BY DEF CcxtTask, WatchStarts, WatchCancelled, ShutdownStarts, TasksGathered, CloseReturns,
         Cancel, Alive, ShapeInv, LiveTypeOK, CcxtTypeOK
<1>5. OnlySubscribed'
  BY <1>3, <1>4, SubscribedKept DEF RoutesInv
<1> QED BY <1>1, <1>3, <1>5, RoutesKept, RoutesAre DEF RoutesInv

LEMMA RoutesVenue == ASSUME ShapeInv, RoutesInv, CcxtVenue, Aside PROVE RoutesInv'
<1>1. UNCHANGED <<live, sub>> /\ UnderWay' = UnderWay
  BY DEF Aside, UnderWay
<1>2. ASSUME NEW k \in Markets, watch[k] = "watching", FeedFails(k) PROVE RoutesInv'
  <2>1. ccxt'.subscriptions = ccxt.subscriptions /\ ccxt'.feed = <<Failed>>
    BY <1>2 DEF FeedFails, ShapeInv, LiveTypeOK, CcxtTypeOK, CcxtFields
  <2>2. \A j \in Markets : watch'[j] # "none" => watch[j] # "none"
    BY <1>2 DEF FeedFails, Cancel, Alive, ShapeInv, LiveTypeOK, CcxtTypeOK
  <2>3. OnlySubscribed'
    BY <2>1, <2>2 DEF OnlySubscribed, RoutesInv
  <2> QED BY <1>1, <2>1, <2>3, RoutesKept, RoutesAre DEF RoutesInv
<1>3. ASSUME NEW k \in Markets, NEW n \in 1..2, NEW stamps \in [1..n -> Stamps],
             WatchReturns(k, stamps)
      PROVE  RoutesInv'
  <2> DEFINE rows == [i \in 1..Len(stamps) |-> [market |-> k, stamp |-> stamps[i]]]
  <2>0. watch[k] = "watching"
    BY <1>3 DEF WatchReturns
  <2>1. CASE Overflow(ccxt.feed, rows)
    <3>1. FeedFails(k)
      BY <1>3, <2>1 DEF WatchReturns
    <3> QED BY <1>2, <2>0, <3>1
  <2>2. CASE ~Overflow(ccxt.feed, rows)
    <3>1. /\ ccxt' = [ccxt EXCEPT !.feed = @ \o rows]
          /\ watch' = [watch EXCEPT ![k] = IF ccxt.open THEN @ ELSE "ended"]
      BY <1>3, <2>2 DEF WatchReturns, Put
    <3>2. rows \in Seq(Update) /\ \A i \in 1..Len(rows) : rows[i].market = k
      BY DEF Update
    <3> HIDE DEF rows
    <3>3. ~ccxt.failed /\ ccxt.feed \in Seq(Update)
      BY <2>0 DEF ShapeInv, FeedPhase
    <3>4. ccxt'.subscriptions = ccxt.subscriptions /\ ccxt'.feed = ccxt.feed \o rows
      BY <3>1 DEF ShapeInv, LiveTypeOK, CcxtTypeOK, CcxtFields
    <3>5. k \in ccxt.subscriptions
      BY <2>0 DEF RoutesInv, OnlySubscribed
    <3>6. ASSUME NEW i \in 1..Len(ccxt'.feed)
          PROVE  ccxt'.feed[i] # Failed => ccxt'.feed[i].market \in ccxt.subscriptions
      <4>1. /\ Len(ccxt.feed) \in Nat /\ Len(rows) \in Nat
            /\ Len(ccxt'.feed) = Len(ccxt.feed) + Len(rows)
            /\ ccxt'.feed[i] = IF i <= Len(ccxt.feed) THEN ccxt.feed[i]
                               ELSE rows[i - Len(ccxt.feed)]
        BY <3>2, <3>3, <3>4, ConcatProperties, LenProperties
      <4>2. CASE i <= Len(ccxt.feed)
        <5>1. i \in 1..Len(ccxt.feed)
          BY <4>1, <4>2
        <5> QED BY <4>1, <4>2, <5>1 DEF RoutesInv, OnlySubscribed
      <4>3. CASE ~(i <= Len(ccxt.feed))
        <5>1. i - Len(ccxt.feed) \in 1..Len(rows)
          BY <4>1, <4>3
        <5> QED BY <3>2, <3>5, <4>1, <4>3, <5>1
      <4> QED BY <4>2, <4>3
    <3>7. \A j \in Markets : watch'[j] # "none" => j \in ccxt.subscriptions
      BY <3>1, <3>5 DEF RoutesInv, OnlySubscribed, ShapeInv, LiveTypeOK, CcxtTypeOK
    <3>8. OnlySubscribed'
      BY <3>4, <3>6, <3>7 DEF OnlySubscribed
    <3> QED BY <1>1, <3>4, <3>8, RoutesKept, RoutesAre DEF RoutesInv
  <2> QED BY <2>1, <2>2
<1> QED BY <1>2, <1>3 DEF CcxtVenue, WatchFails

LEMMA RoutesMoves ==
  ASSUME ShapeInv, RoutesInv, NEW s \in Subs,
         Subscribe(s) \/ ResolveFails(s) \/ LoadFails(s) \/ LoadCancelled(s)
  PROVE  RoutesInv'
<1>1. UnderWay' = UnderWay
  BY DEF Subscribe, ResolveFails, LoadFails, LoadCancelled, At, Goes, UnderWay, ShapeInv,
         LiveTypeOK, CallFrame
<1>2. UNCHANGED <<ccxt, watch, live>>
  BY DEF Subscribe, ResolveFails, LoadFails, LoadCancelled, ccxtVars
<1>3. OnlySubscribed'
  BY <1>2 DEF RoutesInv, OnlySubscribed
<1> QED BY <1>1, <1>2, <1>3, RoutesKept, RoutesAre DEF RoutesInv

\* The call takes its dataset with it, out of the registers or into the
\* subscriptions.
LEMMA RoutesEnds ==
  ASSUME ShapeInv, RoutesInv, NEW s \in UnderWay,
         UnderWay' = UnderWay \ {s}, OnlySubscribed',
         live'.failure # "unrouted", live'.routes = live'.active,
         \/ /\ live'.active = live.active \ {MarketOf[s]}
            /\ ccxt'.subscriptions = ccxt.subscriptions
         \/ /\ live'.active = live.active
            /\ ccxt'.subscriptions = ccxt.subscriptions \cup {MarketOf[s]}
  PROVE  RoutesInv'
<1>1. UnderWayMarkets = UnderWayMarkets' \cup {MarketOf[s]}
  BY DEF UnderWayMarkets
<1>2. MarketOf[s] \notin UnderWayMarkets' \cup ccxt.subscriptions
  BY DEF UnderWayMarkets, RoutesInv, CallsApart
<1>3. live.active = ccxt.subscriptions \cup UnderWayMarkets
  BY RoutesAre DEF RoutesInv
<1>4. live'.active = ccxt'.subscriptions \cup UnderWayMarkets'
  BY <1>1, <1>2, <1>3
<1>5. RoutesAgree'
  BY <1>4, RoutesAreNext
<1>6. CallsApart'
  BY DEF RoutesInv, CallsApart
<1> QED BY <1>5, <1>6 DEF RoutesInv

LEMMA RoutesResolved ==
  ASSUME ShapeInv, RoutesInv, NEW s \in Subs, Resolved(s)
  PROVE  RoutesInv'
<1> DEFINE k == MarketOf[s]
<1>1. k \in Markets /\ s \notin UnderWay
  BY LiveAssumption DEF Resolved, At, UnderWay
<1>2. /\ live.routes = live.active /\ live.failure # "unrouted"
      /\ live.active = ccxt.subscriptions \cup UnderWayMarkets
  BY RoutesAre DEF RoutesInv
<1>3. \A t \in UnderWay : MarketOf[t] \in live.active
  BY <1>2 DEF UnderWayMarkets
<1>4. CASE Admitted(k) /\ CcxtReuseClient(s) /\ Completed(s, Routed(k))
  <2>1. /\ live'.routes = live.routes \cup {k} /\ live'.active = live.active \cup {k}
        /\ live'.failure # "unrouted"
    BY <1>1, <1>2, <1>4, RoutingIs, CompletedShape
  <2>2. UnderWay' = UnderWay
    BY <1>1, <1>4, Goes_, UnderWayAfter DEF Completed
  <2>3. /\ ccxt'.subscriptions = ccxt.subscriptions \cup {k}
        /\ ccxt'.feed = ccxt.feed /\ watch' = [watch EXCEPT ![k] = "created"]
    BY <1>4, SubscribeShape
  <2>4. RoutesAgree'
    BY <1>2, <2>1, <2>2, <2>3, RoutesAreNext DEF UnderWayMarkets
  <2>5. CallsApart'
    BY <1>3, <1>4, <2>2, <2>3 DEF Admitted, RoutesInv, CallsApart
  <2>6. OnlySubscribed'
    BY <1>1, <2>3, SubscribedKept DEF RoutesInv, ShapeInv, LiveTypeOK, CcxtTypeOK
  <2> QED BY <2>4, <2>5, <2>6 DEF RoutesInv
<1>5. CASE /\ Admitted(k)
           /\ CcxtCreateClient(s)
           /\ live' = Routed(k)
           /\ sub' = [Overlaps(IF Overlapping(s) = {} THEN {}
                              ELSE Overlapping(s) \cup {s}, "call")
                       EXCEPT ![s].pc = "loading"]
  <2>1. /\ live'.routes = live.routes \cup {k} /\ live'.active = live.active \cup {k}
        /\ live'.failure # "unrouted"
    BY <1>1, <1>2, <1>5, RoutingIs
  <2>2. UNCHANGED <<ccxt, watch>>
    BY <1>5 DEF CcxtCreateClient
  <2>3. UnderWay' = UnderWay \cup {s}
    <3> DEFINE o == Overlaps(IF Overlapping(s) = {} THEN {}
                             ELSE Overlapping(s) \cup {s}, "call")
    <3>1. o \in [Subs -> CallFrame] /\ \A t \in Subs : o[t].pc = sub[t].pc
      BY OverlapsIs
    <3>2. sub' = [o EXCEPT ![s].pc = "loading"]
      BY <1>5
    <3> HIDE DEF o
    <3>3. sub'[s].pc = "loading" /\ \A t \in Subs \ {s} : sub'[t].pc = sub[t].pc
      BY <3>1, <3>2 DEF CallFrame
    <3> QED BY <3>3, UnderWayAfter
  <2>4. UnderWayMarkets' = UnderWayMarkets \cup {k}
    BY <2>3 DEF UnderWayMarkets
  <2>5. RoutesAgree'
    BY <1>2, <2>1, <2>2, <2>4, RoutesAreNext
  <2>6. CallsApart'
    BY <1>2, <1>3, <1>5, <2>2, <2>3 DEF Admitted, RoutesInv, CallsApart
  <2> QED BY <2>2, <2>5, <2>6 DEF RoutesInv, OnlySubscribed
<1>6. CASE Goes(s, "done") /\ UNCHANGED ccxtVars /\ (UNCHANGED live \/ (live' = Unrouted(k) /\ Admitted(k)))
  <2>1. live'.routes = live.routes /\ live'.active = live.active /\ live'.failure # "unrouted"
    BY <1>1, <1>2, <1>6, RoutingIs DEF Admitted
  <2>2. UnderWay' = UnderWay
    BY <1>1, <1>6, Goes_, UnderWayAfter
  <2>3. OnlySubscribed' /\ ccxt'.subscriptions = ccxt.subscriptions
    BY <1>6 DEF RoutesInv, OnlySubscribed, ccxtVars
  <2> QED BY <2>1, <2>2, <2>3, RoutesKept
<1>7. \/ Admitted(k) /\ CcxtReuseClient(s) /\ Completed(s, Routed(k))
      \/ /\ Admitted(k)
         /\ CcxtCreateClient(s)
         /\ live' = Routed(k)
         /\ sub' = [Overlaps(IF Overlapping(s) = {} THEN {}
                            ELSE Overlapping(s) \cup {s}, "call")
                     EXCEPT ![s].pc = "loading"]
      \/ Goes(s, "done") /\ UNCHANGED ccxtVars /\ (UNCHANGED live \/ (live' = Unrouted(k) /\ Admitted(k)))
  BY DEF Resolved
<1> QED BY <1>4, <1>5, <1>6, <1>7

LEMMA RoutesCallEnds ==
  ASSUME ShapeInv, RoutesInv, NEW s \in Subs,
         MarketsLoaded(s) \/ LoadFailureClosed(s) \/ CancelledClosed(s) \/ CloseCancelled(s)
  PROVE  RoutesInv'
<1>1. MarketOf[s] \in Markets
  BY LiveAssumption
<1>2. s \in UnderWay
  BY DEF MarketsLoaded, LoadFailureClosed, CancelledClosed, CloseCancelled, At, UnderWay
<1>3. UnderWay' = UnderWay \ {s}
  <2>1. Goes(s, "done")
    BY DEF MarketsLoaded, Completed, LoadFailureClosed, CancelledClosed, CloseCancelled,
           ActivationCancelled
  <2> QED BY <2>1, Goes_, UnderWayAfter
<1>4. live.routes = live.active /\ live.failure # "unrouted"
  BY RoutesAre DEF RoutesInv
<1>5. CASE MarketsLoaded(s)
  <2>1. CcxtRegisterClient(s) /\ Completed(s, live)
    BY <1>5 DEF MarketsLoaded
  <2>2. /\ live'.routes = live.routes /\ live'.active = live.active
        /\ live'.failure # "unrouted"
    BY <1>4, <2>1, CompletedShape, ShapeBefore
  <2>3. /\ ccxt'.subscriptions = ccxt.subscriptions \cup {MarketOf[s]}
        /\ ccxt'.feed = ccxt.feed /\ watch' = [watch EXCEPT ![MarketOf[s]] = "created"]
    BY <2>1, SubscribeShape
  <2>4. OnlySubscribed'
    BY <1>1, <2>3, SubscribedKept DEF RoutesInv, ShapeInv, LiveTypeOK, CcxtTypeOK
  <2> QED BY <1>2, <1>3, <1>4, <2>2, <2>3, <2>4, RoutesEnds
<1>6. CASE LoadFailureClosed(s) \/ CancelledClosed(s) \/ CloseCancelled(s)
  <2>1. \/ live' = Unrouted(MarketOf[s])
        \/ live' = PublishFailure(Unrouted(MarketOf[s]), "cancelled")
    BY <1>6 DEF LoadFailureClosed, CancelledClosed, CloseCancelled, ActivationCancelled
  <2>2. /\ live'.routes = live.routes \ {MarketOf[s]} /\ live'.active = live.active \ {MarketOf[s]}
        /\ live'.failure # "unrouted"
    BY <1>1, <1>4, <2>1, RoutingIs, PublishFailureIs DEF Failures
  <2>3. UNCHANGED <<ccxt, watch>>
    BY <1>6 DEF LoadFailureClosed, CancelledClosed, CloseCancelled, ActivationCancelled,
                CcxtCloseClient
  <2>4. OnlySubscribed'
    BY <2>3 DEF RoutesInv, OnlySubscribed
  <2> QED BY <1>2, <1>3, <1>4, <2>2, <2>3, <2>4, RoutesEnds
<1> QED BY <1>5, <1>6

LEMMA RoutesReader ==
  ASSUME ShapeInv, RoutesInv, ReaderStarts \/ ReaderReads \/ ReaderCancelled
  PROVE  RoutesInv'
<1>0. /\ live \in Session /\ live.failure # "unrouted" /\ live.routes = live.active
      /\ ccxt.subscriptions \subseteq live.active
  BY RoutesAre DEF RoutesInv, ShapeInv, LiveTypeOK
<1>1. CASE ReaderStarts \/ ReaderCancelled
  <2>1. UNCHANGED <<ccxt, watch, sub>>
    BY <1>1 DEF ReaderStarts, ReaderCancelled, ccxtVars
  <2>2. UNCHANGED live \/ live' = PublishFailure(live, "stream")
    BY <1>1 DEF ReaderStarts, ReaderCancelled, ReaderFails
  <2>3. live'.routes = live.routes /\ live'.active = live.active /\ live'.failure # "unrouted"
    BY <1>0, <2>2, PublishFailureIs DEF Failures
  <2>4. UnderWay' = UnderWay /\ OnlySubscribed'
    BY <2>1 DEF UnderWay, RoutesInv, OnlySubscribed
  <2> QED BY <2>1, <2>3, <2>4, RoutesKept
<1>2. CASE ReaderReads
  <2>1. UNCHANGED <<watch, sub>> /\ UnderWay' = UnderWay
    BY <1>2, ReaderReadsIs DEF UnderWay
  <2>2. CASE \E n \in 1..Len(ccxt.feed), why \in Failures : ReadsUpTo(n, why)
    <3>1. PICK n \in 1..Len(ccxt.feed), why \in Failures : ReadsUpTo(n, why)
      BY <2>2
    <3>2. ~(why = "unrouted" /\ Healthy)
      BY <1>0, <3>1 DEF ReadsUpTo, RoutesInv, OnlySubscribed
    <3>3. live'.routes = live.routes /\ live'.active = live.active /\ live'.failure # "unrouted"
      BY <1>0, <3>1, <3>2, PublishFailureIs DEF ReadsUpTo, ReaderFails, Healthy
    <3>4. ccxt' = [ccxt EXCEPT !.feed = SubSeq(@, n + 1, Len(@))]
      BY <3>1 DEF ReadsUpTo
    <3>5. ccxt'.subscriptions = ccxt.subscriptions
      BY <3>4, FeedAfterRead
    <3>6. ASSUME NEW i \in 1..Len(ccxt'.feed)
          PROVE  ccxt'.feed[i] # Failed => ccxt'.feed[i].market \in ccxt.subscriptions
      <4>1. i + n \in 1..Len(ccxt.feed) /\ ccxt'.feed[i] = ccxt.feed[i + n]
        BY <3>4, FeedAfterRead
      <4> QED BY <4>1 DEF RoutesInv, OnlySubscribed
    <3>7. OnlySubscribed'
      BY <2>1, <3>5, <3>6 DEF RoutesInv, OnlySubscribed
    <3> QED BY <2>1, <3>3, <3>5, <3>7, RoutesKept
  <2>3. CASE ReadsAll
    <3>1. PICK last \in [Markets -> Stamps \cup {None}] :
            live' = Moved(last) \/ live' = PublishFailure(Moved(last), "ended")
      BY <2>3 DEF ReadsAll, ReaderFails
    <3>2. live'.routes = live.routes /\ live'.active = live.active /\ live'.failure # "unrouted"
      <4> DEFINE m == Moved(last)
      <4>1. /\ m \in Session /\ m.routes = live.routes /\ m.active = live.active
            /\ m.failure # "unrouted" /\ (live' = m \/ live' = PublishFailure(m, "ended"))
        BY <1>0, <3>1, MovedIs
      <4>2. "ended" \in Failures
        BY DEF Failures
      <4> HIDE DEF m
      <4> QED BY <4>1, <4>2, PublishFailureIs
    <3>3. ccxt'.feed = <<>> /\ ccxt'.subscriptions = ccxt.subscriptions
      BY <2>3 DEF ReadsAll, ShapeInv, LiveTypeOK, CcxtTypeOK, CcxtFields
    <3>4. OnlySubscribed'
      BY <2>1, <3>3 DEF RoutesInv, OnlySubscribed
    <3> QED BY <2>1, <3>2, <3>3, <3>4, RoutesKept
  <2> QED BY <1>2, <2>2, <2>3, ReaderReadsIs
<1> QED BY <1>1, <1>2

LEMMA RoutesRest ==
  ASSUME ShapeInv, RoutesInv,
         \/ Enter \/ EnterFails \/ Ask \/ Wake \/ GiveUp
         \/ \E bodyRaised \in BOOLEAN : ExitBegins(bodyRaised)
         \/ ReaderAwaited \/ ExitCancelled \/ ExitReturns
  PROVE  RoutesInv'
<1>1. live'.routes = live.routes /\ live'.active = live.active /\ live'.failure = live.failure
  <2>1. CASE Enter \/ EnterFails
    BY <2>1, ShapeBefore DEF Enter, EnterFails, Session
  <2>2. CASE Ask \/ Wake \/ GiveUp
    BY <2>2, TakeIs, ShapeBefore DEF Ask, Wake, GiveUp, Session
  <2>3. CASE \/ \E bodyRaised \in BOOLEAN : ExitBegins(bodyRaised)
             \/ ReaderAwaited \/ ExitCancelled \/ ExitReturns
    BY <2>3, ShapeExit DEF LeavesOnly
  <2> QED BY <2>1, <2>2, <2>3
<1>2. /\ ccxt'.subscriptions = ccxt.subscriptions /\ ccxt'.feed = ccxt.feed
      /\ UNCHANGED watch
  BY ExitShape
  DEF Enter, EnterFails, Ask, Wake, GiveUp, ExitBegins, ReaderAwaited, ExitCancelled,
      ExitReturns, LeaveProvider, ccxtVars, ShapeInv, LiveTypeOK, CcxtTypeOK, CcxtFields
<1>3. UnderWay' = UnderWay
  <2>1. CASE UNCHANGED sub
    BY <2>1 DEF UnderWay
  <2>2. CASE \E bodyRaised \in BOOLEAN : ExitBegins(bodyRaised)
    <3>1. \A s \in Subs : sub'[s].pc = sub[s].pc
      <4>1. sub' = Overlaps({s \in Subs : sub[s].pc \notin {"idle", "done"}}, "exit")
        BY <2>2 DEF ExitBegins
      <4> DEFINE calls == {s \in Subs : sub[s].pc \notin {"idle", "done"}}
      <4>2. sub' = Overlaps(calls, "exit")
        BY <4>1
      <4> HIDE DEF calls
      <4> QED BY <4>2, OverlapsIs
    <3> QED BY <3>1 DEF UnderWay
  <2> QED BY <2>1, <2>2
      DEF Enter, EnterFails, Ask, Wake, GiveUp, ReaderAwaited, ExitCancelled, ExitReturns
<1>4. OnlySubscribed'
  BY <1>2, SubscribedKept DEF RoutesInv
<1> QED BY <1>1, <1>2, <1>3, <1>4, RoutesKept, RoutesAre DEF RoutesInv

LEMMA RoutesNext == ASSUME ShapeInv, RoutesInv, [LiveNext]_liveVars PROVE RoutesInv'
<1>1. CASE UNCHANGED liveVars
  BY <1>1 DEF liveVars, RoutesInv, RoutesAgree, CallsApart, OnlySubscribed, UnderWay
<1>2. CASE Scheduled
  BY <1>2, RoutesTasks, RoutesCallEnds, RoutesReader, RoutesRest DEF Scheduled, Aside
<1>3. CASE Outside
  BY <1>3, RoutesRest, RoutesMoves, RoutesResolved, RoutesCallEnds, RoutesVenue
  DEF Outside, Venue, Aside
<1> QED BY <1>1, <1>2, <1>3 DEF LiveNext

\* The registers of the session, of its runtime and of the provider session
\* agree at every await, whatever calls overlap, fail or are cancelled in
\* between, and no update is ever found without a subscription.
THEOREM RegistersAgree == LiveSpec => []RoutesAgree
<1>1. LiveInit => RoutesInv
  BY RoutesInit
<1>2. ShapeInv /\ RoutesInv /\ [LiveNext]_liveVars => RoutesInv'
  BY RoutesNext
<1>3. RoutesInv => RoutesAgree
  BY DEF RoutesInv
<1> QED BY <1>1, <1>2, <1>3, Shape, PTL DEF LiveSpec

-----------------------------------------------------------------------------
(* The stream of updates.  To it a step does one of five things.           *)

Quiet ==
  /\ UNCHANGED <<received, published>>
  /\ live'.failure = live.failure
  /\ Healthy => /\ live'.queue = live.queue /\ live'.last = live.last
                /\ ccxt'.failed \/ (ccxt'.feed = ccxt.feed /\ ccxt'.failed = ccxt.failed)

Ends == Healthy /\ live'.failure # "none" /\ UNCHANGED <<received, published>>

Publishes ==
  /\ UNCHANGED <<live, received>>
  /\ ~ccxt.failed
  /\ \E rows \in Seq(Update) : /\ rows # <<>>
                              /\ ccxt'.feed = ccxt.feed \o rows
                              /\ published' = published \o rows

PassesOn ==
  /\ ReadsAll
  /\ UNCHANGED <<received, published>>
  /\ ccxt'.feed = <<>> /\ ccxt'.failed = ccxt.failed
  /\ LastOfFeed(live'.last) /\ live'.last \in [Markets -> Stamps \cup {None}]
  /\ live'.queue = live.queue \o ccxt.feed /\ live'.failure = live.failure

Delivers ==
  /\ Healthy /\ live.queue # <<>>
  /\ received' = Append(received, Head(live.queue))
  /\ live'.queue = Tail(live.queue)
  /\ live'.failure = live.failure /\ live'.last = live.last
  /\ UNCHANGED <<ccxt, published>>

StreamStep == Quiet \/ Ends \/ Publishes \/ PassesOn \/ Delivers

\* A failure of a well-formed session is quiet, or its end.
LEMMA FailureStep ==
  ASSUME ShapeInv, NEW l \in Session, NEW why \in Failures, l.failure = live.failure,
         ~Healthy \/ l.queue = live.queue,
         live' = PublishFailure(l, why), UNCHANGED <<received, published>>
  PROVE  Quiet \/ Ends
<1>1. CASE Healthy
  BY <1>1, PublishFailureIs DEF Healthy, Ends
<1>2. CASE ~Healthy
  BY <1>2, PublishFailureIs DEF Healthy, Quiet
<1> QED BY <1>1, <1>2

LEMMA StreamTasks == ASSUME ShapeInv, CcxtTask, Aside PROVE Quiet
<1>1. ASSUME NEW next, ClosesNext(next)
      PROVE  ccxt'.failed = ccxt.failed /\ ccxt'.feed = ccxt.feed
  BY <1>1 DEF ClosesNext, ShapeInv, LiveTypeOK, CcxtTypeOK, CcxtFields
<1>2. ccxt'.failed = ccxt.failed /\ ccxt'.feed = ccxt.feed /\ UNCHANGED published
  BY <1>1 DEF CcxtTask, WatchStarts, WatchCancelled, ShutdownStarts, TasksGathered, CloseReturns
<1> QED BY <1>2 DEF Aside, Quiet

LEMMA StreamVenue == ASSUME ShapeInv, CcxtVenue, Aside PROVE Quiet \/ Publishes
<1>1. ASSUME NEW k \in Markets, FeedFails(k) PROVE Quiet
  <2>1. ccxt'.failed /\ UNCHANGED published
    BY <1>1 DEF FeedFails, ShapeInv, LiveTypeOK, CcxtTypeOK, CcxtFields
  <2> QED BY <2>1 DEF Aside, Quiet
<1>2. ASSUME NEW k \in Markets, NEW n \in 1..2, NEW stamps \in [1..n -> Stamps],
             WatchReturns(k, stamps)
      PROVE  Quiet \/ Publishes
  <2> DEFINE rows == [i \in 1..Len(stamps) |-> [market |-> k, stamp |-> stamps[i]]]
  <2>1. CASE Overflow(ccxt.feed, rows)
    <3>1. FeedFails(k)
      BY <1>2, <2>1 DEF WatchReturns
    <3> QED BY <1>1, <3>1
  <2>2. CASE ~Overflow(ccxt.feed, rows)
    <3>1. /\ watch[k] = "watching"
          /\ ccxt' = [ccxt EXCEPT !.feed = @ \o rows]
          /\ published' = published \o rows
      BY <1>2, <2>2 DEF WatchReturns, Put
    <3>2. rows \in Seq(Update) /\ rows # <<>>
      BY DEF Update
    <3> HIDE DEF rows
    <3>3. ~ccxt.failed
      BY <3>1 DEF ShapeInv, FeedPhase
    <3>4. ccxt'.feed = ccxt.feed \o rows
      BY <3>1 DEF ShapeInv, LiveTypeOK, CcxtTypeOK, CcxtFields
    <3> QED BY <3>1, <3>2, <3>3, <3>4 DEF Aside, Publishes
  <2> QED BY <2>1, <2>2
<1> QED BY <1>1, <1>2 DEF CcxtVenue, WatchFails

LEMMA StreamCalls ==
  ASSUME ShapeInv, NEW s \in Subs,
         \/ Subscribe(s) \/ ResolveFails(s) \/ Resolved(s) \/ MarketsLoaded(s)
         \/ LoadFails(s) \/ LoadCancelled(s) \/ LoadFailureClosed(s)
         \/ CancelledClosed(s) \/ CloseCancelled(s)
  PROVE  Quiet \/ Ends
<1>1. MarketOf[s] \in Markets /\ "cancelled" \in Failures
  BY LiveAssumption DEF Failures
<1>2. UNCHANGED <<received, published>> /\ ccxt'.failed = ccxt.failed /\ ccxt'.feed = ccxt.feed
  <2>1. CASE CcxtReuseClient(s) \/ CcxtRegisterClient(s)
    BY <2>1, SubscribeShape DEF Resolved, MarketsLoaded, Subscribe, ResolveFails, LoadFails,
       LoadCancelled, LoadFailureClosed, CancelledClosed, CloseCancelled, ActivationCancelled
  <2>2. CASE ~(CcxtReuseClient(s) \/ CcxtRegisterClient(s))
    BY <2>2 DEF Resolved, MarketsLoaded, Subscribe, ResolveFails, LoadFails,
       LoadCancelled, LoadFailureClosed, CancelledClosed, CloseCancelled, ActivationCancelled,
       CcxtCreateClient, CcxtCloseClient, ccxtVars
  <2> QED BY <2>1, <2>2
<1>3. \/ live'.failure = live.failure /\ live'.queue = live.queue /\ live'.last = live.last
      \/ live' = PublishFailure(Unrouted(MarketOf[s]), "cancelled")
  <2>1. CASE Subscribe(s) \/ ResolveFails(s) \/ LoadFails(s) \/ LoadCancelled(s)
    BY <2>1 DEF Subscribe, ResolveFails, LoadFails, LoadCancelled
  <2>2. CASE Resolved(s)
    <3>1. \/ Completed(s, Routed(MarketOf[s])) \/ live' = Routed(MarketOf[s])
          \/ UNCHANGED live \/ live' = Unrouted(MarketOf[s])
      BY <2>2 DEF Resolved
    <3> QED BY <1>1, <3>1, RoutingIs, CompletedShape
  <2>3. CASE MarketsLoaded(s)
    BY <2>3, CompletedShape, ShapeBefore DEF MarketsLoaded
  <2>4. CASE LoadFailureClosed(s)
    BY <1>1, <2>4, RoutingIs DEF LoadFailureClosed
  <2>5. CASE CancelledClosed(s) \/ CloseCancelled(s)
    BY <2>5 DEF CancelledClosed, CloseCancelled, ActivationCancelled
  <2> QED BY <2>1, <2>2, <2>3, <2>4, <2>5
<1>4. CASE live'.failure = live.failure /\ live'.queue = live.queue /\ live'.last = live.last
  BY <1>2, <1>4 DEF Quiet
<1>5. CASE live' = PublishFailure(Unrouted(MarketOf[s]), "cancelled")
  BY <1>1, <1>2, <1>5, RoutingIs, FailureStep
<1> QED BY <1>3, <1>4, <1>5

LEMMA StreamReader ==
  ASSUME ShapeInv, ReaderStarts \/ ReaderReads \/ ReaderCancelled
  PROVE  Quiet \/ Ends \/ PassesOn
<1>1. CASE ReaderStarts \/ ReaderCancelled
  <2>1. UNCHANGED <<ccxt, published, received>>
    BY <1>1 DEF ReaderStarts, ReaderCancelled, ccxtVars
  <2>2. UNCHANGED live \/ live' = PublishFailure(live, "stream")
    BY <1>1 DEF ReaderStarts, ReaderCancelled, ReaderFails
  <2>3. "stream" \in Failures
    BY DEF Failures
  <2>4. UNCHANGED live => Quiet
    BY <2>1 DEF Quiet
  <2> QED BY <2>1, <2>2, <2>3, <2>4, FailureStep, ShapeBefore
<1>2. CASE ReaderReads
  <2>1. UNCHANGED <<published, received>>
    BY <1>2, ReaderReadsIs
  <2>2. CASE \E n \in 1..Len(ccxt.feed), why \in Failures : ReadsUpTo(n, why)
    <3>1. PICK n \in 1..Len(ccxt.feed), why \in Failures : ReadsUpTo(n, why)
      BY <2>2
    <3> QED BY <2>1, <3>1, FailureStep, ShapeBefore DEF ReadsUpTo, ReaderFails
  <2>3. CASE ReadsAll
    <3>1. PICK last \in [Markets -> Stamps \cup {None}] :
            /\ LastOfFeed(last)
            /\ \/ live' = Moved(last)
               \/ live' = PublishFailure(Moved(last), "ended")
      BY <2>3 DEF ReadsAll, ReaderFails
    <3>2. ccxt'.feed = <<>> /\ ccxt'.failed = ccxt.failed /\ Healthy
      BY <2>3 DEF ReadsAll, ShapeInv, LiveTypeOK, CcxtTypeOK, CcxtFields
    <3>3. CASE live' = Moved(last)
      BY <2>1, <2>3, <3>1, <3>2, <3>3, MovedIs DEF PassesOn
    <3>4. CASE live' = PublishFailure(Moved(last), "ended")
      <4> DEFINE m == Moved(last)
      <4>1. m \in Session /\ m.failure = "none" /\ live' = PublishFailure(m, "ended")
        BY <3>2, <3>4, MovedIs DEF Healthy
      <4>2. "ended" \in Failures
        BY DEF Failures
      <4> HIDE DEF m
      <4>3. live'.failure # "none"
        BY <4>1, <4>2, PublishFailureIs
      <4> QED BY <2>1, <3>2, <4>3 DEF Ends
    <3> QED BY <3>1, <3>3, <3>4
  <2> QED BY <1>2, <2>2, <2>3, ReaderReadsIs
<1> QED BY <1>1, <1>2

LEMMA StreamConsumer ==
  ASSUME ShapeInv, Ask \/ Wake \/ GiveUp
  PROVE  Quiet \/ Delivers
<1>1. UNCHANGED <<ccxt, published>>
  BY DEF Ask, Wake, GiveUp, ccxtVars
<1>2. CASE live.queue # <<>> /\ Take(live)
  <2>1. CASE Healthy
    BY <1>1, <1>2, <2>1, TakeIs DEF Delivers
  <2>2. CASE ~Healthy
    BY <1>1, <1>2, <2>2, TakeIs DEF Quiet, Healthy
  <2> QED BY <2>1, <2>2
<1>3. CASE UNCHANGED received /\ (UNCHANGED live \/ live' = [live EXCEPT !.observed = TRUE])
  <2>1. live'.failure = live.failure /\ live'.queue = live.queue /\ live'.last = live.last
    BY <1>3, ShapeBefore DEF Session
  <2> QED BY <1>1, <1>3, <2>1 DEF Quiet
<1> QED BY <1>2, <1>3 DEF Ask, Wake, GiveUp

LEMMA StreamRest ==
  ASSUME ShapeInv,
         \/ Enter \/ EnterFails
         \/ \E bodyRaised \in BOOLEAN : ExitBegins(bodyRaised)
         \/ ReaderAwaited \/ ExitCancelled \/ ExitReturns
  PROVE  Quiet
<1>1. CASE Enter \/ EnterFails
  <2>1. live'.failure = live.failure /\ live'.queue = live.queue /\ live'.last = live.last
    BY <1>1, ShapeBefore DEF Enter, EnterFails, Session
  <2>2. ccxt'.feed = ccxt.feed /\ ccxt'.failed = ccxt.failed /\ UNCHANGED <<received, published>>
    BY <1>1 DEF Enter, EnterFails, ccxtVars, ShapeInv, LiveTypeOK, CcxtTypeOK, CcxtFields
  <2> QED BY <2>1, <2>2 DEF Quiet
<1>2. CASE \/ \E bodyRaised \in BOOLEAN : ExitBegins(bodyRaised)
           \/ ReaderAwaited \/ ExitCancelled \/ ExitReturns
  <2>1. live'.failure = live.failure /\ live'.queue = live.queue /\ live'.last = live.last
    BY <1>2, ShapeExit DEF LeavesOnly
  <2>2. ccxt'.feed = ccxt.feed /\ ccxt'.failed = ccxt.failed /\ UNCHANGED <<received, published>>
    BY <1>2, ExitShape DEF ExitBegins, ReaderAwaited, ExitCancelled, ExitReturns, LeaveProvider,
       ccxtVars
  <2> QED BY <2>1, <2>2 DEF Quiet
<1> QED BY <1>1, <1>2

LEMMA StreamSteps == ASSUME ShapeInv, [LiveNext]_liveVars PROVE StreamStep
<1>1. CASE UNCHANGED liveVars
  BY <1>1 DEF liveVars, StreamStep, Quiet
<1>2. CASE Scheduled
  BY <1>2, StreamTasks, StreamCalls, StreamReader, StreamConsumer, StreamRest
  DEF Scheduled, StreamStep, Aside
<1>3. CASE Outside
  BY <1>3, StreamRest, StreamCalls, StreamVenue, StreamConsumer
  DEF Outside, Venue, StreamStep, Aside
<1> QED BY <1>1, <1>2, <1>3 DEF LiveNext

LEMMA AppendHead ==
  ASSUME NEW S, NEW r \in Seq(S), NEW q \in Seq(S), q # <<>>
  PROVE  Append(r, Head(q)) \o Tail(q) = r \o q
<1> DEFINE a == Append(r, Head(q))
           t == Tail(q)
<1>1. /\ Len(r) \in Nat /\ Len(q) \in Nat \ {0} /\ Head(q) \in S /\ Head(q) = q[1]
      /\ t \in Seq(S) /\ Len(t) = Len(q) - 1
      /\ \A i \in 1..Len(t) : t[i] = q[i + 1]
  BY HeadTailProperties, EmptySeq, LenProperties
<1>2. /\ a \in Seq(S) /\ Len(a) = Len(r) + 1
      /\ \A i \in 1..Len(r) : a[i] = r[i]
      /\ a[Len(r) + 1] = Head(q)
  BY <1>1, AppendProperties
<1> HIDE DEF a, t
<1>3. /\ a \o t \in Seq(S) /\ Len(a \o t) = Len(a) + Len(t)
      /\ \A i \in 1..(Len(a) + Len(t)) :
           (a \o t)[i] = IF i <= Len(a) THEN a[i] ELSE t[i - Len(a)]
  BY <1>1, <1>2, ConcatProperties
<1>4. /\ r \o q \in Seq(S) /\ Len(r \o q) = Len(r) + Len(q)
      /\ \A i \in 1..(Len(r) + Len(q)) :
           (r \o q)[i] = IF i <= Len(r) THEN r[i] ELSE q[i - Len(r)]
  BY ConcatProperties
<1>5. Len(a \o t) = Len(r \o q)
  BY <1>1, <1>2, <1>3, <1>4
<1>6. ASSUME NEW i \in 1..Len(r \o q) PROVE (a \o t)[i] = (r \o q)[i]
  <2>0. i \in 1..(Len(r) + Len(q)) /\ i \in 1..(Len(a) + Len(t))
    BY <1>3, <1>4, <1>5
  <2>1. CASE i <= Len(r)
    <3>1. (a \o t)[i] = a[i] /\ a[i] = r[i]
      BY <1>1, <1>2, <1>3, <2>0, <2>1
    <3> QED BY <1>4, <2>0, <2>1, <3>1
  <2>2. CASE i = Len(r) + 1
    <3>1. (a \o t)[i] = Head(q)
      BY <1>1, <1>2, <1>3, <2>0, <2>2
    <3>2. (r \o q)[i] = q[1]
      BY <1>1, <1>4, <2>0, <2>2
    <3> QED BY <1>1, <3>1, <3>2
  <2>3. CASE i > Len(r) + 1
    <3>1. i - Len(a) \in 1..Len(t) /\ (i - Len(a)) + 1 = i - Len(r)
      BY <1>1, <1>2, <2>0, <2>3
    <3>2. (a \o t)[i] = t[i - Len(a)]
      BY <1>1, <1>2, <1>3, <2>0, <2>3
    <3>3. t[i - Len(a)] = q[i - Len(r)]
      BY <1>1, <3>1
    <3>4. (r \o q)[i] = q[i - Len(r)]
      BY <1>1, <1>4, <2>0, <2>3
    <3> QED BY <3>2, <3>3, <3>4
  <2> QED BY <1>1, <2>0, <2>1, <2>2, <2>3
<1>7. a \o t = r \o q
  BY <1>3, <1>4, <1>5, <1>6, SeqEqual
<1> QED BY <1>7 DEF a, t

LEMMA StreamInit == LiveInit => StreamInv
<1> SUFFICES ASSUME LiveInit PROVE StreamInv
  OBVIOUS
<1>1. received = <<>> /\ live.queue = <<>> /\ ccxt.feed = <<>> /\ published = <<>>
  BY DEF LiveInit, CcxtInit
<1>2. Delivered = <<>>
  BY <1>1 DEF Delivered
<1>3. received \o live.queue \o ccxt.feed = published
  BY <1>1, <1>2 DEF Delivered
<1>4. Len(Delivered) = 0 /\ Len(published) = 0
  BY <1>1, <1>2
<1> QED BY <1>3, <1>4 DEF StreamInv, NothingLost, BeginsPublished, DeliveredInOrder

\* The types behind it, while the session is healthy.
LEMMA StreamTypes ==
  ASSUME ShapeInv, Healthy
  PROVE  /\ received \in Seq(Update) /\ live.queue \in Seq(Update)
         /\ published \in Seq(Update) /\ Delivered \in Seq(Update)
         /\ ~ccxt.failed => ccxt.feed \in Seq(Update)
BY ConcatProperties DEF ShapeInv, LiveTypeOK, CcxtTypeOK, QueuePhase, FeedPhase, Delivered

\* An update no check of the reader finds wrong is not before any of its
\* dataset that came earlier: by the one it is compared with, which is the
\* last of them, and by the first update of which this would not hold.
LEMMA FeedInOrder ==
  ASSUME ShapeInv, ReadsAll, NEW b \in 1..Len(ccxt.feed)
  PROVE  /\ LET last == live.last[ccxt.feed[b].market] IN
              last # None => last <= ccxt.feed[b].stamp
         /\ \A a \in 1..Len(ccxt.feed) :
              a < b /\ ccxt.feed[a].market = ccxt.feed[b].market =>
                ccxt.feed[a].stamp <= ccxt.feed[b].stamp
<1> DEFINE f == ccxt.feed
           After(n) == /\ live.last[f[n].market] # None => live.last[f[n].market] <= f[n].stamp
                       /\ \A a \in 1..Len(f) :
                            a < n /\ f[a].market = f[n].market => f[a].stamp <= f[n].stamp
           bad == {n \in 1..Len(f) : ~After(n)}
<1>1. f \in Seq(Update) /\ Len(f) \in Nat
  BY LenProperties DEF ShapeInv, FeedPhase, ReadsAll
<1>2. \A n \in 1..Len(f) : f[n].market \in Markets /\ f[n].stamp \in Stamps /\ f[n].stamp \in Nat
                           /\ f[n].stamp # None
  <2> TAKE n \in 1..Len(f)
  <2>1. f[n] \in Update
    BY <1>1, ElementOfSeq
  <2> QED BY <2>1, LiveAssumption DEF Update
<1>3. \A k \in Markets : live.last[k] # None => live.last[k] \in Nat
  BY LiveAssumption DEF ShapeInv, LiveTypeOK, Session
<1>4. ASSUME NEW n \in bad, \A m \in bad : n <= m PROVE FALSE
  <2>0. n \in 1..Len(f) /\ n \in Nat /\ f[n].market \in Markets /\ f[n].stamp \in Nat
    BY <1>1, <1>2
  <2> DEFINE k == f[n].market
             P == SameMarket(f[n], n)
  <2>1. ~Backwards(n)
    BY <2>0 DEF ReadsAll
  <2>2. n \in 1..(Len(f) + 1)
    BY <1>1, <2>0
  <2>3. P = {j \in 1..(n - 1) : f[j].market = k}
    BY DEF SameMarket
  <2>4. CASE P = {}
    <3>1. EarlierStamp(f[n], n) = live.last[k]
      BY <2>2, <2>4, EarlierStampIs
    <3>2. live.last[k] # None => live.last[k] <= f[n].stamp
      BY <1>3, <2>0, <2>1, <3>1 DEF Backwards
    <3>3. \A a \in 1..Len(f) : ~(a < n /\ f[a].market = k)
      BY <1>1, <2>0, <2>3, <2>4
    <3>4. After(n)
      BY <3>2, <3>3
    <3> QED BY <3>4
  <2>5. CASE P # {}
    <3>1. PICK p \in P : (\A j \in P : j <= p) /\ EarlierStamp(f[n], n) = f[p].stamp
      BY <2>2, <2>5, EarlierStampIs
    <3>2. p \in 1..Len(f) /\ p < n /\ f[p].market = k
      BY <1>1, <2>0, <2>3
    <3>3. f[p].stamp <= f[n].stamp
      BY <1>2, <2>0, <2>1, <3>1, <3>2 DEF Backwards
    <3>4. After(p)
      BY <1>4, <2>0, <3>2
    <3>5. live.last[k] # None => live.last[k] <= f[n].stamp
      BY <1>2, <1>3, <2>0, <3>2, <3>3, <3>4
    <3>6. ASSUME NEW a \in 1..Len(f), a < n, f[a].market = k
          PROVE  f[a].stamp <= f[n].stamp
      <4>1. a \in P
        BY <1>1, <2>0, <2>3, <3>6
      <4>2. a = p \/ a < p
        BY <1>1, <3>1, <3>2, <4>1
      <4>3. a < p => f[a].stamp <= f[p].stamp
        BY <3>2, <3>4, <3>6
      <4> QED BY <1>2, <2>0, <3>2, <3>3, <4>2, <4>3
    <3>7. After(n)
      BY <3>5, <3>6
    <3> QED BY <3>7
  <2> QED BY <2>4, <2>5
<1>5. bad = {}
  <2> SUFFICES ASSUME bad # {} PROVE FALSE
    OBVIOUS
  <2>1. bad \in SUBSET Nat
    BY <1>1
  <2>2. PICK n \in bad : \A m \in bad : n <= m
    BY <2>1, SomeLeast
  <2> QED BY <1>4, <2>2
<1>6. After(b)
  BY <1>5
<1> QED BY <1>6

LEMMA UpdatesAssociate ==
  \A r, s, t \in Seq(Update) : (r \o s) \o t = r \o (s \o t)
<1> TAKE r, s, t \in Seq(Update)
<1> DEFINE left == (r \o s) \o t
           right == r \o (s \o t)
<1>1. Len(r) \in Nat /\ Len(s) \in Nat /\ Len(t) \in Nat
  BY LenProperties
<1>2. /\ left \in Seq(Update) /\ Len(left) = Len(r) + Len(s) + Len(t)
      /\ \A i \in 1..(Len(r) + Len(s) + Len(t)) :
           left[i] = IF i <= Len(r) + Len(s) THEN (r \o s)[i] ELSE t[i - (Len(r) + Len(s))]
  <2>1. r \o s \in Seq(Update) /\ Len(r \o s) = Len(r) + Len(s)
    BY ConcatProperties
  <2> QED BY <1>1, <2>1, ConcatProperties
<1>3. /\ right \in Seq(Update) /\ Len(right) = Len(r) + (Len(s) + Len(t))
      /\ \A i \in 1..(Len(r) + (Len(s) + Len(t))) :
           right[i] = IF i <= Len(r) THEN r[i] ELSE (s \o t)[i - Len(r)]
  <2>1. s \o t \in Seq(Update) /\ Len(s \o t) = Len(s) + Len(t)
    BY ConcatProperties
  <2> QED BY <1>1, <2>1, ConcatProperties
<1>4. /\ \A i \in 1..(Len(r) + Len(s)) :
           (r \o s)[i] = IF i <= Len(r) THEN r[i] ELSE s[i - Len(r)]
      /\ \A i \in 1..(Len(s) + Len(t)) :
           (s \o t)[i] = IF i <= Len(s) THEN s[i] ELSE t[i - Len(s)]
  BY ConcatProperties
<1> HIDE DEF left, right
<1>5. Len(left) = Len(right) /\ Len(left) = Len(r) + Len(s) + Len(t)
  BY <1>1, <1>2, <1>3
<1>6. ASSUME NEW i \in 1..Len(left) PROVE left[i] = right[i]
  <2>1. i \in 1..(Len(r) + Len(s) + Len(t)) /\ i \in 1..(Len(r) + (Len(s) + Len(t)))
    BY <1>1, <1>5
  <2>2. CASE i <= Len(r)
    <3>1. i \in 1..(Len(r) + Len(s)) /\ i <= Len(r) + Len(s)
      BY <1>1, <2>1, <2>2
    <3> QED BY <1>2, <1>3, <1>4, <2>1, <2>2, <3>1
  <2>3. CASE ~(i <= Len(r)) /\ i <= Len(r) + Len(s)
    <3>1. /\ i \in 1..(Len(r) + Len(s)) /\ i - Len(r) \in 1..(Len(s) + Len(t))
          /\ i - Len(r) <= Len(s)
      BY <1>1, <2>1, <2>3
    <3> QED BY <1>2, <1>3, <1>4, <2>1, <2>3, <3>1
  <2>4. CASE ~(i <= Len(r) + Len(s))
    <3>1. /\ i - Len(r) \in 1..(Len(s) + Len(t)) /\ ~(i - Len(r) <= Len(s)) /\ ~(i <= Len(r))
          /\ (i - Len(r)) - Len(s) = i - (Len(r) + Len(s))
      BY <1>1, <2>1, <2>4
    <3>2. left[i] = t[i - (Len(r) + Len(s))]
      BY <1>2, <2>1, <2>4
    <3>3. right[i] = (s \o t)[i - Len(r)]
      BY <1>3, <2>1, <3>1
    <3>4. (s \o t)[i - Len(r)] = t[(i - Len(r)) - Len(s)]
      BY <1>4, <3>1
    <3> QED BY <3>1, <3>2, <3>3, <3>4
  <2> QED BY <2>2, <2>3, <2>4
<1>7. left = right
  BY <1>2, <1>3, <1>5, <1>6, SeqEqual
<1> QED BY <1>7 DEF left, right

LEMMA StreamQuiet == ASSUME ShapeInv, StreamInv, Quiet \/ Ends PROVE StreamInv'
<1>1. CASE ~Healthy'
  BY <1>1 DEF StreamInv, NothingLost, BeginsPublished, DeliveredInOrder
<1>2. CASE Healthy'
  <2>1. /\ Quiet /\ Healthy /\ UNCHANGED <<received, published>>
        /\ live'.queue = live.queue /\ live'.last = live.last
        /\ ccxt'.failed \/ (ccxt'.feed = ccxt.feed /\ ccxt'.failed = ccxt.failed)
    BY <1>2 DEF Quiet, Ends, Healthy
  <2>2. Delivered' = Delivered
    BY <2>1 DEF Delivered
  <2>3. BeginsPublished' /\ DeliveredInOrder'
    BY <2>1, <2>2 DEF StreamInv, BeginsPublished, DeliveredInOrder
  <2>4. NothingLost'
    BY <2>1 DEF StreamInv, NothingLost
  <2> QED BY <2>3, <2>4 DEF StreamInv
<1> QED BY <1>1, <1>2

LEMMA StreamPublishes == ASSUME ShapeInv, StreamInv, Publishes PROVE StreamInv'
<1>1. CASE ~Healthy
  BY <1>1 DEF Publishes, Healthy, StreamInv, NothingLost, BeginsPublished, DeliveredInOrder
<1>2. CASE Healthy
  <2>1. PICK rows \in Seq(Update) : ccxt'.feed = ccxt.feed \o rows /\ published' = published \o rows
    BY DEF Publishes
  <2>2. ~ccxt.failed /\ UNCHANGED <<live, received>> /\ Delivered' = Delivered
    BY DEF Publishes, Delivered
  <2>3. /\ Delivered \in Seq(Update) /\ ccxt.feed \in Seq(Update)
        /\ published \in Seq(Update) /\ Delivered \o ccxt.feed = published
    BY <1>2, <2>2, StreamTypes DEF StreamInv, NothingLost, Delivered
  <2>4. Delivered \o (ccxt.feed \o rows) = published \o rows
    <3>1. (Delivered \o ccxt.feed) \o rows = Delivered \o (ccxt.feed \o rows)
      BY <2>3, UpdatesAssociate
    <3> QED BY <2>3, <3>1
  <2>5. NothingLost'
    BY <2>1, <2>2, <2>4 DEF NothingLost, Delivered
  <2>6. BeginsPublished'
    <3>1. /\ Len(published') = Len(published) + Len(rows) /\ Len(rows) \in Nat
          /\ Len(published) \in Nat /\ Len(Delivered) \in Nat
          /\ \A i \in 1..Len(published) : published'[i] = published[i]
      BY <2>1, <2>3, ConcatProperties, LenProperties
    <3>2. /\ Len(Delivered) <= Len(published)
          /\ \A i \in 1..Len(Delivered) : Delivered[i] = published[i]
      BY <1>2 DEF StreamInv, BeginsPublished
    <3> QED BY <2>2, <3>1, <3>2 DEF BeginsPublished
  <2>7. DeliveredInOrder'
    BY <2>2 DEF StreamInv, DeliveredInOrder, Healthy
  <2> QED BY <2>5, <2>6, <2>7 DEF StreamInv
<1> QED BY <1>1, <1>2

LEMMA StreamDelivers == ASSUME ShapeInv, StreamInv, Delivers PROVE StreamInv'
<1>1. Delivered' = Delivered
  BY StreamTypes, AppendHead DEF Delivers, Delivered
<1>2. UNCHANGED <<ccxt, published>> /\ Healthy' /\ Healthy /\ live'.last = live.last
  BY DEF Delivers, Healthy
<1>3. NothingLost'
  BY <1>1, <1>2 DEF StreamInv, NothingLost, Delivered
<1>4. BeginsPublished' /\ DeliveredInOrder'
  BY <1>1, <1>2 DEF StreamInv, BeginsPublished, DeliveredInOrder
<1> QED BY <1>3, <1>4 DEF StreamInv

LEMMA StreamPassesOn == ASSUME ShapeInv, StreamInv, PassesOn PROVE StreamInv'
<1> DEFINE d == Delivered
           f == ccxt.feed
           e == Delivered \o ccxt.feed
           last == live'.last
<1>1. Healthy /\ ~ccxt.failed /\ Healthy' /\ ReadsAll /\ LastOfFeed(last) /\ UNCHANGED published
  BY DEF PassesOn, ReadsAll, Healthy
<1>2. d \in Seq(Update) /\ f \in Seq(Update) /\ published \in Seq(Update) /\ e = published
  <2>1. d \in Seq(Update) /\ f \in Seq(Update) /\ published \in Seq(Update)
    BY <1>1, StreamTypes
  <2>2. NothingLost /\ Healthy /\ ~ccxt.failed
    BY <1>1 DEF StreamInv
  <2>3. e = published
    BY <2>2, Zenon DEF NothingLost, Delivered
  <2> QED BY <2>1, <2>3
<1>3. Delivered' = e
  <2>1. received \in Seq(Update) /\ live.queue \in Seq(Update) /\ ccxt.feed \in Seq(Update)
    BY <1>1, StreamTypes
  <2>2. (received \o live.queue) \o ccxt.feed = received \o (live.queue \o ccxt.feed)
    BY <2>1, UpdatesAssociate
  <2> QED BY <2>2 DEF PassesOn, Delivered
<1>4. e \o ccxt'.feed = published
  BY <1>2, ConcatEmptySeq DEF PassesOn
<1>5. NothingLost'
  BY <1>1, <1>3, <1>4 DEF NothingLost, Delivered
<1>6. BeginsPublished'
  BY <1>1, <1>2, <1>3, LenProperties DEF BeginsPublished
<1>7. /\ Len(d) \in Nat /\ Len(f) \in Nat /\ Len(e) = Len(d) + Len(f)
      /\ \A i \in 1..Len(e) : e[i] = IF i <= Len(d) THEN d[i] ELSE f[i - Len(d)]
  BY <1>2, ConcatProperties, LenProperties
<1>8. /\ \A i \in 1..Len(d) : d[i].market \in Markets /\ d[i].stamp \in Nat
      /\ \A i \in 1..Len(f) : f[i].market \in Markets /\ f[i].stamp \in Nat /\ f[i].stamp # None
  <2>1. /\ \A i \in 1..Len(d) : d[i] \in Update
        /\ \A i \in 1..Len(f) : f[i] \in Update
    BY <1>2, ElementOfSeq
  <2> QED BY <2>1, LiveAssumption DEF Update
<1>9. /\ \A i \in 1..Len(d), j \in 1..Len(d) :
           i < j /\ d[i].market = d[j].market => d[i].stamp <= d[j].stamp
      /\ \A i \in 1..Len(d) : /\ live.last[d[i].market] # None
                             /\ d[i].stamp <= live.last[d[i].market]
  BY <1>1 DEF StreamInv, DeliveredInOrder
<1>10. \A k \in Markets : live.last[k] # None => live.last[k] \in Nat
  BY LiveAssumption DEF ShapeInv, LiveTypeOK, Session
\* What was delivered before is not after what is passed on now.
<1>11. ASSUME NEW i \in 1..Len(d), NEW b \in 1..Len(f), d[i].market = f[b].market
       PROVE  d[i].stamp <= f[b].stamp
  <2>1. live.last[f[b].market] # None /\ d[i].stamp <= live.last[f[b].market]
    BY <1>9, <1>11
  <2>2. live.last[f[b].market] <= f[b].stamp
    BY <1>1, <2>1, FeedInOrder
  <2>3. live.last[f[b].market] \in Nat /\ d[i].stamp \in Nat /\ f[b].stamp \in Nat
    BY <1>8, <1>10, <2>1
  <2> QED BY <2>1, <2>2, <2>3
<1>12. ASSUME NEW a \in 1..Len(f), NEW b \in 1..Len(f), a < b, f[a].market = f[b].market
       PROVE  f[a].stamp <= f[b].stamp
  BY <1>1, <1>12, FeedInOrder
<1>13. ASSUME NEW i \in 1..Len(e), NEW j \in 1..Len(e), i < j, e[i].market = e[j].market
       PROVE  e[i].stamp <= e[j].stamp
  <2>1. CASE j <= Len(d)
    <3>1. i \in 1..Len(d) /\ j \in 1..Len(d) /\ e[i] = d[i] /\ e[j] = d[j]
      BY <1>7, <1>13, <2>1
    <3> QED BY <1>9, <1>13, <3>1
  <2>2. CASE ~(j <= Len(d)) /\ i <= Len(d)
    <3>1. i \in 1..Len(d) /\ j - Len(d) \in 1..Len(f) /\ e[i] = d[i] /\ e[j] = f[j - Len(d)]
      BY <1>7, <1>13, <2>2
    <3> QED BY <1>11, <1>13, <3>1
  <2>3. CASE ~(j <= Len(d)) /\ ~(i <= Len(d))
    <3>1. /\ i - Len(d) \in 1..Len(f) /\ j - Len(d) \in 1..Len(f) /\ i - Len(d) < j - Len(d)
          /\ e[i] = f[i - Len(d)] /\ e[j] = f[j - Len(d)]
      BY <1>7, <1>13, <2>3
    <3> QED BY <1>12, <1>13, <3>1
  <2> QED BY <2>1, <2>2, <2>3
<1>14. ASSUME NEW i \in 1..Len(e)
       PROVE  last[e[i].market] # None /\ e[i].stamp <= last[e[i].market]
  <2> DEFINE k == e[i].market
  <2>1. CASE \E b \in 1..Len(f) : f[b].market = k
    <3>0. k \in Markets
      BY <1>8, <2>1
    <3>1. PICK j \in 1..Len(f) : /\ f[j].market = k
                                /\ \A a \in 1..Len(f) : f[a].market = k => a <= j
                                /\ last[k] = f[j].stamp
      BY <1>1, <2>1, <3>0 DEF LastOfFeed
    <3>2. last[k] # None
      BY <1>8, <3>1
    <3>3. CASE i <= Len(d)
      <4>1. i \in 1..Len(d) /\ e[i] = d[i]
        BY <1>7, <3>3
      <4> QED BY <1>11, <3>1, <3>2, <4>1
    <3>4. CASE ~(i <= Len(d))
      <4>1. i - Len(d) \in 1..Len(f) /\ e[i] = f[i - Len(d)]
        BY <1>7, <3>4
      <4>2. i - Len(d) <= j
        BY <3>1, <4>1
      <4>3. CASE i - Len(d) = j
        BY <1>8, <3>1, <3>2, <4>1, <4>3
      <4>4. CASE i - Len(d) < j
        BY <1>12, <3>1, <3>2, <4>1, <4>4
      <4> QED BY <1>7, <4>1, <4>2, <4>3, <4>4
    <3> QED BY <3>3, <3>4
  <2>2. CASE ~ \E b \in 1..Len(f) : f[b].market = k
    <3>1. i <= Len(d)
      <4>1. ~(i <= Len(d)) => i - Len(d) \in 1..Len(f) /\ e[i] = f[i - Len(d)]
        BY <1>7
      <4> QED BY <2>2, <4>1
    <3>2. i \in 1..Len(d) /\ e[i] = d[i] /\ k \in Markets
      BY <1>7, <1>8, <3>1
    <3>3. last[k] = live.last[k]
      BY <1>1, <2>2, <3>2 DEF LastOfFeed
    <3> QED BY <1>9, <3>2, <3>3
  <2> QED BY <2>1, <2>2
<1>15. DeliveredInOrder'
  BY <1>3, <1>13, <1>14 DEF DeliveredInOrder
<1> QED BY <1>5, <1>6, <1>15 DEF StreamInv

LEMMA StreamNext == ASSUME ShapeInv, StreamInv, [LiveNext]_liveVars PROVE StreamInv'
BY StreamSteps, StreamQuiet, StreamPublishes, StreamPassesOn, StreamDelivers DEF StreamStep

\* What the consumer got and can get is a prefix of what was published, and
\* in the order of time for each dataset, until a failure.
THEOREM StreamHolds == LiveSpec => []StreamInv
<1>1. LiveInit => StreamInv
  BY StreamInit
<1>2. ShapeInv /\ StreamInv /\ [LiveNext]_liveVars => StreamInv'
  BY StreamNext
<1> QED BY <1>1, <1>2, Shape, PTL DEF LiveSpec

\* Until a failure, every published update is with the consumer or in one of
\* the two queues, once and in order.
THEOREM NoUpdateLost == LiveSpec => []NothingLost
<1>1. StreamInv => NothingLost
  BY DEF StreamInv
<1> QED BY <1>1, StreamHolds, PTL

-----------------------------------------------------------------------------
(* The session implements its stream.                                      *)

LEMMA StreamStarts == LiveInit => Stream!StreamInit
BY DEF LiveInit, CcxtInit, Stream!StreamInit, Healthy

LEMMA PublishesRefines ==
  ASSUME ShapeInv, Publishes
  PROVE  Stream!Publish
<1>1. PICK rows \in Seq(Update) : rows # <<>> /\ published' = published \o rows
  BY DEF Publishes
<1>2. published \in Seq(Update) /\ Len(published) \in Nat
  BY LenProperties DEF ShapeInv, LiveTypeOK, CcxtTypeOK
<1>3. Len(rows) \in Nat \ {0}
  BY <1>1, EmptySeq
<1>4. /\ published' \in Seq(Update) /\ Len(published') = Len(published) + Len(rows)
      /\ \A i \in 1..Len(published) : published'[i] = published[i]
  BY <1>1, <1>2, <1>3, ConcatProperties
<1>5. SubSeq(published', 1, Len(published)) = published
  <2> DEFINE q == SubSeq(published', 1, Len(published))
  <2>1. \A i \in 1..Len(published) : published'[i] \in Update
    BY <1>2, <1>4, ElementOfSeq
  <2>2. /\ q \in Seq(Update)
        /\ Len(q) = IF 1 <= Len(published) THEN Len(published) - 1 + 1 ELSE 0
        /\ \A i \in 1..(Len(published) - 1 + 1) : q[i] = published'[1 + i - 1]
    BY <1>2, <2>1, SubSeqProperties
  <2>3. Len(q) = Len(published) /\ \A i \in 1..Len(q) : q[i] = published[i]
    BY <1>2, <1>4, <2>2
  <2> HIDE DEF q
  <2>4. q = published
    BY <1>2, <2>2, <2>3, SeqEqual
  <2> QED BY <2>4 DEF q
<1>6. Len(published') > Len(published)
  BY <1>2, <1>3, <1>4
<1> QED BY <1>5, <1>6 DEF Stream!Publish, Publishes, Healthy

LEMMA DeliversRefines ==
  ASSUME ShapeInv, StreamInv, Delivers
  PROVE  Stream!Deliver
<1> DEFINE n == Len(received)
<1>1. /\ Healthy /\ received \in Seq(Update) /\ live.queue \in Seq(Update)
      /\ live.queue # <<>> /\ published \in Seq(Update)
  BY StreamTypes DEF Delivers
<1>2. n \in Nat /\ Len(live.queue) \in Nat \ {0} /\ Head(live.queue) = live.queue[1]
  BY <1>1, EmptySeq, LenProperties
<1>3. /\ Len(Delivered) = n + Len(live.queue)
      /\ \A i \in 1..(n + Len(live.queue)) :
           Delivered[i] = IF i <= n THEN received[i] ELSE live.queue[i - n]
  BY <1>1, ConcatProperties DEF Delivered
<1>4. n + 1 \in 1..Len(Delivered) /\ Delivered[n + 1] = Head(live.queue)
  BY <1>2, <1>3
<1>5. /\ Len(Delivered) <= Len(published)
      /\ \A i \in 1..Len(Delivered) : Delivered[i] = published[i]
  BY <1>1 DEF StreamInv, BeginsPublished
<1>6. n < Len(published) /\ published[n + 1] = Head(live.queue)
  BY <1>1, <1>2, <1>3, <1>4, <1>5, LenProperties
<1>7. ASSUME NEW i \in 1..n, received[i].market = published[n + 1].market
      PROVE  received[i].stamp <= published[n + 1].stamp
  <2>1. i \in 1..Len(Delivered) /\ i < n + 1 /\ Delivered[i] = received[i]
    BY <1>2, <1>3
  <2> QED BY <1>1, <1>4, <1>6, <1>7, <2>1 DEF StreamInv, DeliveredInOrder
<1> QED BY <1>1, <1>6, <1>7 DEF Stream!Deliver, Delivers, Healthy

LEMMA StreamRefines ==
  ASSUME ShapeInv, StreamInv, [LiveNext]_liveVars
  PROVE  [Stream!Publish \/ Stream!Deliver \/ Stream!Fail]_(Stream!streamVars)
<1>1. CASE Quiet \/ PassesOn
  BY <1>1 DEF Quiet, PassesOn, Healthy, Stream!streamVars
<1>2. CASE Ends
  BY <1>2 DEF Ends, Healthy, Stream!Fail
<1> QED BY <1>1, <1>2, StreamSteps, PublishesRefines, DeliversRefines DEF StreamStep

\* With its tasks, queues and clients, the session is one ordered stream
\* without omissions that ends with its first failure.
THEOREM SessionIsStream == LiveSpec => ImplementsStream
<1>1. ShapeInv /\ StreamInv /\ [LiveNext]_liveVars =>
        [Stream!Publish \/ Stream!Deliver \/ Stream!Fail]_(Stream!streamVars)
  BY StreamRefines
<1> QED BY <1>1, StreamStarts, Shape, StreamHolds, PTL
    DEF LiveSpec, ImplementsStream, Stream!StreamSpec

-----------------------------------------------------------------------------
(* The clients that leaving closes.                                        *)

LEMMA LeakInit == LiveInit => LeakInv
BY DEF LiveInit, CcxtInit, LeakInv, LoadsAlone, CallsBeforeExit, OpenIsKnown, ExitPhase, At, Alone

LEMMA LeakKept ==
  ASSUME LeakInv, UNCHANGED <<native, shutdown, exit, sub>>,
         ccxt'.clients = ccxt.clients,
         live'.state \in {"created", "open"} => live.state \in {"created", "open"}
  PROVE  LeakInv'
BY DEF LeakInv, LoadsAlone, CallsBeforeExit, OpenIsKnown, ExitPhase, At, Alone, KnownToShutdown,
       UnderWay

LEMMA ClosesNextLeak ==
  ASSUME ShapeInv, LeakInv, NEW next \in Shutdown, ClosesNext(next),
         UNCHANGED <<sub, exit, live>>,
         shutdown.pc \in {"gathering", "closing"}, next.pc = shutdown.pc,
         shutdown.failed => next.failed,
         next.left \subseteq next.clients,
         \A s \in Subs : native'[s] = "open" => native[s] = "open",
         \A s \in Subs : native'[s] = "open" /\ Alone(s) /\ s \notin UnderWay =>
           ClientId(s) \in next.left
  PROVE  LeakInv'
<1>0. /\ ccxt \in CcxtFields /\ shutdown.pc \notin {"none", "ended"}
      /\ \A s \in Subs : ClientId(s) \in Clients /\ s # None
  BY LiveAssumption DEF ShapeInv, LiveTypeOK, CcxtTypeOK, ClientId
<1>1. \A s \in Subs : native'[s] = "open" /\ Alone(s) =>
        \/ s \in UnderWay
        \/ /\ At(s, "done") /\ ccxt.clients[ClientId(s)] = s
           /\ ClientId(s) \in Registered /\ ClientId(s) \in next.left
  BY <1>0 DEF LeakInv, OpenIsKnown, KnownToShutdown, Registered
<1>2. CASE Registered # next.clients
  <2>1. shutdown' = [next EXCEPT !.pc = "ended", !.failed = TRUE] /\ UNCHANGED ccxt
    BY <1>2 DEF ClosesNext
  <2>2. shutdown'.pc = "ended" /\ shutdown'.failed
    BY <2>1 DEF Shutdown
  <2>3. OpenIsKnown'
    BY <1>1, <2>2 DEF OpenIsKnown, KnownToShutdown, UnderWay, At, Alone
  <2>4. ExitPhase'
    BY <1>0, <2>2 DEF LeakInv, ExitPhase
  <2> QED BY <2>1, <2>3, <2>4 DEF LeakInv, LoadsAlone, CallsBeforeExit, At, Alone
<1>3. CASE Registered = next.clients /\ next.left = {}
  <2>1. /\ shutdown' = [next EXCEPT !.pc = "ended"]
        /\ ccxt' = [ccxt EXCEPT !.clients = [c \in Clients |-> None]]
    BY <1>3 DEF ClosesNext
  <2>2. shutdown'.pc = "ended" /\ ccxt'.clients = [c \in Clients |-> None]
    BY <1>0, <2>1 DEF Shutdown, CcxtFields
  <2>3. OpenIsKnown'
    BY <1>1, <1>3, <2>2 DEF OpenIsKnown, UnderWay, At, Alone
  <2>4. ExitPhase'
    BY <1>0, <2>2 DEF LeakInv, ExitPhase
  <2>5. LoadsAlone'
    BY <1>0, <2>2 DEF LeakInv, LoadsAlone, At, Alone
  <2> QED BY <2>3, <2>4, <2>5 DEF LeakInv, CallsBeforeExit, Alone
<1>4. CASE Registered = next.clients /\ next.left # {}
  <2>1. PICK c \in next.left :
          shutdown' = [next EXCEPT !.pc = "closing", !.left = @ \ {c},
                         !.closing = ccxt.clients[c]]
    BY <1>4 DEF ClosesNext
  <2>2. UNCHANGED ccxt
    BY <1>4 DEF ClosesNext
  <2>3. /\ shutdown'.pc = "closing" /\ shutdown'.left = next.left \ {c}
        /\ shutdown'.closing = ccxt.clients[c]
    BY <2>1 DEF Shutdown
  <2>4. OpenIsKnown'
    BY <1>1, <2>2, <2>3 DEF OpenIsKnown, KnownToShutdown, UnderWay, At, Alone
  <2>5. ExitPhase'
    BY <1>0, <2>3 DEF LeakInv, ExitPhase
  <2> QED BY <2>2, <2>4, <2>5 DEF LeakInv, LoadsAlone, CallsBeforeExit, At, Alone
<1> QED BY <1>2, <1>3, <1>4

LEMMA LeakTasks == ASSUME ShapeInv, LeakInv, CcxtTask, Aside PROVE LeakInv'
<1>0. UNCHANGED <<sub, exit, live>>
  BY DEF Aside
<1>1. CASE \E k \in Markets : WatchStarts(k) \/ WatchCancelled(k)
  BY <1>0, <1>1, LeakKept DEF WatchStarts, WatchCancelled
<1>2. CASE ShutdownStarts
  <2>1. /\ shutdown.pc = "created" /\ shutdown'.pc = "gathering" /\ UNCHANGED <<ccxt, native>>
    BY <1>2 DEF ShutdownStarts, ShapeInv, LiveTypeOK, CcxtTypeOK, Shutdown
  <2>2. OpenIsKnown'
    BY <1>0, <2>1 DEF LeakInv, OpenIsKnown, KnownToShutdown, UnderWay, At, Alone
  <2> QED BY <1>0, <2>1, <2>2 DEF LeakInv, LoadsAlone, CallsBeforeExit, ExitPhase, At, Alone
<1>3. CASE TasksGathered
  <2> DEFINE next == [shutdown EXCEPT !.clients = Registered, !.left = Registered]
  <2>1. /\ next \in Shutdown /\ next.pc = shutdown.pc /\ next.failed = shutdown.failed
        /\ next.left = Registered /\ next.clients = Registered
    BY DEF ShapeInv, LiveTypeOK, CcxtTypeOK, Registered, Shutdown
  <2>2. ClosesNext(next) /\ UNCHANGED native /\ shutdown.pc = "gathering"
    BY <1>3 DEF TasksGathered
  <2> HIDE DEF next
  <2>3. \A s \in Subs : native'[s] = "open" /\ Alone(s) /\ s \notin UnderWay =>
          ClientId(s) \in next.left
    BY <2>1, <2>2, LiveAssumption
    DEF Registered, ClientId, LeakInv, OpenIsKnown, KnownToShutdown
  <2> QED BY <1>0, <2>1, <2>2, <2>3, ClosesNextLeak
<1>4. ASSUME NEW raised \in BOOLEAN, CloseReturns(raised) PROVE LeakInv'
  <2> DEFINE next == [shutdown EXCEPT !.closing = None, !.failed = @ \/ raised]
  <2>1. /\ next \in Shutdown /\ next.pc = shutdown.pc /\ (shutdown.failed => next.failed)
        /\ next.left = shutdown.left /\ next.clients = shutdown.clients
    BY DEF ShapeInv, LiveTypeOK, CcxtTypeOK, Shutdown
  <2>2. ClosesNext(next) /\ shutdown.pc = "closing"
    BY <1>4 DEF CloseReturns
  <2>3. native' = [native EXCEPT ![shutdown.closing] = "closed"]
    BY <1>4 DEF CloseReturns
  <2> HIDE DEF next
  <2>4. \A s \in Subs : native'[s] = "open" => native[s] = "open" /\ s # shutdown.closing
    BY <2>3 DEF ShapeInv, LiveTypeOK, CcxtTypeOK
  <2>5. next.left \subseteq next.clients
    BY <2>1 DEF ShapeInv, ShutdownPhase
  <2>6. \A s \in Subs : native'[s] = "open" /\ Alone(s) /\ s \notin UnderWay =>
          ClientId(s) \in next.left
    BY <2>1, <2>2, <2>4 DEF LeakInv, OpenIsKnown, KnownToShutdown
  <2> QED BY <1>0, <2>1, <2>2, <2>4, <2>5, <2>6, ClosesNextLeak
<1> QED BY <1>1, <1>2, <1>3, <1>4 DEF CcxtTask

LEMMA LeakMoves ==
  ASSUME ShapeInv, LeakInv, NEW s \in Subs,
         Subscribe(s) \/ ResolveFails(s) \/ LoadFails(s) \/ LoadCancelled(s)
  PROVE  LeakInv'
<1>1. UNCHANGED <<ccxt, native, shutdown, live, exit>>
  BY DEF Subscribe, ResolveFails, LoadFails, LoadCancelled, ccxtVars
<1>2. PICK pc \in {"resolving", "closing", "unwinding", "done"} :
        /\ Goes(s, pc)
        /\ \/ At(s, "idle") /\ pc = "resolving" /\ live.state = "open"
           \/ At(s, "idle") /\ pc = "done"
           \/ At(s, "resolving") /\ pc = "done"
           \/ At(s, "loading") /\ pc \in {"closing", "unwinding"}
  BY DEF Subscribe, ResolveFails, LoadFails, LoadCancelled
<1>3. /\ sub'[s].pc = pc
      /\ \A t \in Subs : t # s => sub'[t].pc = sub[t].pc
      /\ \A t \in Subs : sub'[t].overlap = sub[t].overlap
  BY <1>2, Goes_
<1>4. \A t \in Subs : At(t, "loading")' => At(t, "loading")
  BY <1>2, <1>3 DEF At
<1>5. LoadsAlone'
  BY <1>1, <1>3, <1>4 DEF LeakInv, LoadsAlone, Alone
<1>6. CallsBeforeExit'
  BY <1>1, <1>2, <1>3 DEF LeakInv, CallsBeforeExit, Alone, At
<1>7. OpenIsKnown'
  BY <1>1, <1>2, <1>3 DEF LeakInv, OpenIsKnown, KnownToShutdown, UnderWay, At, Alone
<1> QED BY <1>1, <1>5, <1>6, <1>7 DEF LeakInv, ExitPhase

LEMMA LeakResolved == ASSUME ShapeInv, LeakInv, NEW s \in Subs, Resolved(s) PROVE LeakInv'
<1> DEFINE k == MarketOf[s]
<1>0. k \in Markets /\ At(s, "resolving") /\ UNCHANGED exit
  BY LiveAssumption DEF Resolved
<1>1. native[s] = "open" => ~Alone(s)
  BY <1>0 DEF LeakInv, OpenIsKnown, UnderWay, At
<1>2. CASE CcxtCreateClient(s) /\ live' = Routed(k)
           /\ sub' = [Overlaps(IF Overlapping(s) = {} THEN {}
                              ELSE Overlapping(s) \cup {s}, "call")
                       EXCEPT ![s].pc = "loading"]
  <2> DEFINE calls == IF Overlapping(s) = {} THEN {} ELSE Overlapping(s) \cup {s}
             o == Overlaps(calls, "call")
  <2>1. /\ o \in [Subs -> CallFrame]
        /\ \A t \in Subs : /\ o[t].pc = sub[t].pc
                           /\ sub[t].overlap # "none" => o[t].overlap # "none"
                           /\ t \in calls => o[t].overlap # "none"
                           /\ t \notin calls => o[t] = sub[t]
    BY OverlapsIs
  <2>2. sub' = [o EXCEPT ![s].pc = "loading"]
    BY <1>2
  <2>3. \A t \in Subs : At(t, "loading") /\ ClientId(t) = ClientId(s) => t \in calls /\ s \in calls
    BY DEF Overlapping
  <2> HIDE DEF calls, o
  <2>4. /\ sub'[s].pc = "loading" /\ \A t \in Subs : t # s => sub'[t].pc = sub[t].pc
        /\ \A t \in Subs : sub'[t].overlap = o[t].overlap
    BY <2>1, <2>2 DEF CallFrame
  <2>5. \A t \in Subs : Alone(t)' => Alone(t) /\ t \notin calls
    BY <2>1, <2>4 DEF Alone
  <2>6. /\ UNCHANGED <<ccxt, shutdown>> /\ ClientId(s) \notin Registered
        /\ \A t \in Subs : t # s => native'[t] = native[t]
    BY <1>2 DEF CcxtCreateClient, ShapeInv, LiveTypeOK, CcxtTypeOK
  <2>7. ccxt.clients[ClientId(s)] = None /\ \A t \in Subs : t # None
    BY <2>6, LiveAssumption DEF Registered, ClientId
  <2>8. LoadsAlone'
    <3>1. ASSUME NEW t \in Subs, At(t, "loading")', Alone(t)'
          PROVE  /\ ccxt'.clients[ClientId(t)] = None
                 /\ \A u \in Subs \ {t} : At(u, "loading")' => ClientId(u) # ClientId(t)
      <4>1. CASE t = s
        BY <2>3, <2>4, <2>5, <2>6, <2>7, <3>1, <4>1 DEF At
      <4>2. CASE t # s
        BY <2>3, <2>4, <2>5, <2>6, <2>7, <3>1, <4>2 DEF At, LeakInv, LoadsAlone
      <4> QED BY <4>1, <4>2
    <3>2. ASSUME NEW r \in Subs, NEW t \in Subs, At(t, "loading")', ccxt'.clients[ClientId(t)] = r
          PROVE  ~Alone(r)'
      BY <2>4, <2>5, <2>6, <2>7, <3>2 DEF At, LeakInv, LoadsAlone
    <3>3. \A t \in Subs : (At(t, "loading") /\ Alone(t))' =>
            /\ ccxt'.clients[ClientId(t)] = None
            /\ \A u \in Subs \ {t} : At(u, "loading")' => ClientId(u) # ClientId(t)
      BY <3>1
    <3>4. \A r, t \in Subs : At(t, "loading")' /\ ccxt'.clients[ClientId(t)] = r => ~Alone(r)'
      BY <3>2
    <3> QED BY <3>3, <3>4 DEF LoadsAlone, ClientId
  <2>9. CallsBeforeExit'
    <3>1. live'.state = live.state
      BY <1>0, <1>2, RoutingIs
    <3>2. \A t \in Subs : (sub'[t].pc \notin {"idle", "done"} /\ Alone(t)') =>
            sub[t].pc \notin {"idle", "done"} /\ Alone(t)
      BY <1>0, <2>4, <2>5 DEF At
    <3> QED BY <1>0, <3>1, <3>2 DEF LeakInv, CallsBeforeExit
  <2>10. OpenIsKnown'
    <3> SUFFICES ASSUME NEW t \in Subs, native'[t] = "open", Alone(t)'
                 PROVE  (t \in UnderWay \/ (At(t, "done") /\ KnownToShutdown(t)))'
      BY DEF OpenIsKnown
    <3>1. CASE t = s
      BY <2>4, <3>1 DEF UnderWay
    <3>2. CASE t # s
      <4>1. t \in UnderWay \/ (At(t, "done") /\ KnownToShutdown(t))
        BY <2>5, <2>6, <3>2 DEF LeakInv, OpenIsKnown
      <4> QED BY <2>4, <2>6, <3>2, <4>1 DEF UnderWay, At, KnownToShutdown
    <3> QED BY <3>1, <3>2
  <2> QED BY <1>0, <2>6, <2>8, <2>9, <2>10 DEF LeakInv, ExitPhase
<1>3. CASE /\ Goes(s, "done") /\ UNCHANGED <<native, shutdown>>
           /\ ccxt'.clients = ccxt.clients /\ live'.state = live.state
  <2>1. /\ sub'[s].pc = "done" /\ \A t \in Subs : t # s => sub'[t].pc = sub[t].pc
        /\ \A t \in Subs : sub'[t].overlap = sub[t].overlap
    BY <1>3, Goes_
  <2>2. LoadsAlone' /\ CallsBeforeExit'
    BY <1>0, <1>3, <2>1 DEF LeakInv, LoadsAlone, CallsBeforeExit, Alone, At, ClientId
  <2>3. OpenIsKnown'
    BY <1>1, <1>3, <2>1 DEF LeakInv, OpenIsKnown, KnownToShutdown, UnderWay, At, Alone, ClientId
  <2> QED BY <1>0, <1>3, <2>2, <2>3 DEF LeakInv, ExitPhase
<1>4. \/ CcxtReuseClient(s) /\ Completed(s, Routed(k))
      \/ CcxtCreateClient(s) /\ live' = Routed(k)
         /\ sub' = [Overlaps(IF Overlapping(s) = {} THEN {}
                            ELSE Overlapping(s) \cup {s}, "call")
                     EXCEPT ![s].pc = "loading"]
      \/ Goes(s, "done") /\ UNCHANGED ccxtVars /\ (UNCHANGED live \/ live' = Unrouted(k))
  BY DEF Resolved
<1>5. CASE CcxtReuseClient(s) /\ Completed(s, Routed(k))
  <2>1. Goes(s, "done") /\ live'.state = live.state
    BY <1>0, <1>5, RoutingIs, CompletedShape DEF Completed
  <2>2. ccxt'.clients = ccxt.clients /\ UNCHANGED <<native, shutdown>>
    BY <1>5 DEF CcxtReuseClient, CcxtSubscribe, ShapeInv, LiveTypeOK, CcxtTypeOK, CcxtFields
  <2> QED BY <1>3, <2>1, <2>2
<1>6. CASE Goes(s, "done") /\ UNCHANGED ccxtVars /\ (UNCHANGED live \/ live' = Unrouted(k))
  <2>1. live'.state = live.state
    BY <1>0, <1>6, RoutingIs
  <2> QED BY <1>3, <1>6, <2>1 DEF ccxtVars
<1> QED BY <1>2, <1>4, <1>5, <1>6

LEMMA LeakMarketsLoaded ==
  ASSUME ShapeInv, LeakInv, NEW s \in Subs, MarketsLoaded(s) PROVE LeakInv'
<1>1. At(s, "loading") /\ CcxtRegisterClient(s) /\ Completed(s, live) /\ UNCHANGED exit
  BY DEF MarketsLoaded
<1>2. Goes(s, "done") /\ live'.state = live.state
  BY <1>1, CompletedShape, ShapeBefore DEF Completed
<1>3. /\ sub'[s].pc = "done" /\ \A t \in Subs : t # s => sub'[t].pc = sub[t].pc
      /\ \A t \in Subs : sub'[t].overlap = sub[t].overlap
  BY <1>2, Goes_
<1>4. /\ ccxt'.clients = [ccxt.clients EXCEPT ![ClientId(s)] = s]
      /\ UNCHANGED <<native, shutdown>>
      /\ ClientId(s) \in Clients /\ s # None
  BY <1>1, LiveAssumption
  DEF CcxtRegisterClient, CcxtSubscribe, ShapeInv, LiveTypeOK, CcxtTypeOK, CcxtFields, ClientId
<1>5. /\ ccxt'.clients[ClientId(s)] = s
      /\ \A t \in Subs : ClientId(t) # ClientId(s) =>
           ccxt'.clients[ClientId(t)] = ccxt.clients[ClientId(t)]
  BY <1>4, LiveAssumption DEF ShapeInv, LiveTypeOK, CcxtTypeOK, CcxtFields, ClientId
<1>6. \A t \in Subs : At(t, "loading")' => At(t, "loading") /\ t # s
  BY <1>3 DEF At
<1>7. \A t \in Subs : Alone(t)' <=> Alone(t)
  BY <1>3 DEF Alone
<1>8. LoadsAlone'
  <2>1. ASSUME NEW t \in Subs, At(t, "loading")', Alone(t)
        PROVE  /\ ccxt'.clients[ClientId(t)] = None
               /\ \A u \in Subs \ {t} : At(u, "loading")' => ClientId(u) # ClientId(t)
    BY <1>1, <1>5, <1>6, <2>1 DEF LeakInv, LoadsAlone
  <2>2. ASSUME NEW r \in Subs, NEW t \in Subs, At(t, "loading")', ccxt'.clients[ClientId(t)] = r
        PROVE  ~Alone(r)
    <3>1. CASE ClientId(t) = ClientId(s)
      BY <1>1, <1>5, <1>6, <2>2, <3>1 DEF LeakInv, LoadsAlone
    <3>2. CASE ClientId(t) # ClientId(s)
      BY <1>5, <1>6, <2>2, <3>2 DEF LeakInv, LoadsAlone
    <3> QED BY <3>1, <3>2
  <2>3. \A t \in Subs : At(t, "loading")' /\ Alone(t)' =>
          /\ ccxt'.clients[ClientId(t)] = None
          /\ \A u \in Subs \ {t} : At(u, "loading")' => ClientId(u) # ClientId(t)
    BY <1>7, <2>1
  <2>4. \A r, t \in Subs : At(t, "loading")' /\ ccxt'.clients[ClientId(t)] = r => ~Alone(r)'
    BY <1>7, <2>2
  <2> QED BY <2>3, <2>4 DEF LoadsAlone, ClientId
<1>9. CallsBeforeExit'
  BY <1>1, <1>2, <1>3, <1>7 DEF LeakInv, CallsBeforeExit
<1>10. OpenIsKnown'
  <2> SUFFICES ASSUME NEW t \in Subs, native'[t] = "open", Alone(t)'
               PROVE  (t \in UnderWay \/ (At(t, "done") /\ KnownToShutdown(t)))'
    BY DEF OpenIsKnown
  <2>1. CASE t = s
    <3>1. exit.pc = "none" /\ shutdown.pc = "none"
      BY <1>1, <1>7, <2>1 DEF LeakInv, CallsBeforeExit, ExitPhase, At
    <3> QED BY <1>3, <1>4, <1>5, <2>1, <3>1 DEF At, KnownToShutdown, ClientId
  <2>2. CASE t # s
    <3>1. t \in UnderWay \/ (At(t, "done") /\ KnownToShutdown(t))
      BY <1>4, <1>7 DEF LeakInv, OpenIsKnown
    <3>2. ccxt.clients[ClientId(t)] = t => ClientId(t) # ClientId(s)
      BY <1>1, <1>7 DEF LeakInv, LoadsAlone
    <3> QED BY <1>3, <1>4, <1>5, <2>2, <3>1, <3>2 DEF UnderWay, At, KnownToShutdown, ClientId
  <2> QED BY <2>1, <2>2
<1> QED BY <1>1, <1>4, <1>8, <1>9, <1>10 DEF LeakInv, ExitPhase

LEMMA LeakCallEnds ==
  ASSUME ShapeInv, LeakInv, NEW s \in Subs,
         LoadFailureClosed(s) \/ CancelledClosed(s) \/ CloseCancelled(s)
  PROVE  LeakInv'
<1>0. MarketOf[s] \in Markets /\ "cancelled" \in Failures
  BY LiveAssumption DEF Failures
<1>1. /\ ~At(s, "loading") /\ Goes(s, "done") /\ UNCHANGED exit
      /\ \E how \in {"closed", "interrupted"} : CcxtCloseClient(s, how)
  BY DEF LoadFailureClosed, CancelledClosed, CloseCancelled, ActivationCancelled, At
<1>2. /\ UNCHANGED <<ccxt, shutdown>> /\ native'[s] # "open"
      /\ \A t \in Subs : t # s => native'[t] = native[t]
  BY <1>1 DEF CcxtCloseClient, ShapeInv, LiveTypeOK, CcxtTypeOK
<1>3. /\ sub'[s].pc = "done" /\ \A t \in Subs : t # s => sub'[t].pc = sub[t].pc
      /\ \A t \in Subs : sub'[t].overlap = sub[t].overlap
  BY <1>1, Goes_
<1>4. live'.state = live.state \/ live'.state = "failed"
  <2>1. live' = Unrouted(MarketOf[s]) \/ live' = PublishFailure(Unrouted(MarketOf[s]), "cancelled")
    BY DEF LoadFailureClosed, CancelledClosed, CloseCancelled, ActivationCancelled
  <2> QED BY <1>0, <2>1, RoutingIs, PublishFailureIs
<1>5. LoadsAlone' /\ CallsBeforeExit'
  BY <1>1, <1>2, <1>3, <1>4 DEF LeakInv, LoadsAlone, CallsBeforeExit, Alone, At
<1>6. OpenIsKnown'
  BY <1>2, <1>3 DEF LeakInv, OpenIsKnown, KnownToShutdown, UnderWay, At, Alone
<1> QED BY <1>1, <1>2, <1>5, <1>6 DEF LeakInv, ExitPhase

\* The reader, the consumer, the venue and the entry leave the clients alone.
LEMMA LeakRest ==
  ASSUME ShapeInv, LeakInv,
         \/ ReaderStarts \/ ReaderReads \/ ReaderCancelled
         \/ Enter \/ EnterFails \/ Ask \/ Wake \/ GiveUp
         \/ Venue
  PROVE  LeakInv'
<1>0. live \in Session /\ ccxt \in CcxtFields
  BY DEF ShapeInv, LiveTypeOK, CcxtTypeOK
<1>1. CASE ReaderStarts \/ ReaderCancelled
  <2>1. UNCHANGED <<ccxt, native, shutdown, exit, sub>>
    BY <1>1 DEF ReaderStarts, ReaderCancelled, ccxtVars
  <2>2. UNCHANGED live \/ live' = PublishFailure(live, "stream")
    BY <1>1 DEF ReaderStarts, ReaderCancelled, ReaderFails
  <2>3. live'.state = live.state \/ live'.state = "failed"
    BY <1>0, <2>2, PublishFailureIs DEF Failures
  <2> QED BY <2>1, <2>3, LeakKept
<1>2. CASE ReaderReads
  <2>1. UNCHANGED <<native, shutdown, exit, sub>>
    BY <1>2, ReaderReadsIs
  <2>2. CASE \E n \in 1..Len(ccxt.feed), why \in Failures : ReadsUpTo(n, why)
    <3>1. PICK n \in 1..Len(ccxt.feed), why \in Failures : ReadsUpTo(n, why)
      BY <2>2
    <3>2. ccxt' = [ccxt EXCEPT !.feed = SubSeq(@, n + 1, Len(@))]
      BY <3>1 DEF ReadsUpTo
    <3>3. ccxt'.clients = ccxt.clients
      BY <3>2, FeedAfterRead
    <3>4. live'.state = live.state \/ live'.state = "failed"
      BY <1>0, <3>1, PublishFailureIs DEF ReadsUpTo, ReaderFails
    <3> QED BY <2>1, <3>3, <3>4, LeakKept
  <2>3. CASE ReadsAll
    <3>1. PICK last \in [Markets -> Stamps \cup {None}] :
            live' = Moved(last) \/ live' = PublishFailure(Moved(last), "ended")
      BY <2>3 DEF ReadsAll, ReaderFails
    <3>2. live'.state = live.state \/ live'.state = "failed"
      <4> DEFINE m == Moved(last)
      <4>1. /\ m \in Session /\ m.state = live.state
            /\ live' = m \/ live' = PublishFailure(m, "ended")
        BY <3>1, MovedIs
      <4>2. "ended" \in Failures
        BY DEF Failures
      <4> HIDE DEF m
      <4> QED BY <4>1, <4>2, PublishFailureIs
    <3>3. ccxt'.clients = ccxt.clients
      BY <1>0, <2>3 DEF ReadsAll, CcxtFields
    <3> QED BY <2>1, <3>2, <3>3, LeakKept
  <2> QED BY <1>2, <2>2, <2>3, ReaderReadsIs
<1>3. CASE Enter \/ EnterFails
  <2>1. UNCHANGED <<native, shutdown, exit, sub>> /\ ccxt'.clients = ccxt.clients
    BY <1>0, <1>3 DEF Enter, EnterFails, ccxtVars, CcxtFields
  <2>2. live.state = "created"
    BY <1>3 DEF Enter, EnterFails
  <2> QED BY <2>1, <2>2, LeakKept
<1>4. CASE Ask \/ Wake \/ GiveUp
  <2>1. UNCHANGED <<ccxt, native, shutdown, exit, sub>>
    BY <1>4 DEF Ask, Wake, GiveUp, ccxtVars
  <2>2. live'.state = live.state
    BY <1>0, <1>4, TakeIs DEF Ask, Wake, GiveUp, Session
  <2> QED BY <2>1, <2>2, LeakKept
<1>5. CASE Venue
  <2>1. UNCHANGED <<live, exit, sub>>
    BY <1>5 DEF Venue
  <2>2. UNCHANGED <<native, shutdown>> /\ ccxt'.clients = ccxt.clients
    BY <1>0, <1>5 DEF Venue, CcxtVenue, WatchFails, WatchReturns, FeedFails, CcxtFields
  <2> QED BY <2>1, <2>2, LeakKept
<1> QED BY <1>1, <1>2, <1>3, <1>4, <1>5

\* Leaving: every call under way is marked, the shutdown begins once, and its
\* failure is reported.
LEMMA LeakLeaves ==
  ASSUME ShapeInv, LeaveProvider
  PROVE  /\ ccxt'.clients = ccxt.clients /\ UNCHANGED native
         /\ shutdown'.pc = "created"
         /\ live'.state = IF exit.pc = "none" THEN "closing" ELSE live.state
BY ExitShape DEF LeaveProvider, CcxtExit, ShapeInv, LiveTypeOK, CcxtTypeOK, Session, Shutdown

LEMMA LeakExitBegins ==
  ASSUME ShapeInv, LeakInv, NEW bodyRaised \in BOOLEAN, ExitBegins(bodyRaised)
  PROVE  LeakInv'
<1> DEFINE calls == {s \in Subs : sub[s].pc \notin {"idle", "done"}}
<1>1. sub' = Overlaps(calls, "exit") /\ exit.pc = "none"
  BY DEF ExitBegins
<1>2. shutdown.pc = "none"
  BY <1>1 DEF LeakInv, ExitPhase
<1>3. /\ exit'.pc \in {"reader", "provider"}
      /\ exit'.pc = "reader" => UNCHANGED <<ccxt, native, shutdown>> /\ live'.state = "closing"
      /\ exit'.pc = "provider" => LeaveProvider
  BY DEF ExitBegins, ShapeInv, LiveTypeOK, Session, ExitFrame, ccxtVars
<1>4. /\ ccxt'.clients = ccxt.clients /\ UNCHANGED native
      /\ live'.state = "closing"
      /\ exit'.pc = "reader" => shutdown'.pc = "none"
      /\ exit'.pc = "provider" => shutdown'.pc = "created"
  BY <1>1, <1>2, <1>3, LeakLeaves
<1>5. \A t \in Subs : /\ sub'[t].pc = sub[t].pc
                      /\ sub'[t].overlap = "none" => sub[t].overlap = "none" /\ t \notin calls
  <2> HIDE DEF calls
  <2> QED BY <1>1, OverlapsIs
<1>6. \A t \in Subs : t \notin calls => sub[t].pc \in {"idle", "done"}
  OBVIOUS
<1> HIDE DEF calls
<1>7. LoadsAlone'
  BY <1>4, <1>5, <1>6 DEF LeakInv, LoadsAlone, At, Alone
<1>8. CallsBeforeExit'
  BY <1>4, <1>5, <1>6 DEF CallsBeforeExit, Alone
<1>9. OpenIsKnown'
  BY <1>2, <1>3, <1>4, <1>5, <1>6
  DEF LeakInv, OpenIsKnown, KnownToShutdown, UnderWay, At, Alone
<1>10. ExitPhase'
  BY <1>3, <1>4 DEF ExitPhase
<1> QED BY <1>7, <1>8, <1>9, <1>10 DEF LeakInv

LEMMA LeakExit ==
  ASSUME ShapeInv, LeakInv, ReaderAwaited \/ ExitCancelled \/ ExitReturns
  PROVE  LeakInv'
<1>0. exit \in ExitFrame /\ live \in Session /\ UNCHANGED sub
  BY DEF ShapeInv, LiveTypeOK, ReaderAwaited, ExitCancelled, ExitReturns
<1>1. CASE ReaderAwaited
  <2>1. /\ exit.pc = "reader" /\ exit'.pc = "provider"
        /\ LeaveProvider
    BY <1>0, <1>1 DEF ReaderAwaited, ExitFrame
  <2>2. /\ ccxt'.clients = ccxt.clients /\ UNCHANGED native
        /\ shutdown.pc = "none" /\ shutdown'.pc = "created" /\ live'.state = live.state
    BY <2>1, LeakLeaves DEF LeakInv, ExitPhase
  <2>3. OpenIsKnown'
    BY <1>0, <2>1, <2>2 DEF LeakInv, OpenIsKnown, KnownToShutdown, UnderWay, At, Alone
  <2> QED BY <1>0, <2>1, <2>2, <2>3
          DEF LeakInv, LoadsAlone, CallsBeforeExit, ExitPhase, At, Alone
<1>2. CASE ExitCancelled
  <2>1. /\ exit'.pc = exit.pc /\ exit'.cleanup /\ UNCHANGED <<ccxt, native, shutdown, live>>
    BY <1>0, <1>2 DEF ExitCancelled, ExitFrame, ccxtVars
  <2> QED BY <1>0, <2>1 DEF LeakInv, LoadsAlone, CallsBeforeExit, OpenIsKnown, ExitPhase, At,
                            Alone, KnownToShutdown, UnderWay
<1>3. CASE ExitReturns
  <2>1. /\ exit.pc = "provider" /\ shutdown.pc = "ended" /\ exit'.pc = "done"
        /\ live'.state = "closed" /\ UNCHANGED <<ccxt, native, shutdown>>
        /\ shutdown.failed => exit'.cleanup
    BY <1>0, <1>3 DEF ExitReturns, ExitFrame, Session, ccxtVars
  <2> QED BY <1>0, <2>1 DEF LeakInv, LoadsAlone, CallsBeforeExit, OpenIsKnown, ExitPhase, At,
                            Alone, KnownToShutdown, UnderWay
<1> QED BY <1>1, <1>2, <1>3

LEMMA LeakNext == ASSUME ShapeInv, LeakInv, [LiveNext]_liveVars PROVE LeakInv'
<1>1. CASE UNCHANGED liveVars
  BY <1>1, LeakKept DEF liveVars
<1>2. CASE Scheduled
  BY <1>2, LeakTasks, LeakCallEnds, LeakRest, LeakExit DEF Scheduled, Aside
<1>3. CASE Outside
  BY <1>3, LeakRest, LeakMoves, LeakResolved, LeakMarketsLoaded, LeakCallEnds,
     LeakExitBegins, LeakExit
  DEF Outside
<1> QED BY <1>1, <1>2, <1>3 DEF LiveNext

\* An exit without a cleanup error has closed the client of every call that
\* overlapped neither the exit nor another activation of that client: the
\* only leaks are those two.
THEOREM NoOtherLeak == LiveSpec => []OnlyOverlapsLeak
<1>1. LiveInit => LeakInv
  BY LeakInit
<1>2. ShapeInv /\ LeakInv /\ [LiveNext]_liveVars => LeakInv'
  BY LeakNext
<1>3. LeakInv => OnlyOverlapsLeak
  BY DEF LeakInv, OnlyOverlapsLeak, OpenIsKnown, KnownToShutdown, ExitPhase, CallsBeforeExit,
         UnderWay, Alone
<1> QED BY <1>1, <1>2, <1>3, Shape, PTL DEF LiveSpec
=============================================================================
