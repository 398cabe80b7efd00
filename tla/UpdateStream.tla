---------------------------- MODULE UpdateStream ----------------------------
(***************************************************************************)
(* What a live session promises its consumer, without tasks, queues or     *)
(* clients: updates come in the order they were published, none is left    *)
(* out before one that comes, time never runs backwards for one market,    *)
(* and a failure is the end.                                               *)
(***************************************************************************)
EXTENDS Naturals, Sequences

VARIABLES
  published,  \* the updates in the order the providers' clients gave them
  delivered,  \* the updates the consumer got
  failed      \* the session has failed

streamVars == <<published, delivered, failed>>

StreamInit == published = <<>> /\ delivered = <<>> /\ failed = FALSE

Publish ==
  /\ Len(published') > Len(published)
  /\ SubSeq(published', 1, Len(published)) = published
  /\ UNCHANGED <<delivered, failed>>

Deliver ==
  /\ ~failed
  /\ Len(delivered) < Len(published)
  /\ LET update == published[Len(delivered) + 1] IN
       /\ delivered' = Append(delivered, update)
       /\ \A i \in 1..Len(delivered) :
            delivered[i].market = update.market => delivered[i].stamp <= update.stamp
  /\ UNCHANGED <<published, failed>>

Fail ==
  /\ ~failed
  /\ failed' = TRUE
  /\ UNCHANGED <<published, delivered>>

StreamSpec == StreamInit /\ [][Publish \/ Deliver \/ Fail]_streamVars
=============================================================================
