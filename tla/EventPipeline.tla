--------------------------- MODULE EventPipeline ---------------------------
(***************************************************************************)
(* The way of an event through both services: booking-service commits it   *)
(* and its relays write it to the topic (EventTopic, which OutboxRelay     *)
(* implements), the consumer of notification-service reads the topic       *)
(* (NotificationConsumer).  The two meet in `log'.                         *)
(*                                                                         *)
(* shared/events fixes what they agree on: the topic, the types and the    *)
(* fields of an event.  An event of the outbox is therefore at once the    *)
(* key of its notification.                                                *)
(***************************************************************************)
EXTENDS NotificationConsumer

VARIABLES announced,  \* events booking-service has committed
          skipped     \* events whose INSERT has failed (history)

pipelineVars == <<vars, announced, skipped>>

Topic == INSTANCE EventTopic WITH Facts <- Keys, Noise <- {Invalid, Unknown}

PipelineInit == Init /\ announced = {} /\ skipped = {}

BookingStep ==
    /\ Topic!Next
    /\ UNCHANGED <<consumerVars, dataVars, failures, skipped>>

NotificationStep ==
    /\ Consume
    /\ skipped' = IF at = "insert" /\ at' = "commit" /\ failures' > failures
                  THEN skipped \cup {Key} ELSE skipped
    /\ UNCHANGED announced

PipelineNext == BookingStep \/ NotificationStep

\* Committed events are published (OutboxRelay!EveryEventSent), and the
\* consumer is scheduled.
PipelineSpec ==
    /\ PipelineInit
    /\ [][PipelineNext]_pipelineVars
    /\ Topic!Fairness
    /\ Fairness

(***************************************************************************)
(* Properties, besides those of NotificationConsumer.                      *)
(***************************************************************************)
Delivery == INSTANCE EventDelivery WITH
    Facts <- Keys,
    known <- {k \in Keys : stored[k] # None},
    shown <- {k \in Keys : broadcasts[k] > 0}

\* Both services together implement EventDelivery: a user is told of what was
\* committed only, first by a stored notification, and nothing is taken back,
\* whatever is repeated, lost or restarted on the way.
ImplementsDelivery == Delivery!Spec

\* The one way to miss an event for good is a failed INSERT (the consumer
\* commits the offset all the same): any other event that booking-service has
\* committed becomes a notification, through every other failure of a commit,
\* a fetch, a group or a process.  Without failures it is broadcast too, also
\* if the service was signalled between the two.
EveryFactKnown ==
    <>[](phase = "running") =>
        \A k \in Keys : k \in announced ~>
            \/ stored[k] # None /\ (broadcasts[k] = 1 \/ failures > 0)
            \/ k \in skipped
=============================================================================
