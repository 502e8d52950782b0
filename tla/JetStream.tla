------------------------------ MODULE JetStream ------------------------------
(***************************************************************************)
(* One JetStream stream, as the code of packages/events uses it (external: *)
(* the broker is not part of the repository).  A message is identified by  *)
(* its Nats-Msg-Id.  The relay publishes an outbox row under the row's own *)
(* event id ([ev |-> e, r |-> 0]); dlq-replay publishes the event of dead  *)
(* letter n under "<event id>.r<n>" ([ev |-> e, r |-> n]).  The body of a  *)
(* message is its event, so the identifier alone represents the message.   *)
(*                                                                         *)
(* The broker drops a publish whose identifier it stored within the last   *)
(* two minutes (the de-duplication window) and still answers a PubAck.     *)
(* The window is the suffix of the stream that starts at `window'.         *)
(***************************************************************************)
EXTENDS Naturals, Sequences

CONSTANTS Events,      \* the events of one tenant, ordered by (event_time, event_id)
          Agg,         \* Agg[e]: the aggregate the event is about
          Ver,         \* Ver[e]: the aggregate_version the event carries
          MaxStream    \* bound: no message is stored past this stream length

ASSUME EventsAssumption == /\ Events \subseteq Nat \ {0}
                           /\ DOMAIN Agg = Events
                           /\ Ver \in [Events -> Nat \ {0}]
                           /\ MaxStream \in Nat

VARIABLES stream,      \* the stored messages; the stream sequence is the index
          window       \* the first stream sequence still inside the de-duplication window

brokerVars == <<stream, window>>

MsgId == [ev : Events, r : Nat]

\* The identifier an outbox row is published under: its own event_id.
RowMsg(e) == [ev |-> e, r |-> 0]

BrokerTypeOK == /\ stream \in Seq(MsgId)
                /\ window \in Nat \ {0}

BrokerInit == /\ stream = << >>
              /\ window = 1

\* The broker still remembers the identifier m.
Held(m) == \E i \in window .. Len(stream) : stream[i] = m

\* Message m was stored at some time since the stream was created.
Stored(m) == \E i \in 1 .. Len(stream) : stream[i] = m

\* A copy of event e is stored at sequence lo or later.
StoredFrom(e, lo) == \E i \in 1 .. Len(stream) : i >= lo /\ stream[i].ev = e

\* js.publish reaches the broker: stored, or recognised as a duplicate.
Publish(m) == /\ stream' = IF Held(m) THEN stream ELSE Append(stream, m)
              /\ window' = window

\* The bound leaves room for m.
Room(m) == Held(m) \/ Len(stream) < MaxStream

\* The oldest remembered identifier leaves the de-duplication window.
WindowSlides == /\ window <= Len(stream)
                /\ window' = window + 1
                /\ stream' = stream

\* e is an earlier version of the aggregate of f.
Earlier(e, f) == Agg[e] = Agg[f] /\ Ver[e] < Ver[f]
=============================================================================
