------------------------------ MODULE Channels ------------------------------
(***************************************************************************)
(* The functions of src/exercises/01_concurrency_sync/03_channel (threads) *)
(* and of src/exercises/05_async_programming/03_async_channel (tasks on a  *)
(* bounded channel): producers send, the caller receives until no sender   *)
(* is left.  A message is <<producer, index>>.                             *)
(***************************************************************************)
EXTENDS Naturals, Sequences

CONSTANTS
    MaxProducers,   \* bound: producers of multi_producer and fan_in
    MaxItems        \* bound: items of simple_send_recv and producer_consumer

VARIABLES
    call,       \* the function called and its argument
    main,       \* the caller's pc
    spawned,    \* how many producers have been spawned
    tx,         \* the live senders: 0 is the one that channel() returned
    sent,       \* how many messages each producer has sent
    channel,    \* the messages sent and not yet received
    received

vars == <<call, main, spawned, tx, sent, channel, received>>

Producers == 1..MaxProducers
Unbounded == 1 + MaxProducers + MaxItems   \* more than is ever sent
AtLeast1(n) == IF n = 0 THEN 1 ELSE n

\* One producer of many items, to which the sender moves, or many producers of
\* one message, which get clones; max(1): tokio's channel panics on 0.
OneProducer == {"simple_send_recv", "producer_consumer"}
Async == {"producer_consumer", "fan_in"}
Calls ==
    [fn : OneProducer, producers : {1}, items : 0..MaxItems] \cup
    [fn : {"multi_producer", "fan_in"}, producers : 0..MaxProducers, items : {1}]
Capacity ==
    IF call.fn \notin Async THEN Unbounded
    ELSE AtLeast1(call.producers * call.items)

-----------------------------------------------------------------------------
Init ==
    /\ call = <<>> /\ main = "idle" /\ spawned = 0 /\ tx = {}
    /\ sent = [p \in Producers |-> 0]
    /\ channel = <<>> /\ received = <<>>

Call ==
    /\ main = "idle" /\ main' = "spawn"
    /\ call' \in Calls
    /\ tx' = {0}
    /\ UNCHANGED <<spawned, sent, channel, received>>

SpawnWithTx ==
    /\ main = "spawn" /\ call.fn \in OneProducer
    /\ spawned' = 1 /\ tx' = {1}
    /\ main' = "receive"
    /\ UNCHANGED <<call, sent, channel, received>>

\* The producers that are spawned already send meanwhile.
SpawnWithClone ==
    /\ main = "spawn" /\ call.fn \notin OneProducer /\ spawned < call.producers
    /\ spawned' = spawned + 1 /\ tx' = tx \cup {spawned'}
    /\ UNCHANGED <<call, main, sent, channel, received>>

\* drop(tx).
KeepTx == tx  \* mutant
Dropped == tx \ {0}

DropTx ==
    /\ main = "spawn" /\ call.fn \notin OneProducer /\ spawned = call.producers
    /\ tx' = Dropped
    /\ main' = "receive"
    /\ UNCHANGED <<call, spawned, sent, channel, received>>

Recv ==
    /\ main = "receive" /\ channel # <<>>
    /\ received' = Append(received, Head(channel))
    /\ channel' = Tail(channel)
    /\ UNCHANGED <<call, main, spawned, tx, sent>>

\* recv() ends when no message and no sender is left; multi_producer and
\* fan_in sort what they return.
NobodySends == tx = {}  \* mutant: messages may be left
Disconnected == channel = <<>> /\ tx = {}

Return ==
    /\ main = "receive" /\ Disconnected
    /\ main' = "returned"
    /\ UNCHANGED <<call, spawned, tx, sent, channel, received>>

\* The future of an async function is dropped where it waits, and with it the
\* receiver and the messages it has not seen.
Cancel ==
    /\ main = "receive" /\ call.fn \in Async
    /\ main' = "cancelled" /\ channel' = <<>>
    /\ UNCHANGED <<call, spawned, tx, sent, received>>

-----------------------------------------------------------------------------
(* A producer *)

Send(p) ==
    /\ p \in tx \ {0} /\ sent[p] < call.items
    /\ main # "cancelled" /\ Len(channel) < Capacity
    /\ sent' = [sent EXCEPT ![p] = @ + 1]
    /\ channel' = Append(channel, <<p, sent'[p]>>)
    /\ UNCHANGED <<call, main, spawned, tx, received>>

\* The sender is dropped at the end of the closure, or when unwrap() panics
\* because the receiver is gone.
Finish(p) ==
    /\ p \in tx \ {0}
    /\ sent[p] = call.items \/ main = "cancelled"
    /\ tx' = tx \ {p}
    /\ UNCHANGED <<call, main, spawned, sent, channel, received>>

MainStep == SpawnWithTx \/ SpawnWithClone \/ DropTx \/ Recv \/ Return
Next ==
    \/ Call \/ MainStep \/ Cancel
    \/ \E p \in Producers : Send(p) \/ Finish(p)

\* Threads and tasks are scheduled again and again.
Fairness ==
    /\ WF_vars(MainStep)
    /\ \A p \in Producers : WF_vars(Send(p) \/ Finish(p))

-----------------------------------------------------------------------------
\* CallEnds: the call comes to its end, unless it is dropped.
CallEnds == main = "spawn" ~> main \in {"returned", "cancelled"}

\* ReceivesAll: when it returns, it has received every message of every
\* producer once, a producer's in its order.
ReceivesAll ==
    main = "returned" =>
        /\ {received[k] : k \in DOMAIN received} = (1..call.producers) \X (1..call.items)
        /\ \A k, l \in DOMAIN received :
              k < l /\ received[k][1] = received[l][1] => received[k][2] < received[l][2]
=============================================================================
