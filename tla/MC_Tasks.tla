------------------------------ MODULE MC_Tasks -------------------------------
(* Green threads, coroutines, channels, processes and futures, checked in   *)
(* one run: each initial state chooses the one that is used.                *)
EXTENDS GreenThreads

CONSTANTS Coroutines, Starter, RawTops, MaxProducers, MaxItems,
          PipeSize, ChildSize, MaxChunks, MaxCount, Deadlines

\* The starter's context is its own; addresses are not negative.
ASSUME CoroutineAssumption == Starter \notin Coroutines /\ RawTops \subseteq Nat

VARIABLES
    component,
    regs, context, running, left,                              \* StackCoroutine
    call, main, spawned, tx, sent, channel, received,          \* Channels
    fn, parent, child, written, chunks, chosen, stdin, holds,  \* Pipes
    stdout, open, output, answer,
    future, left_n, at, tasks, woken, polling, deadline,       \* Futures
    registered, fired, now, done, awaited, results, ready

Coroutine == INSTANCE StackCoroutine WITH cpu <- regs
Channel == INSTANCE Channels
Pipe == INSTANCE Pipes
Future == INSTANCE Futures
              WITH fn <- future, n <- left_n, pc <- at, spawned <- tasks, answer <- ready

\* The bounds count; one producer is always needed, and no
\* deadline is never.
ASSUME BoundsAssumption ==
    /\ MaxProducers \in Nat \ {0} /\ MaxItems \in Nat /\ MaxChunks \in Nat
    /\ MaxCount \in Nat /\ Deadlines \subseteq 0..(Future!Never - 1)

coroutineVars == <<regs, context, running, left>>
channelVars == <<call, main, spawned, tx, sent, channel, received>>
pipeVars == <<fn, parent, child, written, chunks, chosen, stdin, holds, stdout, open, output, answer>>
futureVars == <<future, left_n, at, tasks, woken, polling, deadline,
                registered, fired, now, done, awaited, results, ready>>

MCInit ==
    /\ component \in {"green", "coroutine", "channel", "pipe", "future"}
    /\ Init /\ Coroutine!Init /\ Channel!Init /\ Pipe!Init /\ Future!Init
    /\ component # "coroutine" => \A c \in Coroutines : left[c]["sp"] = <<256>>

MCNext ==
    /\ UNCHANGED component
    /\ \/ /\ component = "green" /\ Next
          /\ UNCHANGED <<coroutineVars, channelVars, pipeVars, futureVars>>
       \/ /\ component = "coroutine" /\ Coroutine!Next
          /\ UNCHANGED <<vars, channelVars, pipeVars, futureVars>>
       \/ /\ component = "channel" /\ Channel!Next
          /\ UNCHANGED <<vars, coroutineVars, pipeVars, futureVars>>
       \/ /\ component = "pipe" /\ Pipe!Next
          /\ UNCHANGED <<vars, coroutineVars, channelVars, futureVars>>
       \/ /\ component = "future" /\ Future!Next
          /\ UNCHANGED <<vars, coroutineVars, channelVars, pipeVars>>

\* A component that is not chosen stays in its initial state, in which none of
\* its fair actions is enabled: its fairness asks nothing.
MCSpec ==
    /\ MCInit /\ [][MCNext]_<<component, vars, coroutineVars, channelVars, pipeVars, futureVars>>
    /\ Fairness /\ Channel!Fairness /\ Pipe!Fairness /\ Future!Fairness

-----------------------------------------------------------------------------
\* The properties of the other components, stated and explained there.

\* StackCoroutine: a coroutine finds its registers as it left them.
ResumesWhereLeft == Coroutine!ResumesWhereLeft
\* Channels: the receiver has all messages.
ReceivesAll == component = "channel" => Channel!ReceivesAll
\* Pipes: a call returns the child's output.
PipeAnswers == component = "pipe" => Pipe!PipeAnswers
\* Futures: a future is ready with the right answer.
FuturesAnswer == component = "future" => Future!FuturesAnswer

-----------------------------------------------------------------------------
\* CallsEnd: nobody is left waiting, whatever is used: ready threads run and
\* run() returns, the receiver finds its channel closed, parent and child do
\* not wait for each other, futures are woken.
CallsEnd ==
    ReadyRuns /\ RunReturns /\ Channel!CallEnds /\ Pipe!CallEnds /\ Future!FutureEnds
=============================================================================
