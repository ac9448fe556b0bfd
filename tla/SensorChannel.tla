---------------------------- MODULE SensorChannel ----------------------------
(* The agent on a host and the way of its events to the server: the reader of *)
(* Tetragon's stream, the channel, the flusher's bounded buffer with its      *)
(* retries, and the server's ingest handler.                                  *)
(*                                                                            *)
(* Abstracted: an event is its number in the stream; the rows it is folded    *)
(* into are the Observations module's.  A send and the handler that serves it *)
(* are one step: the flusher waits for the answer and touches nothing else.   *)
EXTENDS Naturals, Sequences, FiniteSets

CONSTANTS Events,             \* bound: events in the stream
          ChannelSize,        \* 4096 in the code
          maxBufferedEvents,  \* 10000
          maxPostBatch,       \* 500
          postBackoffBase,    \* 2 s, as ticks of the flush interval
          postBackoffMax,     \* 60 s
          MaxStreak,          \* failures in a row after which the delay is at its ceiling
          MaxRestarts         \* bound: times the agent is started again

ASSUME ChannelAssumption ==
    /\ {Events, ChannelSize, maxBufferedEvents, maxPostBatch, postBackoffBase} \subseteq Nat \ {0}
    /\ postBackoffMax \in Nat /\ MaxRestarts \in Nat /\ MaxStreak \in 1 .. 6

VARIABLES followed,    \* the stream is an export file, which a restart reads again
          next,        \* the reader's place in the stream
          ch,          \* the channel to the flusher
          pending,     \* eventBuffer.pending
          failStreak,  \* eventBuffer.failStreak
          wait,        \* eventBuffer.nextTry, from now
          flushing,    \* the flusher is in flush's loop
          ingested,    \* the events the server has stored
          dropped,     \* history: events discarded at the cap
          refused,     \* history: events the server answered for but did not store
          lost,        \* history: events a restart lost
          inDoubt,     \* history: events the agent cannot know to be stored
          restarts     \* how often the agent was started again

agentVars == <<next, ch, pending, failStreak, wait, flushing>>
serverVars == <<ingested, dropped, refused, lost, inDoubt, restarts>>
channelVars == <<followed, agentVars, serverVars>>

Stream == 1 .. Events
Elements(s) == {s[i] : i \in DOMAIN s}
Least(a, b) == IF a < b THEN a ELSE b

ChannelInit ==
    /\ followed \in BOOLEAN
    /\ next = 1 /\ ch = <<>>
    /\ pending = <<>> /\ failStreak = 0 /\ wait = 0 /\ flushing = FALSE
    /\ ingested = {} /\ dropped = {} /\ refused = {} /\ lost = {} /\ inDoubt = {}
    /\ restarts = 0

-----------------------------------------------------------------------------

\* Stream's reader: blocked while the channel is full.
Read ==
    /\ next <= Events /\ Len(ch) < ChannelSize
    /\ ch' = Append(ch, next)
    /\ next' = next + 1
    /\ UNCHANGED <<followed, pending, failStreak, wait, flushing, serverVars>>

\* flush returns at once when there is nothing to send or it is too early.
Due(buffer) == buffer # <<>> /\ wait = 0

\* eventBuffer.add: over the cap the oldest events go.  A full batch is flushed.
add ==
    LET all  == Append(pending, Head(ch))
        over == IF Len(all) > maxBufferedEvents THEN Len(all) - maxBufferedEvents ELSE 0
        kept == SubSeq(all, over + 1, Len(all)) IN
    /\ ~flushing /\ ch # <<>>
    /\ ch' = Tail(ch)
    /\ pending' = kept
    /\ dropped' = dropped \cup Elements(SubSeq(all, 1, over))
    /\ flushing' = (Len(kept) >= maxPostBatch /\ Due(kept))
    /\ UNCHANGED <<followed, next, failStreak, wait, ingested, refused, lost, inDoubt, restarts>>

\* Mutant of flusher: only a full batch is sent.
FlushWhenFull ==
    /\ ~flushing /\ Due(pending) /\ Len(pending) >= maxPostBatch
    /\ flushing' = TRUE
    /\ UNCHANGED <<followed, next, ch, pending, failStreak, wait, serverVars>>

\* The flush ticker.
flusher ==
    /\ ~flushing /\ Due(pending)
    /\ flushing' = TRUE
    /\ UNCHANGED <<followed, next, ch, pending, failStreak, wait, serverVars>>

Elapse ==
    /\ ~flushing /\ wait > 0
    /\ wait' = wait - 1
    /\ UNCHANGED <<followed, next, ch, pending, failStreak, flushing, serverVars>>

Batch == SubSeq(pending, 1, Least(Len(pending), maxPostBatch))

\* ingestEvents stores the events of a batch one by one; the answer is 200 and
\* their number, also when the store took only some of them.
ingestEvents(stored) == ingested' = ingested \cup stored

\* Mutant of SendSucceeds: the chunk's last event stays in the buffer.
KeepsLastSent(stored) ==
    LET rest == SubSeq(pending, Least(Len(Batch), Len(pending) - 1) + 1, Len(pending)) IN
    /\ flushing
    /\ ingestEvents(stored)
    /\ refused' = refused \cup (Elements(Batch) \ stored)
    /\ inDoubt' = inDoubt \ Elements(Batch)
    /\ pending' = rest
    /\ flushing' = (rest # <<>>)
    /\ failStreak' = IF rest = <<>> THEN 0 ELSE failStreak
    /\ UNCHANGED <<followed, next, ch, wait, dropped, lost, restarts>>

\* A chunk is answered for and leaves the buffer; an empty buffer ends the loop.
SendSucceeds(stored) ==
    LET rest == SubSeq(pending, Len(Batch) + 1, Len(pending)) IN
    /\ flushing
    /\ ingestEvents(stored)
    /\ refused' = refused \cup (Elements(Batch) \ stored)
    /\ inDoubt' = inDoubt \ Elements(Batch)
    /\ pending' = rest
    /\ flushing' = (rest # <<>>)
    /\ failStreak' = IF rest = <<>> THEN 0 ELSE failStreak
    /\ UNCHANGED <<followed, next, ch, wait, dropped, lost, restarts>>

Backoff(streak) == Least(postBackoffBase * 2 ^ Least(streak - 1, 5), postBackoffMax)

\* Mutant of SendFails: the chunk has left the buffer before it is sent.
ForgetsFailed(stored) ==
    /\ flushing
    /\ ingestEvents(stored)
    /\ inDoubt' = inDoubt \cup Elements(Batch)
    /\ pending' = SubSeq(pending, Len(Batch) + 1, Len(pending))
    /\ failStreak' = Least(failStreak + 1, MaxStreak)
    /\ wait' = Backoff(failStreak + 1)
    /\ flushing' = FALSE
    /\ UNCHANGED <<followed, next, ch, dropped, refused, lost, restarts>>

\* No connection, an error status, or an answer lost on the way, when the server
\* has stored any of the events already: the chunk stays for a later flush.
SendFails(stored) ==
    /\ flushing
    /\ ingestEvents(stored)
    /\ inDoubt' = inDoubt \cup Elements(Batch)
    /\ failStreak' = Least(failStreak + 1, MaxStreak)
    /\ wait' = Backoff(failStreak + 1)
    /\ flushing' = FALSE
    /\ UNCHANGED <<followed, next, ch, pending, dropped, refused, lost, restarts>>

\* The agent stops, also when its stream ends, and is started again: what was in
\* the channel and the buffer is gone, since nothing closes the channel.  An
\* export file is followed from its beginning.
Restart ==
    /\ restarts < MaxRestarts
    /\ restarts' = restarts + 1
    /\ ch' = <<>> /\ pending' = <<>> /\ failStreak' = 0 /\ wait' = 0 /\ flushing' = FALSE
    /\ IF followed
       THEN next' = 1 /\ inDoubt' = Stream /\ UNCHANGED lost
       ELSE /\ lost' = lost \cup Elements(ch) \cup Elements(pending)
            /\ UNCHANGED <<next, inDoubt>>
    /\ UNCHANGED <<followed, ingested, dropped, refused>>

Sent == \E stored \in SUBSET Elements(Batch) : SendSucceeds(stored)
NotSent == \E stored \in SUBSET Elements(Batch) : SendFails(stored)

AgentNext == Read \/ add \/ flusher \/ Elapse \/ Sent \/ NotSent
ChannelNext == AgentNext \/ Restart

\* The agent's goroutines run; a server that is asked again and again answers.
ChannelFairness ==
    WF_channelVars(Read) /\ WF_channelVars(add) /\ WF_channelVars(flusher)
      /\ WF_channelVars(Elapse) /\ SF_channelVars(Sent)

ChannelSpec == ChannelInit /\ [][ChannelNext]_channelVars /\ ChannelFairness

-----------------------------------------------------------------------------
(* Properties.                                                                *)

\* What became of an event that is no longer on its way.
Settled(e) == e \in ingested \cup dropped \cup refused \cup lost

\* Every event that was read is on its way or accounted for: through retries,
\* lost answers, partly stored batches, a full buffer and restarts, an event
\* leaves the agent only stored, counted as dropped, answered for, or lost with
\* the process (buffer.go: "Not durable: a sensor restart loses the buffer").
NoEventVanishes ==
    \A e \in Stream : e < next =>
      e \in Elements(ch) \cup Elements(pending) \/ Settled(e)

\* An event that the server has is sent again, and counted twice, only where a
\* failed send or a restart left the agent unable to know that the server has it.
ResentOnlyInDoubt ==
    flushing => \A e \in Elements(Batch) : e \in ingested => e \in inDoubt

\* However the server fails in between, every event in the stream is settled.
EveryEventSettles == \A e \in Stream : <>Settled(e)
=============================================================================
