------------------------------ MODULE Polling -------------------------------
(***************************************************************************)
(* How updates reach the handler (Run and processUpdates of                *)
(* internal/telegram/client.go), and what a restart or a shutdown (run of  *)
(* cmd/linkkilinko/main.go) costs.  Updates are numbered.  The client      *)
(* library polls in a goroutine of its own and fills a channel: what it    *)
(* does is external, and is modelled as the code relies on it.  A request  *)
(* for more updates confirms to Telegram all that were pushed before, so   *)
(* Telegram forgets updates that wait in the channel.                      *)
(***************************************************************************)
EXTENDS Integers, FiniteSets

CONSTANTS Buffer,      \* capacity of the channel
          Batch,       \* updates in one answer of Telegram
          MaxBackoff,  \* maxBackoff, in units of the first backoff
          MaxUpdates,  \* bound: updates that Telegram gets
          MaxBreaks,   \* bound: streams that close with no shutdown
          MaxRestarts  \* bound: crashes and starts after a shutdown

ASSUME PollingAssumption ==
  /\ Buffer \in Nat
  /\ Batch \in Nat \ {0}
  /\ MaxBackoff \in Nat \ {0}
  /\ MaxUpdates \in Nat /\ MaxBreaks \in Nat
  /\ MaxRestarts \in Nat

VARIABLES
  sent,       \* updates 1..sent have reached Telegram
  confirmed,  \* updates 1..confirmed are forgotten by Telegram
  fetched,    \* the stream has received the updates up to this one,
  pushed,     \*   has put those up to this one into the channel,
  taken,      \*   and Run has taken those up to this one out of it
  open,       \* whether the goroutine of the stream runs
  breaks,     \* streams that closed with no shutdown
  at,         \* where Run is
  backoff,    \* the wait after the next failure
  cancelled,  \* whether the context of run is cancelled
  seen,       \* updates for which the handler ran under a live context
  lost,       \* history: confirmed updates that earlier processes left unseen
  restarts

vars == <<sent, confirmed, fetched, pushed, taken, open, breaks, at, backoff,
          cancelled, seen, lost, restarts>>

stream == <<confirmed, fetched, pushed, open, breaks>>

-----------------------------------------------------------------------------
Init ==
  /\ sent = 0 /\ confirmed = 0 /\ fetched = 0 /\ pushed = 0 /\ taken = 0
  /\ open = FALSE /\ breaks = 0 /\ at = "connect" /\ backoff = 1 /\ cancelled = FALSE
  /\ seen = {} /\ lost = {} /\ restarts = 0

Arrive ==
  /\ sent < MaxUpdates
  /\ sent' = sent + 1
  /\ UNCHANGED <<stream, taken, at, backoff, cancelled, seen, lost, restarts>>

(* Run.                                                                    *)

\* UpdatesViaLongPolling: a stream of its own, which asks for the updates that
\* Telegram still has.
Connect ==
  /\ at = "connect" /\ ~cancelled
  /\ open' = TRUE
  /\ fetched' = confirmed /\ pushed' = confirmed /\ taken' = confirmed
  /\ at' = "receive" /\ backoff' = 1
  /\ UNCHANGED <<sent, confirmed, breaks, cancelled, seen, lost, restarts>>

\* Mutants: Run gives up; the backoff has no maximum.
AfterFailureStop == "stopped"
NextBackoffUncapped(b) == 2 * b

AfterFailure == "backoff"
NextBackoff(b) == IF 2 * b > MaxBackoff THEN MaxBackoff ELSE 2 * b

ConnectFails ==
  /\ at = "connect" /\ ~cancelled
  /\ at' = AfterFailure
  /\ UNCHANGED <<sent, stream, taken, backoff, cancelled, seen, lost, restarts>>

BackoffEnds ==
  /\ at = "backoff"
  /\ at' = "connect" /\ backoff' = NextBackoff(backoff)
  /\ UNCHANGED <<sent, stream, taken, cancelled, seen, lost, restarts>>

\* Mutant: a wait is not interrupted.
InterruptibleNever == {}

\* ctx.Done() at the head of the loop and in the wait.
Interruptible == {"connect", "backoff"}

Interrupt ==
  /\ cancelled /\ at \in Interruptible
  /\ at' = "stopped"
  /\ UNCHANGED <<sent, stream, taken, backoff, cancelled, seen, lost, restarts>>

-----------------------------------------------------------------------------
(* The stream.                                                             *)

\* getUpdates with the offset of the last answer, whose updates are all in the
\* channel; Telegram answers with some of the next ones, or with none.
GetUpdates(more) ==
  /\ open /\ ~cancelled /\ pushed = fetched
  /\ fetched + more <= sent
  /\ confirmed' = fetched
  /\ fetched' = fetched + more
  /\ UNCHANGED <<sent, pushed, taken, open, breaks, at, backoff, cancelled, seen, lost,
                 restarts>>

Push ==
  /\ open /\ pushed < fetched
  /\ pushed - taken < Buffer
  /\ pushed' = pushed + 1
  /\ UNCHANGED <<sent, confirmed, fetched, taken, open, breaks, at, backoff, cancelled,
                 seen, lost, restarts>>

\* The stream closes its channel; what it has not pushed it forgets.
StreamCloses ==
  /\ open
  /\ cancelled \/ breaks < MaxBreaks
  /\ open' = FALSE /\ fetched' = pushed
  /\ breaks' = IF cancelled THEN breaks ELSE breaks + 1
  /\ UNCHANGED <<sent, confirmed, pushed, taken, at, backoff, cancelled, seen, lost,
                 restarts>>

-----------------------------------------------------------------------------
(* processUpdates.                                                         *)

Receive ==
  /\ at = "receive" /\ taken < pushed
  /\ taken' = taken + 1 /\ at' = "handle"
  /\ UNCHANGED <<sent, stream, backoff, cancelled, seen, lost, restarts>>

\* Mutant: an error of the handler ends the loop.
AfterHandlerLeaves(failed) == IF failed THEN "connect" ELSE "receive"

AfterHandler(failed) == "receive"

\* The handler returns, with an error or not, or panics, which is recovered.
\* Under a cancelled context its store calls and requests fail, or do not yet.
HandleEnds(failed) ==
  /\ at = "handle"
  /\ at' = AfterHandler(failed)
  /\ \/ seen' = seen \cup {taken}
     \/ cancelled /\ UNCHANGED seen
  /\ UNCHANGED <<sent, stream, taken, backoff, cancelled, lost, restarts>>

\* The channel is closed and empty.
StreamEnds ==
  /\ at = "receive" /\ ~open /\ taken = pushed
  /\ at' = IF cancelled THEN "stopped" ELSE "connect"
  /\ UNCHANGED <<sent, stream, taken, backoff, cancelled, seen, lost, restarts>>

-----------------------------------------------------------------------------
\* SIGTERM or an interrupt.
Cancel ==
  /\ ~cancelled
  /\ cancelled' = TRUE
  /\ UNCHANGED <<sent, stream, taken, at, backoff, seen, lost, restarts>>

\* The process ends, at any time or after its shutdown, and a new one starts.
Restart ==
  /\ restarts < MaxRestarts
  /\ restarts' = restarts + 1
  /\ lost' = (1..confirmed) \ seen
  /\ fetched' = confirmed /\ pushed' = confirmed /\ taken' = confirmed
  /\ open' = FALSE /\ at' = "connect" /\ backoff' = 1 /\ cancelled' = FALSE
  /\ UNCHANGED <<sent, confirmed, breaks, seen>>

Next ==
  \/ Arrive
  \/ Connect \/ ConnectFails \/ BackoffEnds \/ Interrupt
  \/ \E more \in 0..Batch : GetUpdates(more)
  \/ Push \/ StreamCloses
  \/ Receive \/ StreamEnds
  \/ \E failed \in BOOLEAN : HandleEnds(failed)
  \/ Cancel \/ Restart

Spec == Init /\ [][Next]_vars

\* Goroutines go on and handlers return; connecting and polling, tried again and
\* again, do not fail for ever; the library closes the stream when it is told to
\* and, with no shutdown, MaxBreaks times.
Fairness ==
  /\ WF_vars(BackoffEnds) /\ WF_vars(Interrupt)
  /\ SF_vars(Connect)
  /\ SF_vars(\E more \in 1..Batch : GetUpdates(more))
  /\ SF_vars(Push) /\ WF_vars(cancelled /\ StreamCloses)
  /\ WF_vars(Receive) /\ WF_vars(StreamEnds)
  /\ WF_vars(\E failed \in BOOLEAN : HandleEnds(failed))

FairSpec == Spec /\ Fairness

-----------------------------------------------------------------------------
(* Properties.                                                             *)

TypeOK ==
  /\ sent \in 0..MaxUpdates /\ breaks \in 0..MaxBreaks
  /\ confirmed \in Nat /\ fetched \in Nat /\ pushed \in Nat /\ taken \in Nat
  /\ open \in BOOLEAN /\ cancelled \in BOOLEAN
  /\ at \in {"connect", "backoff", "receive", "handle", "stopped"}
  /\ backoff \in 1..MaxBackoff
  /\ seen \subseteq Nat /\ lost \subseteq Nat
  /\ restarts \in 0..MaxRestarts

\* The handler gets an update only after every one before it, however often the
\* stream breaks and whatever the handler made of the others; only the end of a
\* process, or a shutdown, leaves updates out (client.go, processUpdates).
NothingIsSkipped ==
  at = "handle" /\ ~cancelled => (1..(taken - 1)) \ seen \subseteq lost

\* An update that Telegram has forgotten and no handler saw went down with the
\* channel of a process: never more than its capacity and the one in hand for
\* each process, a graceful shutdown included.
LossIsBounded ==
  Cardinality((1..confirmed) \ seen) <= (restarts + 1) * (Buffer + 1)

\* Short of a shutdown every update comes to the handler, but for those that went
\* down with a process: connecting fails, streams break and handlers fail, but
\* not the loop, and what Telegram still has comes again after a restart.
EveryUpdateIsSeen ==
  \A u \in 1..MaxUpdates : sent >= u ~> u \in seen \cup lost \/ cancelled

\* A shutdown ends, with the channel drained, wherever it met the loop.
ShutdownEnds == cancelled ~> at = "stopped" \/ ~cancelled
=============================================================================
