------------------------------- MODULE Outbox -------------------------------
(***************************************************************************)
(* Delivery of moderation actions (pkg/action/application.go): the update  *)
(* handler carries a new action out inline, the outbox workers take up     *)
(* whatever is due and unfinished, and both talk to the same table and to  *)
(* the same chat.  A process is at a label; every call of the store and of *)
(* the Bot API is one step, so anything may happen between two calls.      *)
(***************************************************************************)
EXTENDS OutboxTable, TelegramErrors

CONSTANTS Action,      \* ids of canonical actions, in AUTOINCREMENT order
          Plans,       \* the operations of the actions that are planned
          Worker,      \* outbox workers; main.go starts one
          Handler,     \* the goroutine that consumes updates
          RetryDelay,  \* the retry_after Telegram asks for
          MaxPosts,    \* bound: messages of one kind accepted per action
          MaxFaults    \* bound: crashes, store errors and lost answers

ASSUME OutboxAssumption ==
  /\ Action \subseteq Nat \ {0}
  /\ Plans \subseteq Operation
  /\ Handler \notin Worker
  /\ RetryDelay \in Nat \ {0}
  /\ MaxPosts \in Nat
  /\ MaxFaults \in Nat

Process == Worker \cup {Handler}

VARIABLES
  outbox,   \* the durable rows
  source,   \* whether the member's message of an action is still in the chat
  posted,   \* messages of each kind Telegram has accepted for an action
  pc,       \* the call a process makes next
  job,      \* what it remembers of the entry it works on
  batch,    \* the claimed entries a worker has not reached yet
  failure,  \* the state and the kind of error it is about to record
  faults,   \* faults so far
  blame     \* history: what may make the bot answer an action twice

vars == <<outbox, source, posted, pc, job, batch, failure, faults, blame>>

Cause == {"lost_answer", "crash", "store_error", "overlap"}

Entry == [id : Action, op : Operation, state : OutboxState,
          response : MessageKind \cup {NoResponse}]
NoJob == [id |-> 0, op |-> "text", state |-> "absent", response |-> NoResponse]

Failure == [state : {"planned", "delete_requested", "send_pending"},
            class : {"permanent", "rate_limited", "transient"}]
NoFailure == [state |-> "planned", class |-> "transient"]

StoreCall == {"markCopied", "replace", "markDelete", "markSend", "complete",
              "markError", "release", "abort"}
Label == {"idle", "copy", "delete", "send"} \cup StoreCall

-----------------------------------------------------------------------------
(* Where a process goes next.                                              *)

\* Mutants: a failed deletion taken for a done one; a reply treated as a text.
ResumeAfterAttempt(e) ==
  IF e.state = "planned"
  THEN IF e.op = "reply" THEN "markSend" ELSE "delete"
  ELSE IF e.response # NoResponse THEN "complete" ELSE "send"

ResumeDeletesAll(e) ==
  IF e.state \in {"planned", "delete_requested"} THEN "delete"
  ELSE IF e.response # NoResponse THEN "complete" ELSE "send"

\* retryOutbox once media needs no copy: prepareOutboxEntry, then completion
\* or the send, by what the claimed snapshot says.
Resume(e) ==
  IF e.state \in {"planned", "delete_requested"}
  THEN IF e.op = "reply" THEN "markSend" ELSE "delete"
  ELSE IF e.response # NoResponse THEN "complete" ELSE "send"

\* Mutant: media is copied whether or not a copy is recorded.
DispatchAgain(e) == IF e.op = "copy_media" THEN "copy" ELSE Resume(e)

Dispatch(e) ==
  IF e.op = "copy_media" /\ e.response = NoResponse THEN "copy" ELSE Resume(e)

\* applyPlan: where the inline handler starts.
Inline(op) == CASE op = "copy_media" -> "copy"
                [] op = "reply"      -> "markSend"
                [] op = "text"       -> "markDelete"

\* Mutant: a copied message is taken for a moved one.
AfterCopyMoved(p, e) == IF p = Handler THEN "complete" ELSE Resume(e)

AfterCopy(p, e)    == IF p = Handler THEN "delete" ELSE Resume(e)
AfterReplace(p, e) == IF p = Handler THEN "markDelete" ELSE Resume(e)
AfterDelete(p, e)  == IF p = Handler /\ e.op = "copy_media" THEN "complete"
                                                            ELSE "markSend"
AfterMarkSend(e)   == IF e.response # NoResponse THEN "complete" ELSE "send"

Goto(p, label) == pc' = [pc EXCEPT ![p] = label]

Write(p, row) == outbox' = [outbox EXCEPT ![job[p].id] = row]

Mine(p) == outbox[job[p].id]

\* A worker begins with the oldest of `entries' and keeps the rest for later.
Take(p, entries) ==
  \E e \in entries :
    /\ \A f \in entries : e.id <= f.id
    /\ job' = [job EXCEPT ![p] = e]
    /\ Goto(p, Dispatch(e))
    /\ batch' = [batch EXCEPT ![p] = entries \ {e}]

Stop(p) ==
  /\ Goto(p, "idle")
  /\ job' = [job EXCEPT ![p] = NoJob]
  /\ batch' = [batch EXCEPT ![p] = {}]

\* The end of an entry: the next one of the batch, or waiting again.
Finish(p) == IF batch[p] = {} THEN Stop(p) ELSE Take(p, batch[p])

\* A process works on an action from its claim to the end of the entry.
Busy(a) == \E p \in Process : /\ pc[p] # "idle"
                              /\ \/ job[p].id = a
                                 \/ \E e \in batch[p] : e.id = a

\* Telegram has accepted a response that only the memory of p knows of.
Unrecorded(p) == /\ pc[p] \in {"markCopied", "complete"}
                 /\ Mine(p).response = NoResponse

Blame(as, cause) ==
  blame' = [a \in Action |-> IF a \in as THEN blame[a] \cup {cause} ELSE blame[a]]

Fault == faults < MaxFaults /\ faults' = faults + 1

-----------------------------------------------------------------------------
Init ==
  /\ outbox = [a \in Action |-> Absent]
  /\ source = [a \in Action |-> TRUE]
  /\ posted = [a \in Action |-> [k \in MessageKind |-> 0]]
  /\ pc = [p \in Process |-> "idle"]
  /\ job = [p \in Process |-> NoJob]
  /\ batch = [p \in Process |-> {}]
  /\ failure = [p \in Process |-> NoFailure]
  /\ faults = 0
  /\ blame = [a \in Action |-> {}]

\* applyPlan: the handler stores a new plan and starts to carry it out.
CreateCanonical(a, op) ==
  /\ pc[Handler] = "idle"
  /\ outbox[a].state = "absent"
  /\ \A b \in Action : b < a => outbox[b].state # "absent"
  /\ outbox' = [outbox EXCEPT ![a] = Planned(op)]
  /\ job' = [job EXCEPT ![Handler] = [id |-> a, op |-> op, state |-> "planned",
                                      response |-> NoResponse]]
  /\ Goto(Handler, Inline(op))
  /\ UNCHANGED <<source, posted, batch, failure, faults, blame>>

\* PendingOutbox: lease every due row, in one transaction, and read them back.
PendingOutbox(w) ==
  LET due == {a \in Action : Claimable(outbox[a])}
      entries == {[id |-> a, op |-> outbox[a].op, state |-> outbox[a].state,
                   response |-> outbox[a].response] : a \in due}
  IN /\ pc[w] = "idle"
     /\ due # {}
     /\ outbox' = [a \in Action |-> IF a \in due THEN Claimed(outbox[a]) ELSE outbox[a]]
     /\ Take(w, entries)
     /\ Blame({a \in due : Busy(a)}, "overlap")
     /\ UNCHANGED <<source, posted, failure, faults>>

-----------------------------------------------------------------------------
(* Calls of the store that succeed.                                        *)

StoreOnly == UNCHANGED <<source, posted, failure, faults, blame>>

RunMarkCopied(p) ==
  /\ pc[p] = "markCopied"
  /\ Write(p, MarkOutboxCopied(Mine(p), job[p].response))
  /\ Goto(p, AfterCopy(p, job[p]))
  /\ StoreOnly /\ UNCHANGED <<job, batch>>

RunReplace(p) ==
  /\ pc[p] = "replace"
  /\ Write(p, ReplaceOutboxPayload(Mine(p), "text"))
  /\ job' = [job EXCEPT ![p].op = "text"]
  /\ Goto(p, AfterReplace(p, job'[p]))
  /\ StoreOnly /\ UNCHANGED batch

RunMarkDelete(p) ==
  /\ pc[p] = "markDelete"
  /\ Write(p, MarkDeleteRequested(Mine(p)))
  /\ Goto(p, "delete")
  /\ StoreOnly /\ UNCHANGED <<job, batch>>

RunMarkSend(p) ==
  /\ pc[p] = "markSend"
  /\ Write(p, MarkSendPending(Mine(p)))
  /\ Goto(p, AfterMarkSend(job[p]))
  /\ StoreOnly /\ UNCHANGED <<job, batch>>

RunComplete(p) ==
  /\ pc[p] = "complete"
  /\ Write(p, MarkOutboxComplete(Mine(p), job[p].response))
  /\ Finish(p)
  /\ StoreOnly

\* markOutboxError, after which a worker also releases the lease.
RunMarkError(p) ==
  /\ pc[p] = "markError"
  /\ Write(p, CASE failure[p].class = "permanent" -> MarkOutboxDead(Mine(p))
                [] failure[p].class = "rate_limited" ->
                     MarkOutboxErrorAfter(Mine(p), failure[p].state, RetryDelay)
                [] OTHER -> MarkOutboxErrorAfter(Mine(p), failure[p].state, 0))
  /\ failure' = [failure EXCEPT ![p] = NoFailure]
  /\ IF p = Handler THEN Stop(p) ELSE Goto(p, "release") /\ UNCHANGED <<job, batch>>
  /\ UNCHANGED <<source, posted, faults, blame>>

RunRelease(p) ==
  /\ pc[p] = "release"
  /\ Write(p, ReleaseOutboxLease(Mine(p)))
  /\ Finish(p)
  /\ StoreOnly

\* retryOutbox returns an error: the rest of the batch stays leased.
RunAbort(p) ==
  /\ pc[p] = "abort"
  /\ Write(p, ReleaseOutboxLease(Mine(p)))
  /\ Stop(p)
  /\ StoreOnly

\* A call of the store fails.  The handler and an abort give up, the errors of
\* markOutboxError and of a release are ignored, anything else ends the batch.
StoreFails(p) ==
  /\ pc[p] \in StoreCall
  /\ Fault
  /\ Blame({job[q].id : q \in {q \in {p} : Unrecorded(q)}}, "store_error")
  /\ failure' = [failure EXCEPT ![p] = NoFailure]
  /\ IF p = Handler \/ pc[p] = "abort" THEN Stop(p)
     ELSE IF pc[p] = "release" THEN Finish(p)
     ELSE /\ Goto(p, IF pc[p] = "markError" THEN "release" ELSE "abort")
          /\ UNCHANGED <<job, batch>>
  /\ UNCHANGED <<outbox, source, posted>>

StoreStep(p) ==
  \/ RunMarkCopied(p) \/ RunReplace(p) \/ RunMarkDelete(p) \/ RunMarkSend(p)
  \/ RunComplete(p) \/ RunMarkError(p) \/ RunRelease(p) \/ RunAbort(p)

-----------------------------------------------------------------------------
(* Calls of the Bot API.  Telegram carries a call out and answers it,      *)
(* carries it out and the answer is lost, or refuses it.                   *)

Class(e) == IF IsPermanentError(e) THEN "permanent"
            ELSE IF RetryAfter(e) THEN "rate_limited" ELSE "transient"

Fail(p, state, e) ==
  /\ failure' = [failure EXCEPT ![p] = [state |-> state, class |-> Class(e)]]
  /\ Goto(p, "markError")

Deleted(p) ==
  /\ pc[p] = "delete"
  /\ source[job[p].id]
  /\ source' = [source EXCEPT ![job[p].id] = FALSE]
  /\ Goto(p, AfterDelete(p, job[p]))
  /\ UNCHANGED <<outbox, posted, job, batch, failure, faults, blame>>

DeleteFails(p, e) ==
  /\ pc[p] = "delete"
  /\ IsMessageNotFound(e) => ~source[job[p].id]
  /\ IF IsMessageNotFound(e)
     THEN Goto(p, AfterDelete(p, job[p])) /\ UNCHANGED failure
     ELSE Fail(p, "delete_requested", e)
  /\ UNCHANGED <<outbox, source, posted, job, batch, faults, blame>>

DeleteAnswerLost(p) ==
  /\ pc[p] = "delete"
  /\ source[job[p].id]
  /\ Fault
  /\ source' = [source EXCEPT ![job[p].id] = FALSE]
  /\ Fail(p, "delete_requested", NetworkError)
  /\ UNCHANGED <<outbox, posted, job, batch, blame>>

\* What Copy, Reply or Send puts into the chat.
Kind(p) == IF pc[p] = "copy" THEN "copy"
           ELSE IF job[p].op = "reply" THEN "reply" ELSE "text"

\* A copy and a reply need the message they refer to.
Accept(p) ==
  LET a == job[p].id IN
  /\ pc[p] \in {"copy", "send"}
  /\ Kind(p) = "text" \/ source[a]
  /\ posted[a][Kind(p)] < MaxPosts
  /\ posted' = [posted EXCEPT ![a][Kind(p)] = @ + 1]

Posted(p) ==
  /\ Accept(p)
  /\ job' = [job EXCEPT ![p].response = Kind(p)]
  /\ Goto(p, IF pc[p] = "copy" THEN "markCopied" ELSE "complete")
  /\ UNCHANGED <<outbox, source, batch, failure, faults, blame>>

PostAnswerLost(p) ==
  /\ Accept(p)
  /\ Fault
  /\ Blame({job[p].id}, "lost_answer")
  /\ Fail(p, IF pc[p] = "copy" THEN "planned" ELSE "send_pending", NetworkError)
  /\ UNCHANGED <<outbox, source, job, batch>>

\* A permanently refused copy falls back to text; any other refusal is recorded.
PostFails(p, e) ==
  /\ pc[p] \in {"copy", "send"}
  /\ IF pc[p] = "copy" /\ IsPermanentError(e)
     THEN Goto(p, "replace") /\ UNCHANGED failure
     ELSE Fail(p, IF pc[p] = "copy" THEN "planned" ELSE "send_pending", e)
  /\ UNCHANGED <<outbox, source, posted, job, batch, faults, blame>>

\* The answers that let an action make progress or end it.
Settled(p) ==
  \/ Deleted(p)
  \/ DeleteFails(p, NotFound) \/ DeleteFails(p, BadRequest)
  \/ Posted(p)
  \/ PostFails(p, BadRequest)

TelegramStep(p) ==
  \/ Settled(p)
  \/ \E e \in Refusal : DeleteFails(p, e) \/ PostFails(p, e)
  \/ DeleteAnswerLost(p)
  \/ PostAnswerLost(p)

-----------------------------------------------------------------------------
\* The author or an administrator deletes the message of a stored action.
MemberDeletes(a) ==
  /\ source[a] /\ outbox[a].state # "absent"
  /\ source' = [source EXCEPT ![a] = FALSE]
  /\ UNCHANGED <<outbox, posted, pc, job, batch, failure, faults, blame>>

\* The process ends; only the table and the chat survive.
Crash ==
  /\ \E p \in Process : pc[p] # "idle"
  /\ Fault
  /\ Blame({job[p].id : p \in {q \in Process : Unrecorded(q)}}, "crash")
  /\ pc' = [p \in Process |-> "idle"]
  /\ job' = [p \in Process |-> NoJob]
  /\ batch' = [p \in Process |-> {}]
  /\ failure' = [p \in Process |-> NoFailure]
  /\ UNCHANGED <<outbox, source, posted>>

Tick ==
  /\ \E a \in Action : outbox[a].wait > 0 \/ outbox[a].lease > 0
  /\ outbox' = [a \in Action |-> Elapse(outbox[a])]
  /\ UNCHANGED <<source, posted, pc, job, batch, failure, faults, blame>>

ProcessStep(p) == StoreStep(p) \/ StoreFails(p) \/ TelegramStep(p)

Next ==
  \/ \E a \in Action, op \in Plans : CreateCanonical(a, op)
  \/ \E w \in Worker : PendingOutbox(w)
  \/ \E p \in Process : ProcessStep(p)
  \/ \E a \in Action : MemberDeletes(a)
  \/ Crash
  \/ Tick

Spec == Init /\ [][Next]_vars

\* A process that can take a step does, time passes, the ticker keeps firing,
\* and a call that is repeated for ever is not left undecided for ever.
Fairness ==
  /\ WF_vars(Tick)
  /\ \A w \in Worker : WF_vars(PendingOutbox(w))
  /\ \A p \in Process : /\ WF_vars(StoreStep(p))
                        /\ WF_vars(TelegramStep(p))
                        /\ SF_vars(Settled(p))

FairSpec == Spec /\ Fairness

-----------------------------------------------------------------------------
(* Properties.                                                             *)

TypeOK ==
  /\ outbox \in [Action -> Row]
  /\ source \in [Action -> BOOLEAN]
  /\ posted \in [Action -> [MessageKind -> 0..MaxPosts]]
  /\ pc \in [Process -> Label]
  /\ job \in [Process -> Entry \cup {NoJob}]
  /\ batch \in [Process -> SUBSET Entry]
  /\ failure \in [Process -> Failure]
  /\ faults \in 0..MaxFaults
  /\ blame \in [Action -> SUBSET Cause]

\* The textual replacement of a message appears only once the original is gone
\* (SPEC.md rule 3): whatever snapshot, crash or stale write a process acts on,
\* no path through applyTextAction or retryOutbox sends before it deleted.
ResponseAfterDelete == \A a \in Action : posted[a]["text"] > 0 => ~source[a]

\* A completed action is what it claims to be: its recorded response was
\* accepted by Telegram and, unless the action is a reply, the original is gone.
CompleteIsHonest ==
  \A a \in Action : outbox[a].state = "complete" =>
    /\ outbox[a].response # NoResponse
    /\ posted[a][outbox[a].response] > 0
    /\ outbox[a].op # "reply" => ~source[a]
    /\ outbox[a].canonical = "sent"

Answers(a) == posted[a]["text"] + posted[a]["copy"] + posted[a]["reply"]

\* The chat sees two responses to one action only if an answer of Telegram was
\* lost, a crash or a store error came between the acceptance and its record,
\* or the action was claimed while another process was still at work on it.
DuplicateHasCause == \A a \in Action : Answers(a) > 1 => blame[a] # {}

\* The row of an action that never was in the hands of two processes keeps its
\* terminal state for ever: retries stop.
TerminalIsFinalAlone ==
  [][\A a \in Action : outbox[a].state \in Terminal /\ "overlap" \notin blame[a]
                         => outbox'[a].state = outbox[a].state]_vars

\* No delivery deletes the message its enriched reply answers, neither inline
\* nor by a worker, from whatever stale snapshot and after whatever failure: it
\* goes only by the hand of somebody in the chat.  This is about applyTextAction
\* and retryOutbox; what suppressDuplicate makes of an edit of that message is
\* OriginalKept of Moderation.
DeliveryKeepsReplied ==
  [][\A a \in Action : outbox[a].op = "reply" /\ source[a] /\ ~source'[a]
                         => MemberDeletes(a)]_vars

\* Every stored action ends as complete or dead, whatever crashes, store errors
\* and lost answers it meets, provided Telegram eventually decides its calls.
EverySettles ==
  \A a \in Action : outbox[a].state # "absent" ~> outbox[a].state \in Terminal

\* application.go: "deliver moderation responses exactly once".
ExactlyOnce == \A a \in Action : Answers(a) <= 1

\* What the outside sees of an action, and what it may rely on: Delivery.
Stage(state) == CASE state = "absent"   -> "none"
                  [] state \in Terminal -> state
                  [] OTHER              -> "open"

D == INSTANCE Delivery WITH
       action <- [a \in Action |->
                    [stage    |-> Stage(outbox[a].state),
                     op       |-> outbox[a].op,
                     original |-> IF source[a] THEN "present" ELSE "gone",
                     answers  |-> posted[a],
                     excuses  |-> blame[a]]]

\* The outbox delivers as Delivery promises: an answer is repeated or comes
\* after the end only with an excuse, a text never precedes the deletion, a copy
\* or a reply never follows it, a completion is true and final for one process.
Implements == D!Spec
=============================================================================
