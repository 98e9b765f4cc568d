----------------------------- MODULE OutboxTable -----------------------------
(***************************************************************************)
(* One row of moderation_outbox together with the response_state of the    *)
(* canonical action it belongs to, and what each store operation writes    *)
(* into it.  No UPDATE of store.go names the state it expects to find, so  *)
(* none of the operators has a guard; only the claim filters its rows.     *)
(*                                                                         *)
(* next_attempt_at and lease_until are compared with the clock and never   *)
(* with each other, so a row keeps what is left of them: `wait' and        *)
(* `lease' count down to 0 (the timestamp is not in the future).           *)
(* attempts is read only as min(attempts, 10), so it saturates.            *)
(* response is the kind of message the recorded response id stands for.    *)
(***************************************************************************)
EXTENDS Integers

CONSTANTS MaxShift,       \* the 10 of `time.Second << min(attempts, 10)'
          LeaseDuration   \* outboxLeaseDuration

ASSUME OutboxTableAssumption ==
  /\ MaxShift \in Nat
  /\ LeaseDuration \in Nat \ {0}

\* A fact of arithmetic the provers' theory of integers does not include.
ASSUME BackoffAssumption == \A n \in 0..MaxShift : 2^n \in Nat \ {0}

Operation == {"text", "copy_media", "reply"}
MessageKind == {"text", "copy", "reply"}
NoResponse == "none"
OutboxState == {"absent", "planned", "delete_requested", "send_pending",
                "complete", "dead"}
Terminal == {"complete", "dead"}

Row == [state : OutboxState, op : Operation, attempts : 0..MaxShift,
        wait : Nat, lease : Nat, response : MessageKind \cup {NoResponse},
        canonical : {"pending", "sent", "dead"}]

Absent == [state |-> "absent", op |-> "text", attempts |-> 0, wait |-> 0,
           lease |-> 0, response |-> NoResponse, canonical |-> "pending"]

\* CreateCanonical: the plan, due at once and leased to nobody.
Planned(op) == [Absent EXCEPT !.state = "planned", !.op = op]

\* Mutant: the shift of the backoff is not capped.
OneMoreUncapped(attempts) == attempts + 1

OneMore(attempts) == IF attempts < MaxShift THEN attempts + 1 ELSE MaxShift

\* outboxBackoff reads the attempts in a statement before the UPDATE that counts
\* one more; the two are one step here.  Another process in between could only
\* make the wait that of fewer attempts.
OutboxBackoff(r) == 2^r.attempts

UpdateOutbox(r, state) ==
  [r EXCEPT !.state = state, !.attempts = OneMore(@), !.wait = OutboxBackoff(r)]

MarkDeleteRequested(r) == UpdateOutbox(r, "delete_requested")

MarkSendPending(r) == [r EXCEPT !.state = "send_pending", !.wait = 0]

\* Mutant: the id of the copy is not stored.
MarkOutboxCopiedUnknown(r, response) ==
  [r EXCEPT !.state = "delete_requested", !.wait = 0]

MarkOutboxCopied(r, response) ==
  [r EXCEPT !.state = "delete_requested", !.response = response, !.wait = 0]

\* The payload of the fallback: text instead of a media copy.
ReplaceOutboxPayload(r, op) == [r EXCEPT !.op = op]

MarkOutboxComplete(r, response) ==
  [r EXCEPT !.state = "complete", !.response = response, !.lease = 0,
            !.canonical = "sent"]

\* delay = 0 stands for MarkOutboxError, a positive one for MarkOutboxErrorAfter.
MarkOutboxErrorAfter(r, state, delay) ==
  [r EXCEPT !.state = state, !.attempts = OneMore(@), !.lease = 0,
            !.wait = IF delay = 0 THEN OutboxBackoff(r) ELSE delay]

MarkOutboxDead(r) ==
  [r EXCEPT !.state = "dead", !.attempts = OneMore(@), !.wait = 0, !.lease = 0,
            !.canonical = "dead"]

ReleaseOutboxLease(r) == [r EXCEPT !.lease = 0]

\* Mutant: `state <> 'complete'', the filter of OutboxBacklog.
ClaimableBacklog(r) == /\ r.state \notin {"complete", "absent"}
                       /\ r.wait = 0
                       /\ r.lease = 0

\* PendingOutbox: the rows its UPDATE takes and what it writes into them.
Claimable(r) == /\ r.state \notin Terminal \cup {"absent"}
                /\ r.wait = 0
                /\ r.lease = 0

Claimed(r) == [r EXCEPT !.lease = LeaseDuration]

\* One unit of time goes by.
CountDown(n) == IF n > 0 THEN n - 1 ELSE 0

\* Mutant: only a release ends a lease.
ElapseWait(r) == [r EXCEPT !.wait = CountDown(@)]

Elapse(r) == [r EXCEPT !.wait = CountDown(@), !.lease = CountDown(@)]
=============================================================================
