----------------------------- MODULE Moderation -----------------------------
(***************************************************************************)
(* How one member's messages are judged.  A consumer takes an update,      *)
(* claims the message version (ClaimUpdate), decides by the newcomer       *)
(* sandbox, the link resolvers and the preview policy (Process), and then  *)
(* either creates the canonical action of that content (CreateCanonical)   *)
(* or deletes the message as a repost of it (suppressDuplicate).  The      *)
(* delivery of an action is the subject of module Outbox; here it is one   *)
(* step.  Everything is of one chat, topic and sender, the rest of the key *)
(* of canonical_actions.                                                   *)
(***************************************************************************)
EXTENDS Integers, Sequences, FiniteSets, FiniteSetsExt

CONSTANTS Message, Consumer,
          Content,      \* [urls, media, only, previewOff] of a message, see ASSUME
          Resolver,     \* names of the link resolvers
          Sandboxes,    \* whether the sender may be a newcomer, or turn into one
          ClaimWait,    \* ticks until an unfinished claim may be taken over
          TTL,          \* ticks a canonical action suppresses reposts
          MaxVersion,   \* bound: versions of a message, by editing
          MaxRestarts,  \* bound: restarts of consumers
          MaxFaults     \* bound: failing store calls and deletions

\* A URL is the name of the resolver that matches it, or "plain".
ASSUME ModerationAssumption ==
  /\ Content \subseteq [urls : Seq(Resolver \cup {"plain"}), media : BOOLEAN,
                        only : BOOLEAN, previewOff : BOOLEAN]
  /\ \A c \in Content : c.only => c.urls # <<>>
  /\ Resolver \cap {"plain", "newcomer-sandbox", "link-preview"} = {}
  /\ Sandboxes \subseteq BOOLEAN /\ Sandboxes # {}
  /\ ClaimWait \in Nat \ {0} /\ TTL \in Nat \ {0} /\ MaxVersion \in Nat \ {0}
  /\ MaxRestarts \in Nat /\ MaxFaults \in Nat

VARIABLES
  message,    \* the chat: version and content of each message, and if it is gone
  updates,    \* what Telegram has queued
  processed,  \* processed_updates: a row per message version
  actions,    \* canonical_actions with the state of their outbox rows
  suppressed, \* suppressed_reposts
  handler,    \* what each consumer is doing
  sandboxed,  \* NewcomerPlan's condition on the sender
  restarts, faults

vars == <<message, updates, processed, actions, suppressed, handler,
          sandboxed, restarts, faults>>

Rule == Resolver \cup {"newcomer-sandbox", "link-preview"}
Version == 1..MaxVersion
Update == [message : Message, version : Version, content : Content]
NoContent == [urls |-> <<>>, media |-> FALSE, only |-> FALSE, previewOff |-> FALSE]
NoUpdate == [message |-> "none", version |-> 0, content |-> NoContent]
Idle == [at |-> "idle", update |-> NoUpdate, url |-> 0, dest |-> {},
         rule |-> "none", kind |-> "none", action |-> 0]

Terminal == {"complete", "failed"}

-----------------------------------------------------------------------------
(* Canonical actions.  `left' is what remains of the TTL.                  *)

\* What a repost has in common with its original: text, media and URLs, and not
\* whether its preview is switched off.
Fingerprint(content) == [content EXCEPT !.previewOff = FALSE]

\* FindCanonical, and the rows CreateCanonical may not replace.
Live(rule, content) ==
  {a \in DOMAIN actions : /\ actions[a].rule = rule /\ actions[a].left > 0
                          /\ actions[a].fingerprint = Fingerprint(content)}

\* What Outbox does with an action: the source is deleted and the response
\* posted, a reply keeps the source; or the action is given up.
Answer(a) ==
  /\ actions' = [actions EXCEPT ![a].state = "answered"]
  /\ message' = IF actions[a].kind = "reply" THEN message
                ELSE [message EXCEPT ![actions[a].source].gone = TRUE]

GiveUp(a) ==
  /\ actions' = [actions EXCEPT ![a].state = "dead"]
  /\ \/ UNCHANGED message
     \/ /\ actions[a].kind # "reply"
        /\ message' = [message EXCEPT ![actions[a].source].gone = TRUE]

Outbox(a) ==
  /\ actions[a].state = "pending"
  /\ Answer(a) \/ GiveUp(a)
  /\ UNCHANGED <<updates, processed, suppressed, handler, sandboxed, restarts, faults>>

-----------------------------------------------------------------------------
(* The chat.                                                               *)

Init ==
  /\ message = [m \in Message |-> [version |-> 0, content |-> NoContent, gone |-> FALSE]]
  /\ updates = <<>>
  /\ processed = [m \in Message |-> [v \in Version |-> [state |-> "none", wait |-> 0]]]
  /\ actions = <<>>
  /\ suppressed = {}
  /\ handler = [k \in Consumer |-> Idle]
  /\ sandboxed \in Sandboxes
  /\ restarts = 0
  /\ faults = 0

\* A message is posted, or edited: with its content changed or not.
Write(m) ==
  \E c \in Content :
    /\ message[m].version < MaxVersion /\ ~message[m].gone
    /\ message' = [message EXCEPT ![m] = [version |-> @.version + 1, content |-> c,
                                          gone |-> FALSE]]
    /\ updates' = Append(updates, [message |-> m, version |-> message[m].version + 1,
                                   content |-> c])
    /\ UNCHANGED <<processed, actions, suppressed, handler, sandboxed, restarts, faults>>

\* The sandbox window ends, or the sender leaves and rejoins.
SandboxTurns ==
  /\ sandboxed' \in Sandboxes \ {sandboxed}
  /\ UNCHANGED <<message, updates, processed, actions, suppressed, handler, restarts, faults>>

-----------------------------------------------------------------------------
(* The consumer.                                                           *)

Row(u) == processed[u.message][u.version]
WriteRow(u, state) ==
  processed' = [processed EXCEPT ![u.message][u.version] =
                                   [state |-> state, wait |-> ClaimWait]]

\* Mutant: the claim does not look at the state of the row.
ClaimableStale(row) == row.wait = 0
ClaimUpdate(row) ==
  row.state = "none" \/ (row.state \notin Terminal /\ row.wait = 0)

Take(k) ==
  LET u == Head(updates) IN
  /\ handler[k].at = "idle" /\ updates # <<>>
  /\ updates' = Tail(updates)
  /\ IF ClaimUpdate(Row(u))
     THEN /\ WriteRow(u, "processing")
          /\ handler' = [handler EXCEPT ![k] = [Idle EXCEPT !.at = "sandbox", !.update = u]]
     ELSE /\ handler' = [handler EXCEPT ![k] = [Idle EXCEPT !.update = u]]
          /\ UNCHANGED processed
  /\ UNCHANGED <<message, actions, suppressed, sandboxed, restarts, faults>>

At(k, at) == handler[k].at = at
Goto(k, at) == handler' = [handler EXCEPT ![k] = [@ EXCEPT !.at = at]]
The(k) == handler[k].update.content
Stored == <<message, updates, processed, actions, suppressed>>
Bounds == <<sandboxed, restarts, faults>>

\* The rule is decided and CreateCanonical comes next.
Plan(k, rule, kind) ==
  handler' = [handler EXCEPT ![k] = [@ EXCEPT !.at = "create", !.rule = rule, !.kind = kind]]

\* suppressDuplicate when the content has a live action, otherwise `next'.
Unless(k, rule, next) ==
  \/ \E a \in Live(rule, The(k)) :
       handler' = [handler EXCEPT ![k] = [@ EXCEPT !.at = "suppress", !.action = a]]
  \/ Live(rule, The(k)) = {} /\ next

HasLinkOrMedia(content) == content.urls # <<>> \/ content.media

Sandbox(k) ==
  /\ At(k, "sandbox")
  /\ IF sandboxed /\ HasLinkOrMedia(The(k)) THEN Plan(k, "newcomer-sandbox", "delete")
     ELSE handler' = [handler EXCEPT ![k] = [@ EXCEPT !.at = "links", !.url = 1]]
  /\ UNCHANGED <<Stored, Bounds>>

\* A wrapper that resolved is replaced under the rule of the first of them.
Replace(k) == Plan(k, The(k).urls[Min(handler[k].dest)], "replace")

\* The wrappers that moderateLinks has not come to yet.
Ahead(k) == {i \in handler[k].url..Len(The(k).urls) : The(k).urls[i] # "plain"}

LookUp(k) ==
  handler' = [handler EXCEPT ![k] = [@ EXCEPT !.at = "resolve", !.url = Min(Ahead(k))]]

\* Mutant: a resolved wrapper is not looked up under link-preview.
LinksUnchecked(k) ==
  /\ At(k, "links")
  /\ CASE Ahead(k) # {} ->
            Unless(k, The(k).urls[Min(Ahead(k))], LookUp(k))
       [] Ahead(k) = {} /\ The(k).only ->
            IF handler[k].dest = {} THEN Unless(k, "link-preview", Goto(k, "preview"))
            ELSE Goto(k, "preview")
       [] Ahead(k) = {} /\ ~The(k).only ->
            IF handler[k].dest = {} THEN Goto(k, "complete") ELSE Replace(k)
  /\ UNCHANGED <<Stored, Bounds>>

\* moderateLinks: the next wrapper in the message, or what follows the last.
Links(k) ==
  /\ At(k, "links")
  /\ CASE Ahead(k) # {} ->
            Unless(k, The(k).urls[Min(Ahead(k))], LookUp(k))
       [] Ahead(k) = {} /\ The(k).only -> Unless(k, "link-preview", Goto(k, "preview"))
       [] Ahead(k) = {} /\ ~The(k).only ->
            IF handler[k].dest = {} THEN Goto(k, "complete") ELSE Replace(k)
  /\ UNCHANGED <<Stored, Bounds>>

\* Registry.Resolve fails (the message stays), changes nothing, or finds the
\* destination.
Resolve(k) ==
  /\ At(k, "resolve")
  /\ \/ Goto(k, "complete")
     \/ \E found \in {{}, {handler[k].url}} :
          handler' = [handler EXCEPT ![k] = [@ EXCEPT !.at = "links", !.url = handler[k].url + 1,
                                              !.dest = handler[k].dest \cup found]]
  /\ UNCHANGED <<Stored, Bounds>>

\* Mutant: after a failed preview the update is dropped without a result.
PreviewSilent(k) ==
  /\ At(k, "preview")
  /\ \/ Plan(k, "link-preview", "delete")
     \/ handler[k].dest # {} /\ Replace(k)
     \/ handler[k].dest = {} /\ The(k).previewOff /\ Plan(k, "link-preview", "reply")
     \/ handler[k].dest = {} /\ Goto(k, "idle")
  /\ UNCHANGED <<Stored, Bounds>>

\* moderatePreviewTraced: no useful metadata, useful metadata, or a failure.
Preview(k) ==
  /\ At(k, "preview")
  /\ \/ Plan(k, "link-preview", "delete")
     \/ handler[k].dest # {} /\ Replace(k)
     \/ handler[k].dest = {} /\ The(k).previewOff /\ Plan(k, "link-preview", "reply")
     \/ handler[k].dest = {} /\ Goto(k, "complete")
  /\ UNCHANGED <<Stored, Bounds>>

NewAction(k) == [rule |-> handler[k].rule, fingerprint |-> Fingerprint(The(k)),
                 kind |-> handler[k].kind, source |-> handler[k].update.message,
                 version |-> handler[k].update.version, left |-> TTL, state |-> "pending"]

Insert(k) == /\ actions' = Append(actions, NewAction(k))
             /\ handler' = [handler EXCEPT ![k] = [@ EXCEPT !.at = "deliver",
                                                           !.action = Len(actions) + 1]]

\* Mutant: the insert does not respect the unique key.
CreateBlind(k) ==
  /\ At(k, "create") /\ Insert(k)
  /\ UNCHANGED <<message, updates, processed, suppressed, Bounds>>

\* applyPlan: an action of the same rule and content that is still live wins.
CreateCanonical(k) ==
  /\ At(k, "create")
  /\ \/ Unless(k, handler[k].rule, FALSE) /\ UNCHANGED actions
     \/ Live(handler[k].rule, The(k)) = {} /\ Insert(k)
  /\ UNCHANGED <<message, updates, processed, suppressed, Bounds>>

\* The consumer delivers its own action, or leaves it to the outbox worker.
Deliver(k) ==
  /\ At(k, "deliver") /\ Goto(k, "complete")
  /\ \/ actions[handler[k].action].state = "pending"
        /\ (Answer(handler[k].action) \/ GiveUp(handler[k].action))
     \/ UNCHANGED <<message, actions>>
  /\ UNCHANGED <<updates, processed, suppressed, Bounds>>

Remove(k) == message' = [message EXCEPT ![handler[k].update.message].gone = TRUE]

\* suppressDuplicate: the message is deleted, or was not there; or Telegram
\* refuses for want of permission.
Suppress(k) ==
  /\ At(k, "suppress")
  /\ \/ Remove(k) /\ Goto(k, "record")
     \/ ~message[handler[k].update.message].gone /\ Goto(k, "complete") /\ UNCHANGED message
  /\ UNCHANGED <<updates, processed, actions, suppressed, Bounds>>

\* Mutant: the deletion is not recorded.
RecordNothing(k) ==
  /\ At(k, "record") /\ Goto(k, "complete")
  /\ UNCHANGED <<Stored, Bounds>>

RecordSuppressed(k) ==
  /\ At(k, "record") /\ Goto(k, "complete")
  /\ suppressed' = suppressed \cup {<<handler[k].action, handler[k].update.message>>}
  /\ UNCHANGED <<message, updates, processed, actions, Bounds>>

End(k, state) ==
  /\ WriteRow(handler[k].update, state)
  /\ handler' = [handler EXCEPT ![k] = [Idle EXCEPT !.update = handler[k].update]]
  /\ UNCHANGED <<message, updates, actions, suppressed, Bounds>>

CompleteUpdate(k) == At(k, "complete") /\ End(k, "complete")
FailUpdate(k) == At(k, "fail") /\ End(k, "failed")

\* A store call, or the deletion of a repost, fails; that deletion may have
\* been carried out.  The update is then failed, when that write succeeds.
Faults(k) ==
  /\ faults < MaxFaults /\ faults' = faults + 1
  /\ \/ /\ At(k, "idle") /\ updates # <<>>
        /\ updates' = Tail(updates)
        /\ handler' = [handler EXCEPT ![k] = [Idle EXCEPT !.update = Head(updates)]]
        /\ UNCHANGED message
     \/ /\ At(k, "suppress") /\ Goto(k, "fail")
        /\ Remove(k) \/ UNCHANGED message
        /\ UNCHANGED updates
     \/ /\ handler[k].at \in {"sandbox", "links", "create", "deliver", "record"} /\ Goto(k, "fail")
        /\ UNCHANGED <<updates, message>>
     \/ /\ handler[k].at \in {"complete", "fail"}
        /\ handler' = [handler EXCEPT ![k] = [Idle EXCEPT !.update = handler[k].update]]
        /\ UNCHANGED <<updates, message>>
  /\ UNCHANGED <<processed, actions, suppressed, sandboxed, restarts>>

\* The process ends and starts again.  Telegram repeats the last update it
\* gave out unless that was confirmed.
Restart(k) ==
  /\ restarts < MaxRestarts /\ restarts' = restarts + 1
  /\ handler[k].update # NoUpdate
  /\ handler' = [handler EXCEPT ![k] = Idle]
  /\ updates' \in {updates, <<handler[k].update>> \o updates}
  /\ UNCHANGED <<message, processed, actions, suppressed, sandboxed, faults>>

\* Mutant: a time passes its end.
CountDownPast(n) == n - 1
CountDown(n) == IF n > 0 THEN n - 1 ELSE 0

Tick ==
  /\ \/ \E a \in DOMAIN actions : actions[a].left > 0
     \/ \E m \in Message, v \in Version : processed[m][v].wait > 0
  /\ actions' = [a \in DOMAIN actions |-> [actions[a] EXCEPT !.left = CountDown(@)]]
  /\ processed' = [m \in Message |-> [v \in Version |->
                     [processed[m][v] EXCEPT !.wait = CountDown(@)]]]
  /\ UNCHANGED <<message, updates, suppressed, handler, Bounds>>

Decide(k) == Sandbox(k) \/ Links(k) \/ Resolve(k) \/ Preview(k)
Act(k) == CreateCanonical(k) \/ Deliver(k) \/ Suppress(k) \/ RecordSuppressed(k)
Finish(k) == CompleteUpdate(k) \/ FailUpdate(k)

Next ==
  \/ \E m \in Message : Write(m)
  \/ SandboxTurns
  \/ \E k \in Consumer : Take(k) \/ Decide(k) \/ Act(k) \/ Finish(k) \/ Faults(k) \/ Restart(k)
  \/ \E a \in DOMAIN actions : Outbox(a)
  \/ Tick

Spec == Init /\ [][Next]_vars

\* processUpdates is a loop: a consumer that runs goes on.
Fairness == \A k \in Consumer : WF_vars(Take(k) \/ Decide(k) \/ Act(k) \/ Finish(k))
FairSpec == Spec /\ Fairness

-----------------------------------------------------------------------------
Stage == {"idle", "sandbox", "links", "resolve", "preview", "create", "deliver",
          "suppress", "record", "complete", "fail"}
Kind == {"delete", "replace", "reply"}

Posted == [version : 0..MaxVersion, content : Content \cup {NoContent}, gone : BOOLEAN]
Claim == [state : Terminal \cup {"none", "processing"}, wait : 0..ClaimWait]
Canonical == [rule : Rule, fingerprint : {Fingerprint(c) : c \in Content}, kind : Kind,
              source : Message, version : Version, left : 0..TTL, state : {"pending", "answered", "dead"}]
Doing == [at : Stage, update : Update \cup {NoUpdate}, url : Nat, dest : SUBSET Nat,
          rule : Rule \cup {"none"}, kind : Kind \cup {"none"}, action : Nat]

TypeOK ==
  /\ message \in [Message -> Posted]
  /\ updates \in Seq(Update)
  /\ processed \in [Message -> [Version -> Claim]]
  /\ actions \in Seq(Canonical)
  /\ suppressed \subseteq (DOMAIN actions) \X Message
  /\ handler \in [Consumer -> Doing]
  /\ \A k \in Consumer : /\ handler[k].dest \subseteq DOMAIN The(k).urls
                         /\ handler[k].action \in DOMAIN actions \cup {0}
  /\ sandboxed \in BOOLEAN /\ restarts \in 0..MaxRestarts /\ faults \in 0..MaxFaults

\* CreateCanonical "reports whether it won the unique canonical-action race":
\* however the consumers interleave, a rule answers a content once while the
\* first action suppresses reposts.
OneLivePerRule ==
  \A a, b \in DOMAIN actions :
    /\ actions[a].left > 0 /\ actions[b].left > 0
    /\ actions[a].rule = actions[b].rule /\ actions[a].fingerprint = actions[b].fingerprint
    => a = b

\* SPEC.md, repost suppression: a repost of what was already answered gets no
\* second answer, also when its URLs resolve, or its preview loads, otherwise
\* than they did the first time.  Only the sandbox answers the same content
\* anew, as SPEC.md has it.  It takes a single consumer.
OneLivePerContent ==
  \A a, b \in DOMAIN actions :
    /\ actions[a].left > 0 /\ actions[b].left > 0
    /\ actions[a].rule # "newcomer-sandbox" /\ actions[b].rule # "newcomer-sandbox"
    /\ actions[a].fingerprint = actions[b].fingerprint
    => a = b

\* A message that is gone can be accounted for: it is the source of an action,
\* or recorded as a suppressed repost, or its update did not complete (the
\* error returns of suppressDuplicate).  A restart between Suppress and
\* RecordSuppressed may lose the record, so it is promised until the first one.
DeletionsAccounted ==
  \A m \in Message : message[m].gone /\ restarts = 0 =>
    \/ \E a \in DOMAIN actions : actions[a].source = m \/ <<a, m>> \in suppressed
    \/ \E v \in Version : processed[m][v].state \in {"failed", "processing"}

\* A message version that was judged is never judged again, whatever is
\* redelivered (ClaimUpdate).  It takes a single consumer.
JudgedOnce ==
  [][\A m \in Message, v \in Version :
       processed[m][v].state \in Terminal => processed'[m][v].state = processed[m][v].state]_vars

\* Without restarts and failing writes every claim ends with a result.
ClaimEnds ==
  \A m \in Message, v \in Version :
    processed[m][v].state = "processing" ~> processed[m][v].state \in Terminal

\* SPEC.md, repost suppression: "handles a new message id carrying unchanged
\* content", so it never deletes the message its own reply stands under.
OriginalKept ==
  \A a \in DOMAIN actions :
    actions[a].kind = "reply" /\ actions[a].state = "answered"
      => <<a, actions[a].source>> \notin suppressed
=============================================================================
