# linkkilinko in TLA+

linkkilinko is a Telegram bot that moderates one or more Finnish group chats. It
replaces link wrappers (Google share links, AMP pages, tracking parameters) by
their destinations, answers bare links that have no useful preview, keeps
newcomers from posting links and media for 48 hours, and silently removes
reposts of what it has already moderated. Its promises are about *messages of
other people*: what it deletes, what it posts, how often, and in which order,
while Telegram may lose answers, the process may restart, and the clock runs.

This directory holds TLA+ modules of the parts where those promises are made,
TLC configurations that check them on small instances, and TLAPS proofs for every
value of the constants. Paths below are relative to `src/`.

## 1. The system

One Go process, one SQLite file (`SetMaxOpenConns(1)`), one group of goroutines:

```
 Telegram --updates--> client.Run / processUpdates --> handleUpdate        (1 goroutine)
             (channel of the client library)            |  RecordMembership
                                                        |  ClaimUpdate .. CompleteUpdate/FailUpdate
                                                        |  Process -> registry, fetcher, preview
                                                        |          -> applyPlan -> Delete/Send/Copy
                                                        v
                                                  SQLite (store.go) <--- outboxLoop -> retryOutbox (1 goroutine,
                                                        ^                 ticker 30 s)  -> Delete/Send/Copy
                                                        |
            linkkilinko -reset-owner / -approve-chat ---+  (a second process)
```

Everything shared goes through the database. A store call is a statement or a
transaction and therefore one step of the models (a small HTTP server reads counters
for health checks and changes nothing); between two calls anything
else may happen, and no component holds a lock across calls.

### Components

| component | code | state | operations | correct when |
|---|---|---|---|---|
| outbox delivery | `pkg/action/application.go` 451-715 | snapshot of the claimed row, local response id | `applyPlan`, `applyTextAction`, `applyMediaAction`, `retryOutbox`, `prepareOutboxEntry`, `prepareMediaOutbox`, `markOutboxError` | the textual replacement never precedes the deletion, a completed action is honest, every action ends, a duplicate has a cause |
| outbox table | `internal/store/store.go` 500-740 | `moderation_outbox` row: state, attempts, next_attempt_at, lease | `PendingOutbox`, `Mark*`, `ReplaceOutboxPayload`, `ReleaseOutboxLease` | a row not in two hands does not leave a terminal state; attempts and delays stay in range |
| Telegram errors | `internal/telegram/client.go` 199-232 | none | `IsMessageNotFound`, `IsPermanentError`, `RetryAfter` | a class decides between done, retry, retry later and give up |
| update claims, decision, repost suppression | `cmd/linkkilinko/main.go` 206-258, `application.go` 179-356, 451-571, `store.go` 263-497 | `processed_updates`, `canonical_actions`, `suppressed_reposts` | `ClaimUpdate`, `Process`, `moderateLinks`, `moderatePreviewTraced`, `CreateCanonical`, `suppressDuplicate`, `RecordSuppressed`, `CompleteUpdate`, `FailUpdate` | a version is judged once, a content is answered once while its action lives, every deletion is accounted for |
| membership and sandbox | `main.go` 222-242, 318-334, `store.go` 320-380, `pkg/core/moderation/message.go` 298 | `memberships` | `RecordMembership`, `Grandfather`, `NewcomerPlan` | newcomers are caught; of the others only one whose change of status the code took for a join; rows follow the chat |
| owner bootstrap, operator recovery | `main.go` 54-115, 260-316, `store.go` 120-262 | `bot_owner`, `approved_chats` | `RegisterOwner`, `ApproveChat`, `ResetOwner`, `applyApproveChat` | approvals are requested; an owner that was read is out of date only through a reset by somebody else |
| link resolvers and policy | `pkg/core/link/registry.go`, `application.go` 235-450 | the message at hand | `Registry.Resolve`, three resolvers, `moderateLinks`, `handleResolvedWrappersTraced` | a chain ends, at a clean destination; nothing is replaced or deleted by halves; a wrapper that leads elsewhere does not stay |
| preview policy | `pkg/core/preview/preview.go`, `application.go` 358-420, `store.go` 70-118 | `known_good_preview_domains` | `Extract`, `Useful`, `Inspect`, `KnownGoodPreviewDomain`, `RecordKnownGoodPreviewDomain` | a deletion rests on a page that was read; trust is earned and ends |
| text algorithms | `pkg/core/moderation/message.go` | none | `ExtractURLs`, `IsLinkOnly`, `Fingerprint`, `ReplaceURLSpans` | spans in UTF-16 units are exact; equal contents have equal fingerprints and others do not |
| response text | `application.go` 451-500, 990-1045, `internal/notice/notice.go` | none | `Render`, truncation, `responseEntities`, `payload` | the mention covers the sender's name, within the limits |
| metadata fetcher | `internal/metadata/fetcher.go` | none | `Fetch`, `dialContext`, `remainingBudget` | redirects and dial time are bounded, every hop is safe |
| polling | `client.go` 62-126, `main.go` 160-205 | channel, confirmed offset, backoff | `Run`, `processUpdates`, shutdown | updates in order, no loss beyond the channel, a shutdown ends |
| migrations, configuration, health, tracing | the rest | - | - | start-up and read-only views |

### What is hard here

* **Interleaving**: the outbox goroutine may claim a row that the handler has
  just inserted and is delivering; a lease lasts a minute and does not stop the
  one who lost it; the operator's process works between any two statements.
* **Failure between steps**: Telegram carries a call out and the answer is lost;
  the process ends between an accepted send and its record; a store call fails
  in the middle of a batch; the second of two wrappers cannot be resolved.
* **Stale reads**: a worker acts on the snapshot it claimed, a handler on the
  owner it read before asking Telegram; no `UPDATE` of the outbox names the state
  it expects; a host is trusted for 30 days on one good page.
* **Order**: service message and `chat_member` update of one join in any order;
  copy before delete for media; redelivery after a restart; a stream that is
  confirmed to Telegram before it is handled.
* **Time**: leases, backoff, 300 s claims, four-hour actions, 48-hour sandbox, a
  dial budget shared by several addresses, and a clock that is not Telegram's.
* **Representation**: offsets in UTF-16 units over Go strings, limits in
  characters, spans that move while they are replaced, wrappers within wrappers.

Every hazard with its line is in `PROJECT.json` under `hazards`.

## 2. The modules

| module | what it models | proofs |
|---|---|---|
| `TelegramErrors` | errors as records of the facts the predicates look at | |
| `OutboxTable` | one outbox row and each statement that writes it, as operators | |
| `Outbox` | inline handler and workers over the table and the chat | `OutboxProofs` |
| `Delivery` | abstract: what may be relied on about an action, without any process | `DeliveryProofs` (refinement) |
| `Membership` | chat, update queue, memberships rows, sandbox verdict | `MembershipProofs` |
| `Moderation` | the consumer step by step: claim, sandbox, links, resolve, preview, create, deliver, suppress, record, complete | `ModerationProofs` |
| `Bootstrap` | first `/start`, group approval, the two operator flags | `BootstrapProofs` |
| `LinkRegistry` | resolvers and the chain of `Registry.Resolve`, as operators | |
| `LinkPolicy` | one message with links from its receipt to its decision, and the host cache | `LinkPolicyProofs` |
| `MessageText` | spans, extraction, link-only, fingerprint, replacement | |
| `ResponseText` | notice, truncation, mention, fallback of a copied medium | |
| `PreviewMetadata` | `Extract` and `Useful` over the elements of a page | |
| `Fetcher` | the dial budget and the redirect chain | |
| `Algorithms` | the four modules above against what they stand for, one input per state | `AlgorithmsProofs` |
| `Polling` | `Run`, `processUpdates`, the client library's stream, shutdown, restart | `PollingProofs` |
| `MC*` | constants, symmetry and inputs for TLC | |

`Outbox` composes `OutboxTable` and `TelegramErrors` and implements `Delivery`;
`LinkPolicy` extends `LinkRegistry`; `MCLinks` composes `LinkPolicy` with
`Algorithms`. `Moderation` takes delivery as one step because `Outbox` is about
nothing else, and the outcomes of resolvers and previews as choices because
`LinkPolicy` is.

### OutboxTable and Outbox

`outbox` is the table, `source[a]` and `posted[a]` the chat, `pc[p]` the call a
process makes next and `job[p]` the snapshot it works from. Each label is one
call: `delete`, `copy` and `send` go to Telegram, the others to the store.
`Deleted`, `Posted` are answered calls, `DeleteFails`, `PostFails` refusals of every
error class, `DeleteAnswerLost`, `PostAnswerLost` calls that were carried out and
answered with an error. `StoreFails` is a failing store call with the error path
the code takes: the handler returns, `retryOutbox` releases the lease and leaves
the rest of its batch leased until the lease is over. `Crash` loses all of memory.
`MemberDeletes` is the author who removes the message. `pc`'s successor functions
(`Inline`, `Dispatch`, `Resume`, `AfterCopy`, ...) are the control flow of
`applyTextAction`, `applyMediaAction` and `retryOutbox`.

Two clocks per row count down instead of two timestamps: `wait` for
`next_attempt_at` and `lease` for `lease_until`, which the code compares only with
now. `attempts` saturates at the cap of the shift, which is its only use. `outboxBackoff` reads it in a
statement of its own before the `UPDATE` that counts one more; the two are one step here, and only
the length of the next wait could differ.
`blame` is a history variable: what happened that may make the bot answer twice.
The handler is a process like a worker and shares no memory with it.

### Delivery

What a reader of the code wants to be told: an action is planned, answered at most
once without an excuse, its original goes, it ends. A record per action
(`stage`, `op`, `original`, `answers`, `excuses`) and a relation `Step(r, s)` between
its values, no process, snapshot, lease or retry. The refinement mapping is `D` in
`Outbox`: stages are states with the unfinished ones put together, excuses are
`blame`. `Answer` carries the order (a text only after the deletion, a copy or a reply
only before it), `Complete` the honesty, `Reopen` and `Answer` the only two things
that an overlap of two processes may break.

### Membership

`chat` is the truth, `updates` what Telegram has queued, `rows` the table, `handled`
the last updates, which come back after a restart. A join date is `left`, what
remains of the window; ages decrease together in `Tick`. `Join` produces the
`chat_member` updates and the service message in either order or without it;
`HandleFails` is the write error that `processUpdates` logs and skips, after which
some of the users of one service message are recorded and some are not. `verdict`
is what the last step decided about a message with a link, beside what should
have been decided; it is reset by every other step. `ahead` in it says that the join still lies
in the future of the bot's clock (`Skew`).

`handleMembership` takes any report of somebody whose row is missing or gone for a join, and a member
the bot has never seen may be reported because of a promotion. `presumed` is a history variable:
the users whose stored date is such a report. An update knows whether it `joins` (Telegram's
`old_chat_member`), which the code does not read and only `presumed` looks at.

### Moderation

One sender, chat and topic: the remaining columns of the key of
`canonical_actions`. A content is a sequence of URLs, each named by the resolver
that matches it or `plain`, with three facts the decision looks at: a bare link, a medium
(`HasLinkOrMedia`), and a disabled preview. `Fingerprint` is all of it but the last, so a repost with
another preview setting is the same content. `handler[k].at` is the stage of a consumer. Resolvers and previews
have every outcome (`Resolve`, `Preview`). Delivery is one step here, `Answer` or
`GiveUp`. `CreateCanonical` is the transaction
with its re-read of the winner. `Faults` is a failing store call, or a failing
deletion of a repost which may have been carried out. `Restart` puts the update in
work back at the head of the queue, or not: whether Telegram repeats it depends on
what the client library has confirmed, which `Polling` is about.

### Bootstrap

`HandleBotMembership` reads the owner, `HasDeletePermission` asks Telegram,
`ApproveChat` writes: three steps, as in `handleBotMembership`. `ReadOwner` followed by
`ResetOwner` or `ApplyApproveChat` are the operator's runs. `promoters` is a history
variable, and so is `since`: the resets by others since a process, or the handler, last read the
owner. A chat is a group or a channel (`Group`); the status creator counts as administrator.
`HandlerFails` covers errors of any call and the end of the process.

### LinkRegistry and LinkPolicy

A URL is what the resolvers look at: the cache prefixes around it, the shape that a
resolver matches, whether its query is tracked, and its site. `MatchName` is the order of
registration. The pages of a cache's own host that wrap nothing are left out. `Unwraps`, `Accepted` and `AMPDestination` are the conditions of the three
resolvers; `Advance` is one turn of the loop in `Registry.Resolve` with its limit. The web
is a choice: a fetch ends at any public URL of `Web`, with any canonical link, or fails.

`work` is the message at hand: `at` the stage, `next` the URL whose turn it is, `dest` and
`seen` what is known of those before it. Each store call and each fetch is a step:
`Match`/`Pass`, the steps of a chain, `EndOfChain`, `Rewrite`, `Known` (a repost, or a
database error), `Trust`, `FetchMetadata`, `PreviewFails`,
`RecordKnownGoodPreviewDomain`, `AllJudged`. `trust` and `probed` count days for the cache and
for the truth; `probed` is history. Days pass between messages only: handling one takes
seconds. `failed` is history, too: whether some call of this message failed.

### MessageText, ResponseText, PreviewMetadata, Fetcher and Algorithms

Pure functions. A character of a text is one of a few that the algorithms tell
apart: a letter of a host in two cases, a letter of two UTF-16 units, a space, a stop, and a scheme. A
URL is a scheme with a host, and with a path if a second scheme follows (`InHost`): `url.Parse`
takes the colon of that one for an empty port.
`Utf16Span`, `ExtractURLs`, `IsLinkOnly`, `Fingerprint` and `ReplaceURLSpans` are
translated from the loops of the code; what `Algorithms` compares them with is not: the span
as a set of pairs, the replacement read from left to right, the fingerprint of a
message put together from known pieces, the sentence of `preview.go` as a formula.
`Payload` is the text of a response, cut, with its mention, and the text that stands in
when a medium cannot be copied, which reuses the entities. `Dial` runs through the
addresses of a host with `RemainingBudget`, `FetchChain` through hops of redirects.

`Algorithms` has one variable, `sample`: a state is one input. Beside the pipeline of
`LinkPolicy` (`MCNext`) it makes one run of all of them. The loops (`Scan`, `Dial`, `FetchChain`,
`Extract`, `SpliceAll`, `Kept`) are recursive functions over the steps of the loop, and a loop that
appends some of what it comes by is `FlattenSeq` of `OneIf`. `Sorted` is a sort by its result: `Rank`
counts what precedes an element. `sort.Slice` promises no order of equal elements; up to twelve of them
it is an insertion sort and keeps them as they are, and so does `Precedes`. Spans that begin at the same place
overlap, so the order of equals only decides which of them `normalizedText` passes over.

### Polling

The client library polls in a goroutine of its own and fills a channel; it is external and
modelled as the code relies on it: `GetUpdates` with a new offset confirms all updates that
were in the channel before (`confirmed`), `Push` waits for room. `taken`, `pushed`,
`fetched` are positions in the sequence of updates. `at` is where `Run` is. `HandleEnds`
covers errors and recovered panics; under a cancelled context the store calls of the
handler fail, so an update may be taken and not `seen`. `lost` is history.

## 3. The runs

All with two TLC workers; each ends within minutes.

| run | instance | what it shows |
|---|---|---|
| `outbox_single` | 1 action of any kind, handler and 1 worker, 2 faults, under `FairSpec` | types; `CompleteIsHonest`; `DuplicateHasCause`; `DeliveryKeepsReplied`; `Implements` (the refinement of `Delivery`); `EverySettles` |
| `outbox_batch` | 2 text actions in one batch, a lease of one tick, 1 fault | `ResponseAfterDelete` and `TerminalIsFinalAlone`: also when two processes hold one row no reply precedes its deletion, and a row in one hand stays terminal |
| `outbox_twice` | no fault at all | violates `ExactlyOnce` |
| `membership_clean` | 2 users, queue of 3, window of 2 ticks, a clock ahead of the bot's, 1 restart with redelivery, promotions | `NewcomerCaught`, `RowsCatchUp` |
| `membership_faults` | 1 user from before the bot who leaves, rejoins, is promoted and restricted, a lost write, a clock ahead, a restart that repeats two updates | `VeteranFree` |
| `membership_lost` | 2 users, 1 failing write | violates `NewcomerCaught` |
| `moderation_single` | 1 consumer, 2 messages over a bare wrapper, with its preview and without, and a sentence with two wrappers, a restart with redelivery, 1 fault | `OneLivePerContent`, `DeletionsAccounted`, `JudgedOnce` |
| `moderation_race` | 2 consumers, 2 messages over a bare link, a photo and a text, a sender who enters and leaves the sandbox, under `FairSpec` | `OneLivePerRule`, `ClaimEnds` |
| `moderation_original` | 1 message and its edit | violates `OriginalKept` |
| `bootstrap_claims` | 2 users, 2 groups and a channel, 2 resets, 1 approval, 4 updates | `ApprovedOnRequest`, `StaleOwnerHasCause` |
| `links` | messages of one and two links over 3 sites, two layers of caches, a cache of a day; and every small input of the algorithms | `DestinationIsClean`, `FetchesAreBounded`, `NothingHalfRewritten`, `ReplacementWins`, `DeletionIsProven`, `PreviewIsNotBypassed`, `TrustIsEarned`, `EveryMessageDecided`; `RewritingIsExact`, `ContentIsRead`, `MentionIsExact`, `UsefulAsDocumented`, `FetchIsBounded` |
| `polling` | 5 updates, a channel of 2, 2 broken streams, 1 restart, a shutdown at any time, under `FairSpec` | `NothingIsSkipped`, `LossIsBounded`, `EveryUpdateIsSeen`, `ShutdownEnds` |

### Bounds, and why they are enough

* `MaxShift` 1, `LeaseDuration` 1 or 2, `RetryDelay` 2 or 3: the models only ask
  which of lease, backoff and `retry_after` ends first; one tick of difference gives
  every order. `LeaseDuration` 1 lets a lease end during any call.
* `MaxPosts` 2 is one more than the promise, so a duplicate is reachable; the guard
  stops a third. `MaxFaults` 2 allows a crash on top of a lost answer.
* `Window` 1 or 2: before, inside and after the end of the window. `MaxQueue` 3
  holds a join of both users with its service message. `MaxCrashes` 1 with `MaxReplay` 1 or 2:
  one late update after everything else, or a leave and a rejoin in their order. `Skew` 1:
  the join lies ahead of the clock for one tick.
* `ClaimWait` 1 and `TTL` 2: a claim is over before an action is, as 300 s and four
  hours are. `MaxVersion` 2 is one edit. `MaxRestarts` 1 of `Moderation` interrupts any one update.
* `MaxUpdates` 4 of `Bootstrap` bounds the updates Telegram sends in all; two of them and a
  reset are what the known races need.
* `Limit` 3 is the real number of resolvers; `MaxLayers` 2 is a cache within a cache, and `Web`
  contains wrappers of each kind, so a chain may run in a circle until its limit. `TTL` 1:
  a host is fresh, on its last day, or stale. Two links are what it takes to succeed with one and
  fail with the other.
* Texts of up to four characters of both widths, offsets and lengths from 0 to 5: every
  way to fall inside a pair, past the end, to touch and to overlap for the three
  spans of a replacement. `MaxPieces` 3: a link between two others or between
  letters. `TextLimit` 5 and `CaptionLimit` 3 stand for 3900 and 1000; words of up to two characters
  before, in and after a name go past both.
* `RequestTimeout` 3, attempts of up to 4 and three addresses: the budget ends before, in or
  exactly at the end of an attempt. `MaxRedirects` 1 with chains of three hops.
* `Buffer` 2, `Batch` 2, five updates: the channel fills up while a batch waits, and
  there is another one after it. `MaxBackoff` 3 is no power of two, like 30 s. `MaxBreaks` 2.

`Permutations` of users, messages, groups or resets are used only in runs
that check no liveness; none of those sets has a distinguished member there
(`membership_faults` has one user, and the channel of `bootstrap_claims` is in no permutation).

`CHECK_DEADLOCK FALSE` is set throughout: a chat in which everybody is silent and
every action is finished has no next step, and neither has a run at its bounds.

### Fairness

`Outbox.FairSpec`: time passes (`WF(Tick)`); `outboxLoop` is driven by a ticker, so a
worker that can claim eventually does; a goroutine whose next call is known makes it
(`WF` of the store steps and of Telegram's answers). `SF(Settled(p))` says that a
call which is repeated for ever is not answered by a *transient* error for ever: it
succeeds or is refused for good. Without it the code rightly retries without end.
Crashes, store errors and member actions have no fairness.

`Moderation.FairSpec`: `processUpdates` is a loop without a stop, so a consumer that can
take its next step does. Neither the outbox nor time has to move: `ClaimEnds` does not
need them.

`LinkPolicy.FairSpec`: the goroutine that handles a message goes on (`WF(Handle)`); every fetch
has a deadline, so it ends in one of its outcomes. No outcome is preferred.

`Polling.FairSpec`: goroutines go on and handlers return (`WF`). Connecting, polling and
pushing, which are tried again and again, do not fail for ever (`SF`): a stream may break or
Telegram be away at any moment and as often as the bound says. The library closes its stream when
it is told to. Shutdowns, crashes and the arrival of updates have no fairness.

## 4. The proofs

Each proof module extends the module it is about; its theorems hold for every value of
the constants that satisfies that module's `ASSUME`s.

`OutboxProofs` (any finite or infinite set of actions and workers, any lease, delay,
backoff cap, and bounds):

* `Invariance`: `Spec => []IInv`. The properties are not inductive since a process
  acts on old knowledge. `IInv` says which part of it cannot go stale: for each entry
  in memory (`EntryFits`) whether it is a reply, a `send_pending` it has seen means the
  source is gone, a response it remembers was accepted; for each label (`LabelFits`)
  what brought the process there; for each row (`RowFits`) what its state says about
  the chat. `Later` collects what no step takes back (a source that is gone, a message
  accepted, the kind of an action), and `EntryLater`, `OthersKeep` carry the knowledge
  of the processes that do not move. One lemma per action.
* `TypeCorrect`, `NoTextBeforeDelete` (`ResponseAfterDelete`), `CompletionIsHonest`
  (`CompleteIsHonest`) follow.

`DeliveryProofs` (the same generality) extends this by a second invariant `KInv`: an action
whose row was never claimed while another process worked on it is held by one process
(`Exclusive`), whose snapshot is the row (`JobAgrees`, `BatchAgrees`), and an answer without an
excuse is the only one, and recorded or in the memory of the process that will record it
(`AnswersFit`). Every step of `Outbox` then maps to a step of `Delivery` or a stutter, action by
action: `OutboxImplementsDelivery` is the refinement as a theorem. `DuplicatesHaveCauses`,
`TerminalRowsStay` and `DeliveriesKeepReplied` state the properties of the runs. The last one is
about the deliveries of the outbox alone: `suppressDuplicate` may delete the message under an
enriched reply (`OriginalKept`, section 5).

`BootstrapProofs` (any users, groups, operator runs, updates):
`IInv` adds to the types that a queued promotion was made by its sender
(`QueuedPromotions`) and that the one in work was, too (`PromotionInWork`).
`BootstrapTypeCorrect`, `ApprovalsAreRequested`, and `StaleReadsAreExplained`, which needs
`ReadsAreFresh`: whoever has read the owner still knows the owner, unless somebody else has reset
it since that read, and `ReportsAreTrue` for the resets that are done.

`MembershipProofs` (any finite set of users, any window, skew, number of failing writes,
restarts and repeated updates): `MembershipTypeCorrect`, and `NobodyElseIsCaught`
(`VeteranFree`), whatever the administrators do. A row may miss a join, be late, or return to an older one
after a restart; the invariant `JInv` says that it never runs ahead: no date of a join that is stored,
waits before a message, or may come back, is later than what the message was posted with
(`InQueue`) or the member has left (`InChat`). A date that is not of a join is stored only for
those who are `presumed`, which the property excepts.

Two more theorems say the opposite, that a row does not stay behind: `NewcomersAreCaught`
(`NewcomerCaught`) and `RowsFollowTheChat` (`RowsCatchUp`), for any users, window, restarts and
repeated updates. Their invariant `RInv` looks at the whole queue. `Told` is what a row goes
through when the updates in the queue are applied to it one after the other (`After`), `Fate`
where it ends or what it is when a given message is reached. `Foretold`: the fate of each row
over the queue is the standing of the member in the chat. `Repeats`: the updates that a restart may bring
back (`Replays`) end at what the row already is, so a repeated update makes no difference in the end. `Listed`
and `Blank` say whose row is still empty and why. `NewcomersAreCaught` uses the same for the
updates before a message: the row has caught up with the sender when the message is reached.
The hypotheses are what the code needs, and each of them is a divergence of section 5:
no write is lost and nobody is `restricted` (`Faultless`); there is nobody from before the bot whose status changes
(`Veterans = {} \/ Statuses = {}`, for `RowsFollowTheChat`). Restarts, and the updates that
they repeat out of order, need no hypothesis.

`ModerationProofs` (any messages, contents, resolvers, durations and bounds): types
(`ModerationTypeCorrect`) and `OneActionPerRule` for any number of consumers;
`OneActionPerContent`, `VersionsAreJudgedOnce` and `DeletionsAreAccounted` for a single one
(`Single`), which is what the deployment runs and what these promises need. `TInv` adds to the types what
a consumer has in hand at its stage and which rules can have answered a content at all. `Looked`
says which of these the lookups so far have ruled out: at `create` none is left, although the
lookups are made at different times. `Claimed` ties a consumer to the row of its update; `Fresh`
and `Clean` say that before the first restart each version is given out once and that a message
which its own update has not deleted is accounted for without it.

`LinkPolicyProofs` (any sites, nesting of caches, resolvers, messages, web and TTL): one
invariant that ties what has been collected (`dest`, `seen`, `fetches`) to the stage
(`Placed`, `Matched`, `Chained`, `Judged`, `Budget`), which makes a decision complete when it is
taken. All eight invariants of the pipeline follow: `LinkPolicyTypeCorrect`, `DestinationsAreClean`,
`FetchesStayBounded`, `NothingIsHalfRewritten`, `ReplacementsWin`, `DeletionsAreProven`, `PreviewsAreNotBypassed`,
`TrustStaysEarned`.

`PollingProofs` (any channel, batch, updates, restarts and broken streams): `Flow` orders the
positions of the stream, `Covered` says what a live loop has handled, `Loss` counts what went down
with each process: `PollingTypeCorrect`, `NoUpdateIsSkipped`, `LossOfUpdatesIsBounded`.

`AlgorithmsProofs` (any texts, notices, pages, addresses, redirects, and any limits): the loops
of the pure functions. `FetchAlwaysBounded` (`FetchIsBounded`): the invariant of a dial ties the
addresses that were tried to the count of the public ones so far (`InOrder`), and the end of the
loop to a reason (`Justified`). `PagesAreJudgedAsDocumented` (`UsefulAsDocumented`): after each
element a field is what stands first in the page so far (`FirstStep`); it is for every page, and the
statement has the one case in which the code departs from its comment (section 5). `SpansAreExact`
(`SpanIsExact`, the first half of `RewritingIsExact`): the units before a character grow with it
(`UnitsFacts`), so the loop finds the one pair of places or none. `MentionsAreExact`
(`MentionIsExact`): a cut text agrees with the whole one up to the cut (`Clipped`, also when
it is cut twice), so a name in it stands there in both, with the same units before it. It has the
hypothesis `NoEllipsis`: a name that ends in "…" can stand where the text was cut (section 5).

`RewritingAlwaysExact` (`RewritingIsExact`) adds the replacement, for any text and offsets and
every order of the entities. `SortHolds`: ranks are places and each is taken once, so a sort is a
permutation. `NeighboursSuffice`: in that order it is enough to compare neighbours, as the code
does; that is why it fails exactly when two spans overlap, wherever they stand. The
invariant of the loop is `SplicedSoFar`: the text in front of the span replaced last is untouched, and
behind it stands what the cells of the text, read from left to right, hold (`SpliceStep`); the cells of
`Placed` are put together with the lemmas on `FlattenSeq` (`JoinedFacts`).

`ContentAlwaysRead` (`ContentIsRead`): a message of any number of pieces, in any order. `Ends` says where each
piece ends; the ranges between them have every place of the text once (`RangesFacts`), so an entity covers
its own piece (`PieceIsCovered`) and a URL means what its piece means (`PieceIsMeant`). What a loop appends is an
increasing enumeration of what it takes (`LoopAppends`), and there is one only (`IncreasingIsUnique`): so the
entities, the URLs and the substitutions come in the order of the pieces, through three loops
(`MessageURLs`, `SubstitutionsHold`). Places do not overlap, `normalizedText` passes nothing over
(`KeptHolds`), and the result is what the pieces show (`PlacedIsShown`); what is left of the text when the
places are taken out are the other pieces (`RestIsPieces`). The theorem has the hypothesis `PiecesMean`: a piece has a
text, and its field `means` is what `canonicalHTTPTarget` and `normalizeURL` make of its URL alone. The
pieces of the run `links` satisfy it. What the theorem adds is that nothing around a URL changes
what is made of it.

`Sampling` is the specification of `Algorithms` alone: one input of one kind, whatever the constants.

Assumptions: the `ASSUME`s of the modules, which TLC evaluates in every run of them:
action ids are positive and the handler is no worker (`OutboxAssumption`), the
durations are positive (`OutboxTableAssumption`), a power of two is a positive
natural (`BackoffAssumption`, which the provers' arithmetic lacks), the two operator
flags are different runs (`BootstrapAssumption`), and the types of the constants
(`MembershipAssumption`, `ModerationAssumption`, `RegistryAssumption`, `PolicyAssumption`,
`PollingAssumption`, `LimitsAssumption`, `TextLimitsAssumption`, `TextsAssumption`,
`BoundsAssumption`). Assumptions of single theorems are in their statements:
`Single`, `Finite` (a chat has finitely many users), and those of
`MembershipProofs` and `AlgorithmsProofs` named above.

Inductions over a queue or over the steps of a loop are proved for a set in the place of a
predicate, from the least element that is not in it (`WFMin` of `WellFoundedInduction`: `Ascent`,
`FateOfIdle`), since the induction theorems of the library take the predicate as an operator.

Only model-checked: liveness (`EverySettles`, `ClaimEnds`, `EveryMessageDecided`,
`EveryUpdateIsSeen`, `ShutdownEnds`), which needs `ENABLED` and fairness. Every invariant and every
action property that a passing run checks is the subject of a theorem.

## 5. Known divergences

Shown by a run:

1. `ExactlyOnce` (`outbox_twice`): a new row is due at once and leased to nobody
   (`store.go:449`), so the ticker may fire while the handler delivers it. The comment
   at `application.go:132` says "exactly once".
2. `NewcomerCaught` (`membership_lost`): an error of the membership write is logged and
   skipped (`client.go:121`); the newcomer's first message then grandfathers them.
   `SPEC.md:513` says the consumer does not advance before the write succeeds.
3. `OriginalKept` (`moderation_original`): an edit of the source of an enriched reply
   that leaves the fingerprint as it was is taken for a repost, and the original under
   the reply is deleted (`application.go:562`). `SPEC.md:235` speaks of a new message id.

Found by hand or with the models at other bounds, and not the subject of a run.

Delivery and updates:

* `MarkSendPending` and `markOutboxErrorAfter` reopen a terminal row when an old
  snapshot is written (`store.go:559`); `TerminalIsFinalAlone` states the part that holds.
* A media copy precedes the deletion, which may be refused (`application.go:532`;
  `SPEC.md:532` forbids a replacement after a failed deletion).
* `run` does not wait for `OutboxLoop` before the database is closed (`main.go:185`). Its
  comment (`application.go:1037`) speaks of a nudge by a new action, which does not exist.
* A version in state `processing` is not claimed again for 300 s (`store.go:282`); the
  update repeated at a restart comes sooner and is skipped, and no result is recorded.
* An interrupted claim that is taken over after four hours creates a second action
  for the same version (`store.go:482`); `JudgedOnce` is about versions that have their result.
* A repost whose deletion fails once stays: the update ends as `failed`, which is
  terminal (`application.go:567`; `SPEC.md:263` says it is retried).
* An action that ended dead, without any visible answer, still suppresses reposts for four
  hours (`store.go:391` asks for `active`, not for the state).
* Updates that wait in the channel are confirmed to Telegram and are lost by a crash; at a
  shutdown they are drained under a cancelled context, in which their store calls
  fail (`client.go:112`; `SPEC.md:644` says "without losing the update offset").
  `LossIsBounded` says how many. The loop of `processUpdates` never looks at the context, which its
  comment says stops it, and `Run` has no case for a closed database, which its comment names.

Membership and ownership:

* `restricted` counts as active whatever `is_member` says (`main.go:331`), so a
  restricted member who rejoins keeps the old date (`SPEC.md:510`).
* `NewcomerPlan` gives no plan while the clock is behind the join date (`message.go:299`);
  `NewcomerCaught` has this exception (`ahead`).
* The first status change of a member the bot has never seen is recorded as a join
  (`main.go:333`), so a veteran is treated as a newcomer then; `VeteranFree` has exactly this
  exception (`presumed`).
* A reset between the read of the owner and the write leaves an approval in the name
  of a former owner, or a report of an owner somebody else has removed
  (`main.go:306`, `main.go:110`, `store.go:172`); `StaleOwnerHasCause` states exactly when.

Links, previews and texts:

* The loop of `Registry.Resolve` ends in "exceeded its limit" also for a chain of four steps
  that goes in no circle (`registry.go:119`); the message is then left alone.
* A tracking parameter is removed from a private address as from any other (`registry.go:24`
  speaks of a public destination); `DestinationIsClean` states the part that holds.
* `Extract` takes the first non-empty title in document order (`preview.go:174`), and not
  Open Graph before Twitter before `<title>` (`SPEC.md:434`).
* An empty `og:title` makes the `<title>` of the page count as a card title, so a bare site
  name is useful then; the comment of `Useful` does not say so, and `UsefulAsDocumented` has it as its last disjunct.
* The cache is keyed by the host of the link, and the page that earned the trust may be that of
  another host, behind redirects (`application.go:364`).
* Whitespace inside a message is part of its fingerprint (`message.go:247`); `SPEC.md:167`
  speaks of cosmetic whitespace.
* `responseEntities` marks the first place where the sender's name occurs, which may be in the notice's
  own words (`application.go:734`); `MentionIsExact` has this exception.
* A sender whose name has an ellipsis may be found where the text was cut, as in "…h…" for "h…":
  the mention then covers other letters when the whole text replaces it (`application.go:734`, `:787`).
  `MentionsAreExact` excludes such names (`NoEllipsis`), the texts of the `links` run have none.
* `remainingBudget` returns the deadline's rest whenever that is shorter than a whole budget,
  and not the lesser of both (`fetcher.go:204`); it comes to the same since a deadline that is
  set at all ends with the first budget. `total_timeout` never ends a fetch: one request context
  of the shorter `request_timeout` covers all redirects (`fetcher.go:134`; `SPEC.md:475`).

## 6. Not modelled

* Migrations: one transaction of idempotent statements before anything else runs.
* Configuration, and loading and validating the notice catalog: done once at start, no state.
* Health and tracing (`urlTrace`, log records): read-only, nothing depends on them.
* JSON encoding of payloads and the parsing of HTML, URLs, ports, international names and NFKC:
  the models start from what the parsers return.
* The network of the fetcher: DNS, TLS, headers, the body limit, and the tables of
  non-public addresses; an address is public or not.

Left out of the modules that exist: several chats, topics and
senders (keys are disjoint), the wording of notices, the in-process order of
log lines, `AttachSourceMessage`, `MarkResponseSent` and `Resolution.Resolver`, which
nothing uses. Two readings of the clock within one decision (`store.go:431`) are one instant.

## 7. Plan

Done: everything in the table of section 2, with the runs of section 3 and the proofs of section 4.

What is left, in this order: a composition of `Polling` with `Moderation`, in which the redelivered
update is the one that the channel lost, if its state space can be made small enough; liveness of
single steps by hand-written ranking arguments; `ReplacementIsExact` for any number of URLs, of which
`ReplacementHolds` is the proof and the run has three.
