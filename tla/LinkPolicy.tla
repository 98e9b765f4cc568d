----------------------------- MODULE LinkPolicy -----------------------------
(***************************************************************************)
(* What happens to one message with links (moderateLinks, moderatePreview- *)
(* Traced and handleResolvedWrappersTraced of pkg/action/application.go):  *)
(* every wrapper is resolved, then the preview of a link-only message is   *)
(* judged, by the cache of known-good hosts or by a fetch, and the message *)
(* is left alone, deleted, replaced or answered.  Each call of the store   *)
(* and of the web is a step.  The web answers as it likes: pages move,     *)
(* change and fail between two messages and between two fetches.           *)
(***************************************************************************)
EXTENDS LinkRegistry, Sequences

CONSTANTS Post,           \* the messages: URLs and what the policy asks of them
          Web,            \* the URLs at which fetches may end
          NeverTrusted,   \* hosts that never become known-good
          TTL             \* knownGoodPreviewTTL in days

ASSUME PolicyAssumption ==
  /\ Post \subseteq [urls : Seq(URL), only : BOOLEAN, previewOff : BOOLEAN,
                     overlap : BOOLEAN]
  /\ \A post \in Post : post.only => post.urls # <<>>   \* IsLinkOnly
  /\ Web \subseteq URL
  /\ NeverTrusted \subseteq Host
  /\ TTL \in Nat

VARIABLES
  work,    \* the message at hand and what is known of it
  trust,   \* known_good_preview_domains: days since the host was recorded
  probed   \* history: days since a page of the host was last found useful

vars == <<work, trust, probed>>

Longest == TTL + 1   \* and more: stale, or no row

Stage == {"idle", "match", "resolve", "rewrite", "lookup", "trust", "fetch",
          "record", "done"}
Action == {"none", "allow", "delete", "replace", "reply", "duplicate", "error"}

NoPost == [urls |-> <<>>, only |-> FALSE, previewOff |-> FALSE, overlap |-> FALSE]

\* dest and seen grow with `next', the URL whose turn it is; a URL without a
\* destination has NoURL.  fetches counts what was asked of the web.
Idle == [at |-> "idle", post |-> NoPost, next |-> 1, chain |-> Start(NoURL),
         dest |-> <<>>, seen |-> <<>>, fetches |-> 0, failed |-> FALSE,
         action |-> "none", rule |-> NoRule]

Urls == work.post.urls

\* Some wrapper has a destination.
Rewritten == \E i \in DOMAIN work.dest : work.dest[i] # NoURL

\* resolvedURLs: what the preview is asked of.
Target(i) == IF Rewritten /\ work.dest[i] # NoURL THEN work.dest[i] ELSE Urls[i]

\* The rule of a replacement is that of its first wrapper.
ReplaceRule ==
  LET wrappers == {i \in DOMAIN work.dest : work.dest[i] # NoURL}
  IN MatchName(Urls[CHOOSE i \in wrappers : \A j \in wrappers : i <= j])

Now(w) == work' = w /\ UNCHANGED <<trust, probed>>
Goto(stage) == Now([work EXCEPT !.at = stage])

Decided(action, rule) == [work EXCEPT !.at = "done", !.action = action, !.rule = rule]

\* Bound: the count stops where it is too much for the message.
Asked(w) == IF w.fetches > Len(w.post.urls) * (Limit + 2) THEN w.fetches
            ELSE w.fetches + 1

\* Fail open: no plan, so nothing is deleted.
Open(w) == [w EXCEPT !.at = "done", !.action = "allow", !.failed = TRUE]

-----------------------------------------------------------------------------
Init == work = Idle /\ trust = [h \in Host |-> Longest] /\ probed = trust

Receive(post) ==
  /\ work.at \in {"idle", "done"}
  /\ Now([Idle EXCEPT !.at = "match", !.post = post])

\* The loop over the URLs: one without a resolver is passed over.
Pass ==
  /\ work.at = "match" /\ work.next <= Len(Urls)
  /\ MatchName(Urls[work.next]) = NoRule
  /\ Now([work EXCEPT !.next = @ + 1, !.dest = Append(@, NoURL)])

\* FindCanonical knows of no action for the content under this rule.
Match ==
  /\ work.at = "match" /\ work.next <= Len(Urls)
  /\ MatchName(Urls[work.next]) # NoRule
  /\ Now([work EXCEPT !.at = "resolve", !.chain = Start(Urls[work.next])])

\* It does, and the message is a repost; or the database cannot be read.
Known(action) ==
  /\ \/ /\ work.at = "match" /\ work.next <= Len(Urls)
        /\ MatchName(Urls[work.next]) # NoRule
     \/ work.at = "lookup"
  /\ Now(Decided(action, NoRule))

Resolve(c) == Now([work EXCEPT !.chain = c, !.fetches = Asked(work)])

ResolveLocally ==
  /\ work.at = "resolve" /\ work.chain.state = "running"
  /\ ~Fetches(work.chain.at)
  /\ Now([work EXCEPT !.chain = Local(@)])

\* The hardened fetcher ends at public addresses only.
ResolveByFetch(final, canonical) ==
  /\ work.at = "resolve" /\ work.chain.state = "running"
  /\ Fetches(work.chain.at)
  /\ IsPublicHTTPURL(final)
  /\ Resolve(Fetched(work.chain, final, canonical))

FetchFails ==
  /\ work.at = "resolve" /\ work.chain.state = "running"
  /\ Fetches(work.chain.at)
  /\ Resolve(Failed(work.chain))

\* Mutant: a wrapper that cannot be resolved is passed over.
ResolvedSkips(w) ==
  [w EXCEPT !.at = "match", !.next = @ + 1,
            !.dest = Append(@, IF w.chain.state = "done" THEN w.chain.at ELSE NoURL)]

\* The end of a chain: a destination, or the message is left alone.
Resolved(w) ==
  IF w.chain.state = "done"
  THEN [w EXCEPT !.at = "match", !.next = @ + 1, !.dest = Append(@, w.chain.at)]
  ELSE Open(w)

EndOfChain ==
  /\ work.at = "resolve" /\ work.chain.state # "running"
  /\ Now(Resolved(work))

AllMatched ==
  /\ work.at = "match" /\ work.next > Len(Urls)
  /\ IF Rewritten THEN Goto("rewrite")
     ELSE IF work.post.only THEN Goto("lookup")
     ELSE Now(Decided("allow", NoRule))

\* ReplaceURLSpans, which refuses spans that overlap.
Rewrite ==
  /\ work.at = "rewrite"
  /\ IF work.post.overlap THEN Now(Decided("error", NoRule))
     ELSE IF work.post.only THEN Goto("lookup")
     ELSE Now(Decided("replace", ReplaceRule))

BeginPreview ==
  /\ work.at = "lookup"
  /\ Now([work EXCEPT !.at = "trust", !.next = 1])

-----------------------------------------------------------------------------
(* moderatePreviewTraced.                                                  *)

\* Mutant: what cannot be read is taken for a page without a preview.
UnjudgedAsUseless == [Decided("delete", "link-preview") EXCEPT !.failed = TRUE]

\* A preview that cannot be judged: a wrapper is replaced, a bare link stays.
Unjudged ==
  IF Rewritten THEN [Decided("replace", ReplaceRule) EXCEPT !.failed = TRUE]
               ELSE Open(work)

PreviewHost == Target(work.next).host

KnownGoodPreviewDomain(days) == days <= TTL

\* Mutant: the cache is asked also for a message whose preview is disabled.
SkipsAlways == KnownGoodPreviewDomain(trust[PreviewHost])

\* A known-good host is not asked again while the preview is enabled.
Skips == /\ KnownGoodPreviewDomain(trust[PreviewHost])
         /\ PreviewHost \notin NeverTrusted
         /\ ~work.post.previewOff

Judge(useful) == [work EXCEPT !.at = "trust", !.next = @ + 1,
                              !.seen = Append(@, useful)]

Trust ==
  /\ work.at = "trust" /\ work.next <= Len(Urls)
  /\ IF Skips THEN Now(Judge(TRUE)) ELSE Goto("fetch")

PreviewFails ==
  /\ work.at \in {"trust", "fetch", "record"} /\ work.next <= Len(Urls)
  /\ Now([Unjudged EXCEPT !.fetches = IF work.at = "fetch" THEN Asked(work) ELSE @])

\* The page of a public site was read: PreviewMetadata says what makes it useful.
FetchMetadata(useful) ==
  /\ work.at = "fetch"
  /\ IsPublicHTTPURL(Target(work.next))
  /\ IF useful
     THEN /\ work' = [work EXCEPT !.at = "record", !.fetches = Asked(work)]
          /\ probed' = [probed EXCEPT ![PreviewHost] = 0]
     ELSE /\ work' = [Judge(FALSE) EXCEPT !.fetches = Asked(work)]
          /\ UNCHANGED probed
  /\ UNCHANGED trust

RecordKnownGoodPreviewDomain ==
  /\ work.at = "record"
  /\ work' = Judge(TRUE)
  /\ trust' = IF PreviewHost \in NeverTrusted THEN trust
              ELSE [trust EXCEPT ![PreviewHost] = 0]
  /\ UNCHANGED probed

AllUseful == work.seen # <<>> /\ \A i \in DOMAIN work.seen : work.seen[i]

\* Mutant: a wrapper is replaced whatever its preview is.
PreviewPlanBypassed ==
  IF Rewritten THEN Decided("replace", ReplaceRule)
  ELSE IF ~AllUseful THEN Decided("delete", "link-preview")
  ELSE IF work.post.previewOff THEN Decided("reply", "link-preview")
  ELSE Decided("allow", NoRule)

\* Mutant: the plan of the preview wins whatever it says.
PreviewPlanWins ==
  IF ~AllUseful THEN Decided("delete", "link-preview")
  ELSE IF work.post.previewOff THEN Decided("reply", "link-preview")
  ELSE IF Rewritten THEN Decided("replace", ReplaceRule)
  ELSE Decided("allow", NoRule)

\* The plan; of a rewritten message only its deletion is taken from it.
PreviewPlan ==
  IF ~AllUseful THEN Decided("delete", "link-preview")
  ELSE IF Rewritten THEN Decided("replace", ReplaceRule)
  ELSE IF work.post.previewOff THEN Decided("reply", "link-preview")
  ELSE Decided("allow", NoRule)

AllJudged == /\ work.at = "trust" /\ work.next > Len(Urls)
             /\ Now(PreviewPlan)

-----------------------------------------------------------------------------
\* A day goes by between two messages; handling one takes seconds.  Mutant: days
\* are counted without a bound.
CountUpPast(days) == days + 1
CountUp(days) == IF days < Longest THEN days + 1 ELSE days

Tick ==
  /\ work.at \in {"idle", "done"}
  /\ \E h \in Host : trust[h] < Longest \/ probed[h] < Longest
  /\ trust' = [h \in Host |-> CountUp(trust[h])]
  /\ probed' = [h \in Host |-> CountUp(probed[h])]
  /\ work' = Idle

Handle ==
  \/ Pass \/ Match \/ ResolveLocally \/ FetchFails \/ EndOfChain \/ AllMatched
  \/ \E final \in Web, canonical \in Web \cup {NoURL} : ResolveByFetch(final, canonical)
  \/ Rewrite \/ BeginPreview \/ Trust \/ PreviewFails \/ AllJudged
  \/ \E useful \in BOOLEAN : FetchMetadata(useful)
  \/ RecordKnownGoodPreviewDomain
  \/ \E action \in {"duplicate", "error"} : Known(action)

Next ==
  \/ \E post \in Post : Receive(post)
  \/ Handle
  \/ Tick

Spec == Init /\ [][Next]_vars

\* The goroutine that handles a message goes on.
FairSpec == Spec /\ WF_vars(Handle)

-----------------------------------------------------------------------------
(* Properties.                                                             *)

ChainState == {"running", "done", "failed"}
Chain == [at : URL \cup {NoURL}, steps : 0..Limit,
          state : ChainState]

TypeOK ==
  /\ work \in [at : Stage, post : Post \cup {NoPost}, next : Nat, chain : Chain,
               dest : Seq(URL \cup {NoURL}), seen : Seq(BOOLEAN), fetches : Nat,
               failed : BOOLEAN, action : Action, rule : Resolver \cup {NoRule, "link-preview"}]
  /\ trust \in [Host -> 0..Longest]
  /\ probed \in [Host -> 0..Longest]

\* What a chain ends at is clean: no resolver knows it (SPEC.md, tracked-link
\* rewriting: "a destination outside the matched wrapper host"), and it is
\* public unless the sender wrote the private address and only a parameter of it
\* was removed.  A wrapper inside a wrapper makes it take several resolutions.
DestinationIsClean ==
  \A i \in DOMAIN work.dest : work.dest[i] # NoURL =>
    /\ MatchName(work.dest[i]) = NoRule
    /\ IsPublicHTTPURL(work.dest[i]) \/ ~IsPublicHTTPURL(Urls[i])

\* A wrapper that leads to a wrapper, or back to itself, costs at most one fetch
\* per resolver and one, and its message one more per preview (Registry.Resolve).
FetchesAreBounded == work.fetches <= Len(Urls) * (Limit + 2)

\* SPEC.md: "Resolve every matched URL before deleting anything": a message is
\* replaced or deleted only when every wrapper in it has a destination.
NothingHalfRewritten ==
  work.action \in {"replace", "delete", "reply"} =>
    \A i \in DOMAIN Urls : MatchName(Urls[i]) # NoRule => work.dest[i] # NoURL

\* handleResolvedWrappersTraced: "A wrapper replacement remains the canonical visible
\* action even when the sender disabled Telegram previews": a message whose wrappers
\* lead elsewhere is never left in the chat as it was written, whether its previews
\* are judged, disabled or cannot be read, unless a later wrapper is not resolved.
ReplacementWins ==
  Rewritten => \/ work.action \notin {"allow", "reply"}
               \/ /\ work.action = "allow" /\ work.failed
                  /\ Len(work.dest) < Len(Urls)

\* A link-only message is deleted only on proof: a page of one of its links was
\* read in this run, was not useful, and every call before it succeeded.
DeletionIsProven ==
  work.action = "delete" =>
    /\ work.post.only /\ ~work.failed
    /\ \E i \in DOMAIN work.seen : ~work.seen[i] /\ IsPublicHTTPURL(Target(i))

\* SPEC.md: "so a wrapper link cannot bypass preview requirements": what stays
\* in the chat was found useful, unless a call failed.
PreviewIsNotBypassed ==
  /\ work.at = "done" /\ work.post.only /\ ~work.failed
  /\ work.action \in {"allow", "replace", "reply"}
  => /\ Len(work.seen) = Len(Urls)
     /\ \A i \in DOMAIN work.seen : work.seen[i]

\* SPEC.md: "A cached host is considered fresh for 30 days after its last live
\* check".  A link that passed had a useful page that recently, however often
\* the cache let it pass since, and if its preview is disabled, just now.
TrustIsEarned ==
  \A i \in DOMAIN work.seen : work.seen[i] =>
    /\ probed[Target(i).host] <= TTL
    /\ work.post.previewOff \/ Target(i).host \in NeverTrusted
         => probed[Target(i).host] = 0

\* Every message is decided, wherever its chains of wrappers lead.
EveryMessageDecided == work.at = "match" ~> work.at = "done"
=============================================================================
