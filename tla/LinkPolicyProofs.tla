-------------------------- MODULE LinkPolicyProofs --------------------------
(***************************************************************************)
(* LinkPolicy for every set of hosts, messages and answers of the web, any *)
(* limit of the chain and any life of the cache.                           *)
(*                                                                         *)
(* What a decision may rest on is collected along the way: Chained says    *)
(* what one chain of wrappers has kept, Matched what the destinations      *)
(* found so far are, Judged what each judgement on a preview stands on,    *)
(* and Cached why a cached host may be trusted.  Placed ties the lengths   *)
(* of what was collected to the stage, which makes a decision complete.    *)
(***************************************************************************)
EXTENDS LinkPolicy, TLAPS

Previewing == {"trust", "fetch", "record"}

\* How much is known at which stage.
Placed ==
  /\ work.next >= 1
  /\ Len(work.dest) <= Len(Urls) /\ Len(work.seen) <= Len(Urls)
  /\ work.at \in {"match", "resolve"} =>
       work.next = Len(work.dest) + 1
  /\ work.at \in {"resolve", "fetch", "record"} => work.next <= Len(Urls)
  /\ work.at \in {"rewrite", "lookup"} \cup Previewing => Len(work.dest) = Len(Urls)
  /\ work.at \in {"lookup"} \cup Previewing => work.post.only
  /\ work.at \in Previewing => work.next = Len(work.seen) + 1
  /\ work.at \notin Previewing \cup {"done"} => work.seen = <<>>
  /\ work.at # "done" => ~work.failed /\ work.action = "none"

\* d may take the place of u.
Clean(d, u) == MatchName(d) = NoRule /\ (IsPublicHTTPURL(d) \/ ~IsPublicHTTPURL(u))

Matched ==
  \A i \in DOMAIN work.dest :
    /\ MatchName(Urls[i]) # NoRule => work.dest[i] # NoURL
    /\ work.dest[i] # NoURL => Clean(work.dest[i], Urls[i])

Chained ==
  work.at = "resolve" =>
    /\ work.chain.at \in URL
    /\ IsPublicHTTPURL(work.chain.at) \/ ~IsPublicHTTPURL(Urls[work.next])
    /\ work.chain.state = "done" => MatchName(work.chain.at) = NoRule

Cached ==
  /\ \A h \in Host : probed[h] <= trust[h]
  /\ work.at = "record" => probed[PreviewHost] = 0

\* What a judgement on a page of `host' stands on.
Earned(host) ==
  /\ probed[host] <= TTL
  /\ work.post.previewOff \/ host \in NeverTrusted => probed[host] = 0

Judged ==
  \A i \in DOMAIN work.seen :
    IF work.seen[i] THEN Earned(Target(i).host) ELSE IsPublicHTTPURL(Target(i))

Sound ==
  NothingHalfRewritten /\ DeletionIsProven /\ PreviewIsNotBypassed /\ ReplacementWins

\* What may have been asked of the web by now.
Budget ==
  LET share == Limit + 1 IN
  /\ work.at = "match" => work.fetches <= Len(work.dest) * share
  /\ work.at = "resolve" =>
       work.fetches <= Len(work.dest) * share + work.chain.steps
                         + (IF work.chain.state = "running" THEN 0 ELSE 1)
  /\ work.at \in {"rewrite", "lookup"} => work.fetches <= Len(Urls) * share
  /\ work.at \in {"trust", "fetch"} => work.fetches <= Len(Urls) * share + Len(work.seen)
  /\ work.at = "record" => work.fetches <= Len(Urls) * share + Len(work.seen) + 1
  /\ work.at \in {"idle", "done"} => work.fetches <= Len(Urls) * share + Len(Urls)

IInv == /\ TypeOK /\ Placed /\ Matched /\ Chained /\ Cached /\ Judged /\ Sound
        /\ Budget

-----------------------------------------------------------------------------
(* The chain.                                                              *)

\* What a step of a chain from c to d keeps.
Kept(c, d) ==
  /\ d \in Chain /\ d.at \in URL
  /\ IsPublicHTTPURL(d.at) \/ ~IsPublicHTTPURL(c.at)
  /\ d.state = "done" => MatchName(d.at) = NoRule
  /\ d.steps + (IF d.state = "running" THEN 0 ELSE 1) = c.steps + 1

LEMMA AdvanceKeeps ==
  ASSUME NEW c \in Chain, c.at \in URL, c.state = "running", NEW d \in URL,
         d # c.at, IsPublicHTTPURL(d) \/ ~IsPublicHTTPURL(c.at)
  PROVE  Kept(c, Advance(c, d))
<1>1. c.steps \in 0..Limit /\ c \in [at : URL \cup {NoURL}, steps : 0..Limit, state : ChainState]
  BY DEF Chain
<1>2. CASE c.steps = Limit
  <2>1. Advance(c, d) = [[c EXCEPT !.at = d] EXCEPT !.state = "failed"]
    BY <1>2 DEF Advance, Failed
  <2>2. Advance(c, d) \in Chain
    BY <1>1, <2>1 DEF Chain, ChainState
  <2>3. /\ Advance(c, d).at = d /\ Advance(c, d).steps = c.steps
        /\ Advance(c, d).state = "failed"
    BY <1>1, <2>1
  <2> QED BY <2>2, <2>3 DEF Kept
<1>3. CASE c.steps # Limit
  <2>1. Advance(c, d) = [c EXCEPT !.at = d, !.steps = c.steps + 1]
    BY <1>1, <1>3 DEF Advance
  <2>2. c.steps + 1 \in 0..Limit
    BY <1>1, <1>3, RegistryAssumption
  <2>3. Advance(c, d) \in Chain
    BY <1>1, <2>1, <2>2 DEF Chain
  <2>4. /\ Advance(c, d).at = d /\ Advance(c, d).steps = c.steps + 1
        /\ Advance(c, d).state = "running"
    BY <1>1, <2>1
  <2> QED BY <1>1, <2>3, <2>4 DEF Kept
<1> QED BY <1>2, <1>3

LEMMA UnwrapIsURL ==
  ASSUME NEW u \in URL, u.layers > 0
  PROVE  UnwrapAMPCache(u) \in URL /\ UnwrapAMPCache(u) # u
<1>1. UnwrapAMPCache(u).layers = u.layers - 1 /\ u.layers \in 0..MaxLayers
  BY DEF URL, UnwrapAMPCache
<1>2. u.layers - 1 \in 0..MaxLayers /\ u.layers - 1 # u.layers
  BY <1>1, RegistryAssumption
<1> QED BY <1>1, <1>2 DEF URL, UnwrapAMPCache

LEMMA UntrackKeeps ==
  ASSUME NEW u \in URL, u.tracked
  PROVE  /\ Untrack(u) \in URL /\ Untrack(u) # u
         /\ IsPublicHTTPURL(Untrack(u)) <=> IsPublicHTTPURL(u)
<1>1. Untrack(u) \in URL
  BY DEF URL, Untrack
<1>2. /\ Untrack(u).tracked = FALSE /\ Untrack(u).layers = u.layers
      /\ Untrack(u).kind = u.kind /\ Untrack(u).host = u.host
  BY DEF URL, Untrack
<1> QED BY <1>1, <1>2 DEF IsPublicHTTPURL

LEMMA LocalKeeps ==
  ASSUME NEW c \in Chain, c.at \in URL, c.state = "running", ~Fetches(c.at)
  PROVE  Kept(c, Local(c))
<1>1. CASE MatchName(c.at) = NoRule
  <2>1. Local(c) = Done(c)
    BY <1>1 DEF Local
  <2> QED BY <1>1, <2>1 DEF Kept, Done, Chain, ChainState
<1>2. CASE MatchName(c.at) = "amp"
  <2>1. c.at.layers > 0 /\ IsPublicHTTPURL(UnwrapAMPCache(c.at))
    BY <1>2 DEF Fetches, Unwraps
  <2>2. Kept(c, Advance(c, UnwrapAMPCache(c.at)))
    BY <2>1, UnwrapIsURL, AdvanceKeeps
  <2> QED BY <1>2, <2>2 DEF Local, NoRule
<1>3. CASE MatchName(c.at) = "tracking-parameter"
  <2>1. c.at.tracked
    BY <1>3 DEF MatchName, NoRule
  <2>2. Kept(c, Advance(c, Untrack(c.at)))
    BY <2>1, UntrackKeeps, AdvanceKeeps
  <2> QED BY <1>3, <2>2 DEF Local, NoRule
<1>4. MatchName(c.at) # "google-share"
  BY DEF Fetches
<1> QED BY <1>1, <1>2, <1>3, <1>4 DEF MatchName

LEMMA FailedKeeps ==
  ASSUME NEW c \in Chain, c.at \in URL, c.state = "running"
  PROVE  Kept(c, Failed(c))
BY DEF Kept, Failed, Chain, ChainState

LEMMA FetchedKeeps ==
  ASSUME NEW c \in Chain, c.at \in URL, c.state = "running", Fetches(c.at),
         NEW final \in URL, NEW canonical \in URL \cup {NoURL}
  PROVE  Kept(c, Fetched(c, final, canonical))
<1> DEFINE d == IF IsGoogleShare(c.at) THEN final ELSE AMPDestination(final, canonical)
<1>1. d \in URL
  BY DEF AMPDestination
<1>2. CASE Accepted(c.at, d)
  <2>1. IsPublicHTTPURL(d) /\ (IF IsGoogleShare(c.at) THEN ~IsGoogleShare(d) ELSE ~IsAMPURL(d))
    BY <1>2 DEF Accepted
  <2>2. IsGoogleShare(c.at) \/ IsAMPURL(c.at)
    BY DEF Fetches, MatchName, NoRule
  <2>3. d # c.at
    BY <2>1, <2>2
  <2> HIDE DEF d
  <2>4. Kept(c, Advance(c, d))
    BY <1>1, <2>1, <2>3, AdvanceKeeps
  <2> QED BY <1>2, <2>4 DEF Fetched, d
<1>3. CASE ~Accepted(c.at, d)
  BY <1>3, FailedKeeps DEF Fetched
<1> QED BY <1>2, <1>3

-----------------------------------------------------------------------------
(* Facts about the message at hand.                                        *)

Work == [at : Stage, post : Post \cup {NoPost}, next : Nat, chain : Chain,
         dest : Seq(URL \cup {NoURL}), seen : Seq(BOOLEAN), fetches : Nat,
         failed : BOOLEAN, action : Action,
         rule : Resolver \cup {NoRule, "link-preview"}]

LEMMA MatchNameType == \A u : MatchName(u) \in Resolver \cup {NoRule}
BY DEF MatchName, Resolver

LEMMA NoURLIsNoURL == NoURL \notin URL
BY RegistryAssumption DEF URL, NoURL

LEMMA Products ==
  ASSUME NEW m \in Nat, NEW n \in Nat, NEW k \in Nat
  PROVE  /\ m * k \in Nat
         /\ (m + 1) * k = m * k + k
         /\ m <= n => m * k <= n * k
<1>1. m * k \in Nat /\ n * k \in Nat
  OBVIOUS
<1>2. (m + 1) * k = m * k + k
  OBVIOUS
<1>3. ASSUME m <= n PROVE m * k <= n * k
  <2>1. n = m + (n - m) /\ n - m \in Nat
    BY <1>3
  <2>2. PICK d \in Nat : n = m + d
    BY <2>1
  <2>3. n * k = m * k + d * k /\ d * k \in Nat
    BY <2>2
  <2> QED BY <1>1, <2>3
<1> QED BY <1>1, <1>2, <1>3

\* The URLs of the message, and where its pages are.
LEMMA UrlTypes ==
  ASSUME TypeOK
  PROVE  /\ work \in Work
         /\ Urls \in Seq(URL) /\ Len(Urls) \in Nat
         /\ work.post.only => Len(Urls) >= 1
         /\ work.post.previewOff \in BOOLEAN /\ work.post.only \in BOOLEAN
         /\ Len(work.dest) \in Nat /\ Len(work.seen) \in Nat
<1>1. work \in Work
  BY DEF TypeOK, Work
<1>2. work.post \in [urls : Seq(URL), only : BOOLEAN, previewOff : BOOLEAN, overlap : BOOLEAN]
  <2>1. NoPost \in [urls : Seq(URL), only : BOOLEAN, previewOff : BOOLEAN, overlap : BOOLEAN]
    BY DEF NoPost
  <2> QED BY <1>1, <2>1, PolicyAssumption DEF Work
<1>3. work.post.only => Urls # <<>>
  BY <1>1, PolicyAssumption DEF Work, NoPost, Urls
<1> QED BY <1>1, <1>2, <1>3 DEF Work, Urls

LEMMA TargetType ==
  ASSUME TypeOK, NEW i \in 1..Len(Urls), Len(work.dest) = Len(Urls)
  PROVE  Target(i) \in URL /\ Target(i).host \in Host
<1>1. Urls[i] \in URL /\ work.dest[i] \in URL \cup {NoURL}
  BY UrlTypes DEF Work
<1>2. Target(i) \in URL
  BY <1>1 DEF Target
<1> QED BY <1>2 DEF URL

\* The same message with the same destinations has the same targets.
LEMMA SameTargets ==
  ASSUME work'.post = work.post, work'.dest = work.dest
  PROVE  /\ Urls' = Urls /\ Rewritten' = Rewritten
         /\ \A i : Target(i)' = Target(i)
         /\ Matched => Matched'
BY DEF Urls, Rewritten, Target, Matched

\* and what was judged on them stays so while no page is forgotten.
LEMMA SameJudgements ==
  ASSUME TypeOK, Placed, Judged, work'.post = work.post, work'.dest = work.dest,
         work'.seen = work.seen, work'.at # "idle", Len(work.dest) = Len(Urls),
         \A h \in Host : probed'[h] = probed[h] \/ probed'[h] = 0
  PROVE  Judged'
<1> SUFFICES ASSUME NEW i \in DOMAIN work.seen
             PROVE  IF work.seen[i] THEN Earned(Target(i).host)'
                                    ELSE IsPublicHTTPURL(Target(i))
  BY SameTargets DEF Judged
<1>1. i \in 1..Len(Urls)
  BY UrlTypes DEF Placed, Work
<1>2. Target(i).host \in Host
  BY <1>1, TargetType
<1>3. Target(i)' = Target(i)
  BY SameTargets
<1>4. CASE work.seen[i]
  <2>1. Earned(Target(i).host)
    BY <1>4 DEF Judged
  <2>2. Earned(Target(i).host)'
    BY <1>2, <1>3, <2>1, PolicyAssumption DEF Earned
  <2> QED BY <1>4, <2>2
<1>5. CASE ~work.seen[i]
  BY <1>5 DEF Judged
<1> QED BY <1>4, <1>5

LEMMA Shares ==
  ASSUME NEW n \in Nat, NEW d \in Nat, NEW l \in Nat, d <= n
  PROVE  /\ n * (l + 1) \in Nat /\ d * (l + 1) \in Nat
         /\ n * (l + 2) = n * (l + 1) + n
         /\ d * (l + 1) <= n * (l + 1)
         /\ (d + 1) * (l + 1) = d * (l + 1) + l + 1
         /\ d + 1 <= n => d * (l + 1) + l + 1 <= n * (l + 1)
<1>1. PICK k \in Nat : k = l + 1
  OBVIOUS
<1>2. n * k \in Nat /\ d * k \in Nat /\ d * k <= n * k /\ (d + 1) * k = d * k + k
  BY Products
<1>3. d + 1 <= n => (d + 1) * k <= n * k
  <2>1. d + 1 \in Nat
    OBVIOUS
  <2> QED BY <2>1, Products
<1>4. n * (l + 2) = n * (l + 1) + n
  OBVIOUS
<1> QED BY <1>1, <1>2, <1>3, <1>4

\* No stage has asked for more than its share.
LEMMA ShareKept ==
  ASSUME TypeOK, Placed, Budget
  PROVE  /\ work.fetches <= Len(Urls) * (Limit + 1) + Len(Urls)
         /\ work.at = "fetch" => work.fetches < Len(Urls) * (Limit + 1) + Len(Urls)
<1>1. /\ Len(Urls) \in Nat /\ Len(work.dest) \in Nat /\ Len(work.seen) \in Nat
      /\ Limit \in Nat /\ Len(work.dest) <= Len(Urls) /\ Len(work.seen) <= Len(Urls)
      /\ work.fetches \in Nat /\ work.chain.steps \in 0..Limit /\ work.at \in Stage
  BY UrlTypes, RegistryAssumption DEF Placed, Work, Chain
<1>2. PICK n \in Nat : n = Len(Urls) * (Limit + 1)
  BY <1>1, Shares
<1>3. PICK d \in Nat : d = Len(work.dest) * (Limit + 1)
  BY <1>1, Shares
<1>4. d <= n
  BY <1>1, <1>2, <1>3, Shares
<1>5. work.at = "resolve" => d + Limit + 1 <= n
  <2>1. work.at = "resolve" => Len(work.dest) + 1 <= Len(Urls)
    BY <1>1 DEF Placed
  <2> QED BY <1>1, <1>2, <1>3, <2>1, Shares
<1>6. work.at \in {"fetch", "record"} => Len(work.seen) + 1 <= Len(Urls)
  BY <1>1 DEF Placed, Previewing
<1>7. /\ work.at = "match" => work.fetches <= d
      /\ work.at = "resolve" => work.fetches <= d + work.chain.steps + 1
      /\ work.at \in {"rewrite", "lookup"} => work.fetches <= n
      /\ work.at \in {"trust", "fetch"} => work.fetches <= n + Len(work.seen)
      /\ work.at = "record" => work.fetches <= n + Len(work.seen) + 1
      /\ work.at \in {"idle", "done"} => work.fetches <= n + Len(Urls)
  <2>1. work.at = "resolve" => work.fetches <= d + work.chain.steps + 1
    <3>1. work.at = "resolve" =>
            work.fetches <= d + work.chain.steps
                              + (IF work.chain.state = "running" THEN 0 ELSE 1)
      BY <1>3 DEF Budget
    <3> QED BY <1>1, <3>1
  <2>2. /\ work.at = "match" => work.fetches <= d
        /\ work.at \in {"rewrite", "lookup"} => work.fetches <= n
        /\ work.at \in {"idle", "done"} => work.fetches <= n + Len(Urls)
    BY <1>2, <1>3 DEF Budget
  <2>3. /\ work.at \in {"trust", "fetch"} => work.fetches <= n + Len(work.seen)
        /\ work.at = "record" => work.fetches <= n + Len(work.seen) + 1
    BY <1>2, <1>3 DEF Budget
  <2> QED BY <2>1, <2>2, <2>3
<1>8. work.at = "fetch" => work.fetches < n + Len(Urls)
  <2> SUFFICES ASSUME work.at = "fetch" PROVE work.fetches < n + Len(Urls)
    OBVIOUS
  <2>1. work.fetches <= n + Len(work.seen) /\ Len(work.seen) + 1 <= Len(Urls)
    BY <1>6, <1>7
  <2>2. PICK f \in Nat, u \in Nat, m \in Nat :
          f = work.fetches /\ u = Len(work.seen) /\ m = Len(Urls)
    BY <1>1
  <2>3. f <= n + u /\ u + 1 <= m
    BY <2>1, <2>2
  <2>4. f < n + m
    BY <2>3
  <2> QED BY <2>2, <2>4
<1>9. work.fetches <= n + Len(Urls)
  <2>1. CASE work.at \in {"match", "rewrite", "lookup", "idle", "done"}
    BY <1>1, <1>4, <1>7, <2>1
  <2>2. CASE work.at = "resolve"
    BY <1>1, <1>4, <1>5, <1>7, <2>2
  <2>3. CASE work.at \in {"trust", "fetch", "record"}
    BY <1>1, <1>6, <1>7, <2>3
  <2> QED BY <1>1, <2>1, <2>2, <2>3 DEF Stage
<1> QED BY <1>2, <1>8, <1>9

-----------------------------------------------------------------------------
(* The steps of a message, each for all conjuncts of the invariant.        *)

\* Ending a message: nothing collected changes, and what is done is sound.
LEMMA DecisionKeeps ==
  ASSUME IInv, work' \in Work, UNCHANGED <<trust, probed>>,
         work'.at = "done", work'.post = work.post, work'.next = work.next,
         work'.dest = work.dest, work'.seen = work.seen,
         work'.fetches <= Len(Urls) * (Limit + 1) + Len(Urls),
         work.seen # <<>> => Len(work.dest) = Len(Urls),
         Sound'
  PROVE  IInv'
<1>1. /\ TypeOK /\ Placed /\ Matched /\ Cached /\ Judged /\ work \in Work
      /\ Urls' = Urls
  BY UrlTypes DEF IInv, Urls
<1>2. TypeOK' /\ Placed'
  BY <1>1 DEF TypeOK, Work, Placed, Previewing
<1>3. Matched' /\ Chained' /\ Cached'
  BY <1>1, SameTargets DEF Chained, Cached
<1>4. Judged'
  <2>1. CASE work.seen = <<>>
    BY <2>1 DEF Judged
  <2>2. CASE work.seen # <<>>
    BY <1>1, <2>2, SameJudgements
  <2> QED BY <2>1, <2>2
<1>5. Budget'
  BY <1>1 DEF Budget
<1> QED BY <1>2, <1>3, <1>4, <1>5 DEF IInv

\* Whatever was judged, every wrapper had a destination by then.
LEMMA JudgedIsMatched ==
  ASSUME IInv, work.at # "done"
  PROVE  work.seen # <<>> => Len(work.dest) = Len(Urls)
BY DEF IInv, Placed, Previewing

\* A message that is let pass for a failure, or ended by the database.
LEMMA OpenIsSound ==
  ASSUME NEW action \in {"allow", "duplicate", "error"}, work' \in Work,
         work'.action = action,
         action = "allow" => work'.failed /\ Len(work'.dest) < Len(Urls')
  PROVE  Sound'
BY DEF Sound, NothingHalfRewritten, DeletionIsProven, PreviewIsNotBypassed, ReplacementWins

LEMMA ReceiveKeeps ==
  ASSUME IInv, NEW post \in Post, Receive(post)
  PROVE  IInv'
<1>1. /\ work' = [Idle EXCEPT !.at = "match", !.post = post]
      /\ UNCHANGED <<trust, probed>> /\ TypeOK /\ Cached
  BY DEF Receive, Now, IInv
<1>2. /\ work'.at = "match" /\ work'.post = post /\ work'.next = 1 /\ work'.dest = <<>>
      /\ work'.seen = <<>> /\ work'.fetches = 0 /\ work'.failed = FALSE
      /\ work'.action = "none"
  BY <1>1 DEF Idle
<1>3. work' \in Work
  <2>1. Start(NoURL) \in Chain
    BY RegistryAssumption DEF Start, Chain, ChainState
  <2>2. <<>> \in Seq(URL \cup {NoURL}) /\ <<>> \in Seq(BOOLEAN)
    OBVIOUS
  <2> QED BY <1>1, <2>1, <2>2 DEF Idle, Work, Stage, Action
<1>4. TypeOK'
  BY <1>1, <1>3 DEF TypeOK, Work
<1>5. Len(Urls') \in Nat
  BY <1>2, PolicyAssumption DEF Urls
<1>6. Placed'
  BY <1>2, <1>5 DEF Placed, Previewing
<1>7. Matched' /\ Chained' /\ Cached' /\ Judged'
  BY <1>1, <1>2 DEF Matched, Chained, Cached, Judged
<1>8. Sound'
  BY <1>2 DEF Sound, NothingHalfRewritten, DeletionIsProven, PreviewIsNotBypassed, ReplacementWins
<1>9. Budget'
  BY <1>2, RegistryAssumption DEF Budget
<1> QED BY <1>4, <1>6, <1>7, <1>8, <1>9 DEF IInv

LEMMA KnownKeeps ==
  ASSUME IInv, NEW action \in {"duplicate", "error"}, Known(action)
  PROVE  IInv'
<1>1. /\ work' = [work EXCEPT !.at = "done", !.action = action, !.rule = NoRule]
      /\ UNCHANGED <<trust, probed>> /\ work.at \in {"match", "lookup"} /\ work \in Work
  BY UrlTypes DEF Known, Now, Decided, IInv
<1>2. /\ work' \in Work /\ work'.at = "done" /\ work'.post = work.post
      /\ work'.next = work.next /\ work'.dest = work.dest /\ work'.seen = work.seen
      /\ work'.fetches = work.fetches /\ work'.action = action
  BY <1>1 DEF Work, Stage, Action
<1>3. Sound'
  BY <1>2, OpenIsSound
<1> QED BY <1>1, <1>2, <1>3, DecisionKeeps, ShareKept, JudgedIsMatched DEF IInv

LEMMA PassKeeps ==
  ASSUME IInv, Pass
  PROVE  IInv'
<1>1. /\ work' = [work EXCEPT !.next = work.next + 1, !.dest = Append(work.dest, NoURL)]
      /\ UNCHANGED <<trust, probed>> /\ work.at = "match" /\ work \in Work
      /\ work.next <= Len(Urls) /\ MatchName(Urls[work.next]) = NoRule
      /\ Len(Urls) \in Nat /\ Len(work.dest) \in Nat
  BY UrlTypes DEF Pass, Now, IInv
<1>2. /\ work' \in Work /\ work'.at = "match" /\ work'.post = work.post
      /\ work'.next = work.next + 1 /\ work'.dest = Append(work.dest, NoURL)
      /\ work'.seen = work.seen /\ work'.fetches = work.fetches
      /\ work'.action = work.action /\ work'.failed = work.failed
  <2>1. work.next + 1 \in Nat /\ Append(work.dest, NoURL) \in Seq(URL \cup {NoURL})
    BY <1>1 DEF Work
  <2> QED BY <1>1, <2>1 DEF Work
<1>3. /\ work.next = Len(work.dest) + 1 /\ work.seen = <<>> /\ ~work.failed
      /\ work.action = "none"
  BY <1>1 DEF IInv, Placed, Previewing
<1>4. Len(work'.dest) = Len(work.dest) + 1 /\ Urls' = Urls
  BY <1>1, <1>2 DEF Urls, Work
<1>5. TypeOK' /\ Placed'
  <2>1. TypeOK'
    BY <1>1, <1>2 DEF IInv, TypeOK, Work
  <2>2. Placed'
    BY <1>1, <1>2, <1>3, <1>4 DEF Work, Placed, Previewing
  <2> QED BY <2>1, <2>2
<1>6. Matched'
  BY <1>1, <1>2, <1>3, <1>4, SMTT(30) DEF IInv, Matched, Work
<1>7. Chained' /\ Cached' /\ Judged' /\ Sound'
  BY <1>1, <1>2, <1>3 DEF IInv, Chained, Cached, Judged, Sound, NothingHalfRewritten,
                          DeletionIsProven, PreviewIsNotBypassed, ReplacementWins
<1>8. Budget'
  <2>1. work.fetches <= Len(work.dest) * (Limit + 1)
    BY <1>1 DEF IInv, Budget
  <2>2. /\ Len(work.dest) * (Limit + 1) \in Nat
        /\ Len(work.dest) * (Limit + 1) <= Len(work'.dest) * (Limit + 1)
    BY <1>1, <1>4, Shares, RegistryAssumption
  <2>3. PICK d \in Nat : d = Len(work.dest) * (Limit + 1)
    BY <2>2
  <2>4. PICK e \in Nat : e = Len(work'.dest) * (Limit + 1)
    BY <1>1, <1>4, Shares, RegistryAssumption
  <2>5. work.fetches <= e
    BY <1>1, <2>1, <2>2, <2>3, <2>4 DEF Work
  <2> QED BY <1>2, <2>4, <2>5 DEF Budget
<1> QED BY <1>5, <1>6, <1>7, <1>8 DEF IInv

LEMMA MatchKeeps ==
  ASSUME IInv, Match
  PROVE  IInv'
<1>1. /\ work' = [work EXCEPT !.at = "resolve", !.chain = Start(Urls[work.next])]
      /\ UNCHANGED <<trust, probed>> /\ work.at = "match" /\ work \in Work
      /\ work.next <= Len(Urls) /\ Len(Urls) \in Nat /\ Urls \in Seq(URL)
  BY UrlTypes DEF Match, Now, IInv
<1>2. work.next = Len(work.dest) + 1 /\ work.seen = <<>> /\ ~work.failed /\ work.action = "none"
  BY <1>1 DEF IInv, Placed, Previewing
<1>3. Urls[work.next] \in URL
  BY <1>1, <1>2, UrlTypes DEF IInv
<1>4. Start(Urls[work.next]) \in Chain
  BY <1>3, RegistryAssumption DEF Start, Chain, ChainState
<1>5. /\ work' \in Work /\ work'.at = "resolve" /\ work'.post = work.post
      /\ work'.next = work.next /\ work'.dest = work.dest
      /\ work'.chain = Start(Urls[work.next])
      /\ work'.seen = work.seen /\ work'.fetches = work.fetches
      /\ work'.action = work.action /\ work'.failed = work.failed
  BY <1>1, <1>4 DEF Work, Stage
<1>6. TypeOK' /\ Placed'
  BY <1>1, <1>2, <1>5 DEF IInv, TypeOK, Work, Placed, Previewing, Urls
<1>7. Matched' /\ Cached' /\ Judged' /\ Sound'
  BY <1>1, <1>2, <1>5, SameTargets DEF IInv, Cached, Judged, Sound, NothingHalfRewritten,
                                       DeletionIsProven, PreviewIsNotBypassed, ReplacementWins
<1>8. Chained'
  BY <1>3, <1>5 DEF Chained, Start, Urls
<1>9. Budget'
  <2>1. work.fetches <= Len(work.dest) * (Limit + 1)
    BY <1>1 DEF IInv, Budget
  <2>2. PICK d \in Nat : d = Len(work.dest) * (Limit + 1)
    BY <1>1, UrlTypes, Shares, RegistryAssumption DEF IInv, Placed
  <2>3. work.fetches <= d + 0 + 0
    BY <1>1, <2>1, <2>2 DEF Work
  <2>4. work'.chain.steps = 0 /\ work'.chain.state = "running"
    BY <1>5 DEF Start
  <2> QED BY <1>5, <2>2, <2>3, <2>4 DEF Budget
<1> QED BY <1>6, <1>7, <1>8, <1>9 DEF IInv

\* A resolution, local or not, that costs at most one fetch.
LEMMA ChainStepKeeps ==
  ASSUME IInv, work.at = "resolve", work.chain.state = "running",
         NEW c, Kept(work.chain, c), NEW fetches \in Nat,
         fetches <= work.fetches + 1,
         work' = [work EXCEPT !.chain = c, !.fetches = fetches],
         UNCHANGED <<trust, probed>>
  PROVE  IInv'
<1>1. work \in Work /\ Len(Urls) \in Nat /\ c \in Chain
  BY UrlTypes DEF IInv, Kept
<1>2. work.next = Len(work.dest) + 1 /\ work.seen = <<>> /\ ~work.failed /\ work.action = "none"
  BY DEF IInv, Placed, Previewing
<1>3. /\ work' \in Work /\ work'.at = "resolve" /\ work'.post = work.post
      /\ work'.next = work.next /\ work'.dest = work.dest
      /\ work'.chain = c
      /\ work'.seen = work.seen /\ work'.fetches = fetches
      /\ work'.action = work.action /\ work'.failed = work.failed
  BY <1>1 DEF Work
<1>4. TypeOK' /\ Placed'
  BY <1>1, <1>2, <1>3 DEF IInv, TypeOK, Work, Placed, Previewing, Urls
<1>5. Matched' /\ Cached' /\ Judged' /\ Sound'
  BY <1>1, <1>2, <1>3, SameTargets DEF IInv, Cached, Judged, Sound, NothingHalfRewritten,
                                       DeletionIsProven, PreviewIsNotBypassed, ReplacementWins
<1>6. Chained'
  BY <1>3 DEF IInv, Chained, Kept, Urls
<1>7. Budget'
  <2>1. PICK d \in Nat : d = Len(work.dest) * (Limit + 1)
    BY <1>1, UrlTypes, Shares, RegistryAssumption DEF IInv, Placed
  <2>2. work.fetches <= d + work.chain.steps + 0
    BY <2>1 DEF IInv, Budget
  <2>3. c.steps + (IF c.state = "running" THEN 0 ELSE 1) = work.chain.steps + 1
    BY DEF Kept
  <2>4. work.chain.steps \in Nat /\ c.steps \in Nat /\ work.fetches \in Nat
    BY <1>1, RegistryAssumption DEF Work, Chain
  <2>5. fetches <= d + c.steps + (IF c.state = "running" THEN 0 ELSE 1)
    BY <2>2, <2>3, <2>4
  <2> QED BY <1>3, <2>1, <2>5 DEF Budget
<1> QED BY <1>4, <1>5, <1>6, <1>7 DEF IInv

LEMMA AskedAddsOne ==
  ASSUME TypeOK
  PROVE  Asked(work) \in Nat /\ Asked(work) <= work.fetches + 1 /\ work.fetches <= Asked(work)
BY DEF TypeOK, Asked

LEMMA ResolutionKeeps ==
  ASSUME IInv,
         \/ ResolveLocally
         \/ FetchFails
         \/ \E final \in Web, canonical \in Web \cup {NoURL} : ResolveByFetch(final, canonical)
  PROVE  IInv'
<1>1. TypeOK /\ work \in Work
  BY UrlTypes DEF IInv
<1>2. work.chain \in Chain /\ work.fetches \in Nat
  BY <1>1 DEF Work
<1>3. work.at = "resolve" /\ work.chain.state = "running" /\ UNCHANGED <<trust, probed>>
  BY DEF ResolveLocally, FetchFails, ResolveByFetch, Resolve, Now
<1>4. work.chain.at \in URL
  BY <1>3 DEF IInv, Chained
<1>5. CASE ResolveLocally
  <2>1. work' = [work EXCEPT !.chain = Local(work.chain)] /\ ~Fetches(work.chain.at)
    BY <1>5 DEF ResolveLocally, Now
  <2>2. work' = [work EXCEPT !.chain = Local(work.chain), !.fetches = work.fetches]
    BY <1>1, <2>1 DEF Work
  <2>3. Kept(work.chain, Local(work.chain))
    BY <1>2, <1>3, <1>4, <2>1, LocalKeeps
  <2>4. work.fetches <= work.fetches + 1
    BY <1>2
  <2> QED BY <1>2, <1>3, <2>2, <2>3, <2>4, ChainStepKeeps
<1>6. CASE FetchFails
  <2>1. work' = [work EXCEPT !.chain = Failed(work.chain), !.fetches = Asked(work)]
    BY <1>6 DEF FetchFails, Resolve, Now
  <2>2. Kept(work.chain, Failed(work.chain))
    BY <1>2, <1>3, <1>4, FailedKeeps
  <2> QED BY <1>1, <1>3, <2>1, <2>2, AskedAddsOne, ChainStepKeeps
<1>7. CASE \E final \in Web, canonical \in Web \cup {NoURL} : ResolveByFetch(final, canonical)
  <2>1. PICK final \in Web, canonical \in Web \cup {NoURL} : ResolveByFetch(final, canonical)
    BY <1>7
  <2>2. final \in URL /\ canonical \in URL \cup {NoURL}
    BY PolicyAssumption
  <2>3. /\ Fetches(work.chain.at)
        /\ work' = [work EXCEPT !.chain = Fetched(work.chain, final, canonical),
                                !.fetches = Asked(work)]
    BY <2>1 DEF ResolveByFetch, Resolve, Now
  <2>4. Kept(work.chain, Fetched(work.chain, final, canonical))
    BY <1>2, <1>3, <1>4, <2>2, <2>3, FetchedKeeps
  <2> QED BY <1>1, <1>3, <2>3, <2>4, AskedAddsOne, ChainStepKeeps
<1> QED BY <1>5, <1>6, <1>7

LEMMA EndOfChainKeeps ==
  ASSUME IInv, EndOfChain
  PROVE  IInv'
<1>1. /\ work.at = "resolve" /\ work.chain.state # "running" /\ UNCHANGED <<trust, probed>>
      /\ work' = Resolved(work) /\ work \in Work /\ TypeOK
      /\ Len(Urls) \in Nat /\ Len(work.dest) \in Nat
  BY UrlTypes DEF EndOfChain, Now, IInv
<1>2. /\ work.next = Len(work.dest) + 1 /\ work.next <= Len(Urls) /\ work.seen = <<>>
      /\ ~work.failed /\ work.action = "none"
  BY <1>1 DEF IInv, Placed, Previewing
<1>3. CASE work.chain.state = "done"
  <2>1. /\ work.chain.at \in URL /\ Clean(work.chain.at, Urls[work.next])
        /\ work.chain.at # NoURL
    BY <1>1, <1>3, NoURLIsNoURL DEF IInv, Chained, Clean
  <2>2. work' = [work EXCEPT !.at = "match", !.next = work.next + 1,
                             !.dest = Append(work.dest, work.chain.at)]
    BY <1>1, <1>3 DEF Resolved
  <2>3. /\ work' \in Work /\ work'.at = "match" /\ work'.post = work.post
        /\ work'.next = work.next + 1 /\ work'.dest = Append(work.dest, work.chain.at)
        /\ work'.seen = work.seen /\ work'.fetches = work.fetches
        /\ work'.action = work.action /\ work'.failed = work.failed
    <3>1. work.next + 1 \in Nat /\ Append(work.dest, work.chain.at) \in Seq(URL \cup {NoURL})
      BY <1>1, <2>1 DEF Work
    <3> QED BY <1>1, <2>2, <3>1 DEF Work, Stage
  <2>4. Len(work'.dest) = Len(work.dest) + 1 /\ Urls' = Urls
    BY <1>1, <2>3 DEF Urls, Work
  <2>5. TypeOK'
    BY <1>1, <2>3 DEF TypeOK, Work
  <2>6. Placed'
    BY <1>1, <1>2, <2>3, <2>4 DEF Work, Placed, Previewing
  <2>7. Matched'
    BY <1>1, <1>2, <2>1, <2>3, <2>4 DEF IInv, Matched, Work
  <2>8. Chained' /\ Cached' /\ Judged' /\ Sound'
    BY <1>1, <1>2, <2>3 DEF IInv, Chained, Cached, Judged, Sound, NothingHalfRewritten,
                            DeletionIsProven, PreviewIsNotBypassed, ReplacementWins
  <2>9. Budget'
    <3>1. PICK d \in Nat : d = Len(work.dest) * (Limit + 1)
      BY <1>1, UrlTypes, Shares, RegistryAssumption DEF IInv, Placed
    <3>2. work.fetches <= d + work.chain.steps + 1
      BY <1>1, <3>1 DEF IInv, Budget
    <3>3. work.chain.steps \in 0..Limit /\ work.fetches \in Nat
      BY <1>1 DEF Work, Chain
    <3>4. Len(work'.dest) * (Limit + 1) = d + Limit + 1
      <4>1. PICK k \in Nat : k = Limit + 1
        BY RegistryAssumption
      <4>2. (Len(work.dest) + 1) * k = Len(work.dest) * k + k
        BY <1>1, Products
      <4>3. (Len(work'.dest)) * k = d + k
        BY <2>4, <3>1, <4>1, <4>2
      <4>4. d + k = d + Limit + 1
        <5>1. d \in Nat
          BY <3>1
        <5>2. Limit \in Nat
          BY RegistryAssumption
        <5> QED BY <4>1, <5>1, <5>2
      <4> QED BY <4>1, <4>3, <4>4, Zenon
    <3>5. work.fetches <= d + Limit + 1
      BY <3>2, <3>3, RegistryAssumption
    <3> QED BY <2>3, <3>4, <3>5 DEF Budget
  <2> QED BY <2>5, <2>6, <2>7, <2>8, <2>9 DEF IInv
<1>4. CASE work.chain.state # "done"
  <2>1. work' = [work EXCEPT !.at = "done", !.action = "allow", !.failed = TRUE]
    BY <1>1, <1>4 DEF Resolved, Open
  <2>2. /\ work' \in Work /\ work'.at = "done" /\ work'.post = work.post
        /\ work'.next = work.next /\ work'.dest = work.dest /\ work'.seen = work.seen
        /\ work'.fetches = work.fetches /\ work'.action = "allow" /\ work'.failed
    BY <1>1, <2>1 DEF Work, Stage, Action
  <2> Len(work'.dest) < Len(Urls')
    BY <1>1, <1>2, <2>2 DEF Urls
  <2>3. Sound'
    BY <2>2, OpenIsSound
  <2> QED BY <1>1, <1>2, <2>2, <2>3, DecisionKeeps, ShareKept DEF IInv
<1> QED BY <1>3, <1>4

\* Going on to another stage with what was collected so far.
LEMMA StageKeeps ==
  ASSUME IInv, NEW stage \in {"rewrite", "lookup", "fetch"},
         work' = [work EXCEPT !.at = stage], UNCHANGED <<trust, probed>>,
         work.at \in {"match", "rewrite", "trust"}, Len(work.dest) = Len(Urls),
         stage = "lookup" => work.post.only, stage = "fetch" <=> work.at = "trust",
         stage = "fetch" => work.next <= Len(Urls)
  PROVE  IInv'
<1>1. work \in Work /\ TypeOK /\ Len(Urls) \in Nat
  BY UrlTypes DEF IInv
<1>2. /\ work' \in Work /\ work'.at = stage /\ work'.post = work.post
      /\ work'.next = work.next /\ work'.dest = work.dest
      /\ work'.seen = work.seen /\ work'.fetches = work.fetches
      /\ work'.action = work.action /\ work'.failed = work.failed
  BY <1>1 DEF Work, Stage
<1>3. TypeOK' /\ Urls' = Urls
  BY <1>1, <1>2 DEF TypeOK, Work, Urls
<1>4. Placed'
  BY <1>1, <1>2, <1>3 DEF IInv, Placed, Previewing
<1>5. Matched' /\ Chained' /\ Cached'
  BY <1>2, SameTargets DEF IInv, Chained, Cached
<1>6. Judged'
  BY <1>1, <1>2, SameJudgements DEF IInv
<1>7. Sound'
  BY <1>2 DEF IInv, Placed, Sound, NothingHalfRewritten, DeletionIsProven,
              PreviewIsNotBypassed, ReplacementWins
<1>8. Budget'
  BY <1>2, <1>3 DEF IInv, Budget
<1> QED BY <1>3, <1>4, <1>5, <1>6, <1>7, <1>8 DEF IInv

\* What the properties of a decision take.
LEMMA DecidedKeeps ==
  ASSUME IInv, work' \in Work, UNCHANGED <<trust, probed>>, work.at # "done",
         work'.at = "done", work'.post = work.post, work'.next = work.next,
         work'.dest = work.dest, work'.seen = work.seen,
         work'.fetches <= Len(Urls) * (Limit + 1) + Len(Urls),
         work'.action \in {"delete", "replace", "reply"} => Len(work.dest) = Len(Urls),
         work'.action = "delete" => /\ work.post.only /\ ~work'.failed
                                   /\ \E i \in DOMAIN work.seen :
                                        ~work.seen[i] /\ IsPublicHTTPURL(Target(i)),
         work.post.only /\ ~work'.failed /\ work'.action \in {"allow", "replace", "reply"} =>
           /\ Len(work.seen) = Len(Urls)
           /\ \A i \in DOMAIN work.seen : work.seen[i],
         work'.action \in {"allow", "reply"} => ~Rewritten
  PROVE  IInv'
<1>1. work \in Work /\ Urls \in Seq(URL) /\ Matched
  BY UrlTypes DEF IInv
<1>2. Urls' = Urls /\ \A i : Target(i)' = Target(i)
  BY SameTargets
<1>3. NothingHalfRewritten'
  <2>1. Len(work.dest) = Len(Urls) => DOMAIN Urls = DOMAIN work.dest
    BY <1>1 DEF Work
  <2> QED BY <1>1, <1>2, <2>1 DEF NothingHalfRewritten, Matched
<1>4. DeletionIsProven'
  BY <1>2 DEF DeletionIsProven
<1>5. PreviewIsNotBypassed'
  BY <1>2 DEF PreviewIsNotBypassed
<1>6. ReplacementWins'
  BY SameTargets DEF ReplacementWins
<1> QED BY <1>3, <1>4, <1>5, <1>6, DecisionKeeps, JudgedIsMatched DEF Sound

LEMMA ReplaceRuleType == ReplaceRule \in Resolver \cup {NoRule, "link-preview"}
BY MatchNameType DEF ReplaceRule

\* The same as it is written in the module.
LEMMA PlainDecisionKeeps ==
  ASSUME IInv, NEW action \in Action, NEW rule \in Resolver \cup {NoRule, "link-preview"},
         work' = Decided(action, rule), UNCHANGED <<trust, probed>>, work.at # "done",
         action \in {"delete", "replace", "reply"} => Len(work.dest) = Len(Urls),
         action = "delete" => /\ work.post.only
                              /\ \E i \in DOMAIN work.seen :
                                   ~work.seen[i] /\ IsPublicHTTPURL(Target(i)),
         work.post.only /\ action \in {"allow", "replace", "reply"} =>
           /\ Len(work.seen) = Len(Urls)
           /\ \A i \in DOMAIN work.seen : work.seen[i],
         action \in {"allow", "reply"} => ~Rewritten
  PROVE  IInv'
<1>1. TypeOK /\ Placed /\ Budget /\ work \in Work
  BY UrlTypes DEF IInv
<1>2. work' = [work EXCEPT !.at = "done", !.action = action, !.rule = rule] /\ ~work.failed
  BY <1>1 DEF Decided, Placed
<1>3. /\ work' \in Work /\ work'.at = "done" /\ work'.post = work.post
      /\ work'.next = work.next /\ work'.dest = work.dest /\ work'.seen = work.seen
      /\ work'.fetches = work.fetches /\ work'.action = action
      /\ work'.failed = work.failed
  BY <1>1, <1>2 DEF Work, Stage
<1>4. work.fetches <= Len(Urls) * (Limit + 1) + Len(Urls)
  BY <1>1, ShareKept
<1> QED BY <1>2, <1>3, <1>4, DecidedKeeps

LEMMA AllMatchedKeeps ==
  ASSUME IInv, AllMatched
  PROVE  IInv'
<1>1. /\ work.at = "match" /\ work.next > Len(Urls) /\ TypeOK /\ Placed /\ Budget
      /\ Len(Urls) \in Nat /\ Len(work.dest) \in Nat /\ work \in Work
      /\ work.post.only \in BOOLEAN
  BY UrlTypes DEF AllMatched, IInv
<1>2. Len(work.dest) = Len(Urls) /\ ~work.failed
  BY <1>1 DEF Placed
<1>3. CASE Rewritten
  BY <1>1, <1>2, <1>3, StageKeeps DEF AllMatched, Goto, Now
<1>4. CASE ~Rewritten /\ work.post.only
  BY <1>1, <1>2, <1>4, StageKeeps DEF AllMatched, Goto, Now
<1>5. CASE ~Rewritten /\ ~work.post.only
  <2>1. work' = Decided("allow", NoRule) /\ UNCHANGED <<trust, probed>>
    BY <1>5 DEF AllMatched, Now
  <2> QED BY <1>1, <1>5, <2>1, PlainDecisionKeeps DEF Action
<1> QED BY <1>3, <1>4, <1>5

LEMMA RewriteKeeps ==
  ASSUME IInv, Rewrite
  PROVE  IInv'
<1>1. /\ work.at = "rewrite" /\ TypeOK /\ Placed /\ Budget /\ work \in Work
      /\ work.post.only \in BOOLEAN
  BY UrlTypes DEF Rewrite, IInv
<1>2. Len(work.dest) = Len(Urls) /\ work.fetches \in Nat /\ work.failed \in BOOLEAN
  BY <1>1 DEF Placed, Work
<1>3. CASE work.post.overlap
  <2>1. work' = Decided("error", NoRule) /\ UNCHANGED <<trust, probed>>
    BY <1>3 DEF Rewrite, Now
  <2> QED BY <1>1, <2>1, PlainDecisionKeeps DEF Action
<1>4. CASE ~work.post.overlap /\ work.post.only
  BY <1>1, <1>2, <1>4, StageKeeps DEF Rewrite, Goto, Now
<1>5. CASE ~work.post.overlap /\ ~work.post.only
  <2>1. work' = Decided("replace", ReplaceRule) /\ UNCHANGED <<trust, probed>>
    BY <1>5 DEF Rewrite, Now
  <2> QED BY <1>1, <1>2, <1>5, <2>1, PlainDecisionKeeps, ReplaceRuleType DEF Action
<1> QED BY <1>3, <1>4, <1>5

LEMMA BeginPreviewKeeps ==
  ASSUME IInv, BeginPreview
  PROVE  IInv'
<1>1. /\ work.at = "lookup" /\ work' = [work EXCEPT !.at = "trust", !.next = 1]
      /\ UNCHANGED <<trust, probed>> /\ TypeOK /\ Placed /\ work \in Work
      /\ Len(Urls) \in Nat
  BY UrlTypes DEF BeginPreview, Now, IInv
<1>2. /\ Len(work.dest) = Len(Urls) /\ work.post.only /\ work.seen = <<>>
      /\ ~work.failed /\ work.action = "none"
  BY <1>1 DEF Placed, Previewing
<1>3. /\ work' \in Work /\ work'.at = "trust" /\ work'.post = work.post
      /\ work'.next = 1 /\ work'.dest = work.dest /\ work'.seen = <<>>
      /\ work'.fetches = work.fetches /\ work'.action = work.action
      /\ work'.failed = work.failed
  BY <1>1, <1>2 DEF Work, Stage
<1>4. TypeOK' /\ Urls' = Urls
  BY <1>1, <1>3 DEF TypeOK, Work, Urls
<1>5. Placed'
  BY <1>1, <1>2, <1>3, <1>4 DEF Placed, Previewing
<1>6. Matched' /\ Chained' /\ Cached' /\ Judged'
  BY <1>1, <1>3, SameTargets DEF IInv, Chained, Cached, Judged
<1>7. Sound'
  BY <1>2, <1>3 DEF Sound, NothingHalfRewritten, DeletionIsProven, PreviewIsNotBypassed, ReplacementWins
<1>8. Budget'
  <2>1. PICK n \in Nat : n = Len(Urls) * (Limit + 1)
    <3>1. Len(Urls) <= Len(Urls)
      BY <1>1
    <3> QED BY <1>1, <3>1, Shares, RegistryAssumption
  <2>2. work.fetches <= n
    BY <1>1, <2>1 DEF IInv, Budget
  <2>3. work'.fetches <= n + Len(work'.seen)
    BY <1>1, <1>3, <2>2 DEF Work
  <2> QED BY <1>3, <1>4, <2>1, <2>3 DEF Budget
<1> QED BY <1>4, <1>5, <1>6, <1>7, <1>8 DEF IInv

\* One more preview judged, on good grounds.
LEMMA JudgeKeeps ==
  ASSUME IInv, NEW useful \in BOOLEAN, NEW fetches \in Nat,
         work.at \in Previewing, work.next <= Len(Urls),
         work' = [work EXCEPT !.at = "trust", !.next = work.next + 1,
                              !.seen = Append(work.seen, useful), !.fetches = fetches],
         fetches <= Len(Urls) * (Limit + 1) + Len(work.seen) + 1,
         trust' \in [Host -> 0..Longest], probed' = probed,
         \A h \in Host : probed'[h] <= trust'[h],
         IF useful THEN Earned(PreviewHost) ELSE IsPublicHTTPURL(Target(work.next))
  PROVE  IInv'
<1>1. /\ TypeOK /\ Placed /\ Judged /\ work \in Work /\ Len(Urls) \in Nat
      /\ Len(work.seen) \in Nat
  BY UrlTypes DEF IInv
<1>2. /\ Len(work.dest) = Len(Urls) /\ work.post.only /\ work.next = Len(work.seen) + 1
      /\ ~work.failed /\ work.action = "none"
  BY <1>1 DEF Placed, Previewing
<1>3. /\ work' \in Work /\ work'.at = "trust" /\ work'.post = work.post
      /\ work'.next = work.next + 1 /\ work'.dest = work.dest
      /\ work'.seen = Append(work.seen, useful)
      /\ work'.fetches = fetches /\ work'.action = work.action
      /\ work'.failed = work.failed
  <2>1. work.next + 1 \in Nat /\ Append(work.seen, useful) \in Seq(BOOLEAN)
    BY <1>1 DEF Work
  <2> QED BY <1>1, <2>1 DEF Work, Stage
<1>4. TypeOK' /\ Urls' = Urls
  BY <1>1, <1>3 DEF TypeOK, Work, Urls
<1>5. Len(work'.seen) = Len(work.seen) + 1
  BY <1>1, <1>3 DEF Work
<1>6. Placed'
  BY <1>1, <1>2, <1>3, <1>4, <1>5 DEF Placed, Previewing
<1>7. Matched' /\ Chained' /\ Cached'
  BY <1>3, SameTargets DEF IInv, Chained, Cached
<1>8. Judged'
  <2> SUFFICES ASSUME NEW i \in DOMAIN work'.seen
               PROVE  IF work'.seen[i] THEN Earned(Target(i).host)'
                                       ELSE IsPublicHTTPURL(Target(i))
    BY <1>3, SameTargets DEF Judged
  <2>1. Target(i)' = Target(i) /\ (Earned(Target(i).host)' <=> Earned(Target(i).host))
    BY <1>3, SameTargets DEF Earned
  <2>2. CASE i \in DOMAIN work.seen
    <3>1. work'.seen[i] = work.seen[i]
      BY <1>1, <1>3, <2>2 DEF Work
    <3> QED BY <1>1, <2>1, <2>2, <3>1 DEF Judged
  <2>3. CASE i \notin DOMAIN work.seen
    <3>1. i = work.next /\ work'.seen[i] = useful
      BY <1>1, <1>2, <1>3, <1>5, <2>3 DEF Work
    <3> QED BY <2>1, <3>1 DEF PreviewHost
  <2> QED BY <2>2, <2>3
<1>9. Sound'
  BY <1>2, <1>3 DEF Sound, NothingHalfRewritten, DeletionIsProven, PreviewIsNotBypassed, ReplacementWins
<1>10. Budget'
  <2>1. PICK n \in Nat : n = Len(Urls) * (Limit + 1)
    <3>1. Len(Urls) <= Len(Urls)
      BY <1>1
    <3> QED BY <1>1, <3>1, Shares, RegistryAssumption
  <2>2. fetches <= n + Len(work'.seen)
    BY <1>1, <1>5, <2>1
  <2> QED BY <1>3, <1>4, <2>1, <2>2 DEF Budget
<1> QED BY <1>4, <1>6, <1>7, <1>8, <1>9, <1>10 DEF IInv

LEMMA PreviewStage ==
  ASSUME IInv, work.at \in Previewing, work.next <= Len(Urls)
  PROVE  /\ TypeOK /\ Placed /\ work \in Work /\ work.next \in 1..Len(Urls)
         /\ Len(work.dest) = Len(Urls) /\ work.post.only
         /\ PreviewHost \in Host /\ trust[PreviewHost] \in Nat /\ probed[PreviewHost] \in Nat
         /\ trust \in [Host -> 0..Longest] /\ \A h \in Host : probed[h] <= trust[h]
<1>1. TypeOK /\ Placed /\ Cached /\ work \in Work /\ Len(Urls) \in Nat
  BY UrlTypes DEF IInv
<1>2. work.next \in 1..Len(Urls) /\ Len(work.dest) = Len(Urls) /\ work.post.only
  BY <1>1 DEF Placed, Work
<1>3. PreviewHost \in Host
  BY <1>1, <1>2, TargetType DEF PreviewHost
<1>4. trust \in [Host -> 0..Longest] /\ probed \in [Host -> 0..Longest]
  BY <1>1 DEF TypeOK
<1> QED BY <1>1, <1>2, <1>3, <1>4 DEF Cached

\* What a stage of the preview may have asked for, with one question more.
LEMMA PreviewShare ==
  ASSUME IInv, work.at \in Previewing
  PROVE  /\ work.fetches <= Len(Urls) * (Limit + 1) + Len(work.seen) + 1
         /\ work.at \in {"trust", "fetch"} =>
              Asked(work) <= Len(Urls) * (Limit + 1) + Len(work.seen) + 1
<1>1. /\ TypeOK /\ work \in Work /\ Len(Urls) \in Nat /\ Len(work.seen) \in Nat
      /\ Len(Urls) <= Len(Urls) /\ Limit \in Nat /\ Budget
  BY UrlTypes, RegistryAssumption DEF IInv
<1>2. PICK n \in Nat : n = Len(Urls) * (Limit + 1)
  BY <1>1, Shares
<1>3. /\ work.at \in {"trust", "fetch"} => work.fetches <= n + Len(work.seen)
      /\ work.at = "record" => work.fetches <= n + Len(work.seen) + 1
  BY <1>1, <1>2 DEF Budget
<1>4. Asked(work) \in Nat /\ Asked(work) <= work.fetches + 1 /\ work.fetches \in Nat
  BY <1>1, AskedAddsOne DEF Work
<1>5. n \in Nat
  BY <1>2
<1>6. work.fetches <= n + Len(work.seen) + 1
  BY <1>1, <1>3, <1>4, <1>5 DEF Previewing
<1>7. work.at \in {"trust", "fetch"} => Asked(work) <= n + Len(work.seen) + 1
  BY <1>1, <1>3, <1>4, <1>5
<1> QED BY <1>2, <1>6, <1>7

LEMMA TrustKeeps ==
  ASSUME IInv, Trust
  PROVE  IInv'
<1>1. work.at = "trust" /\ work.next <= Len(Urls)
  BY DEF Trust
<1>2. /\ TypeOK /\ Placed /\ work \in Work /\ Len(work.dest) = Len(Urls)
      /\ PreviewHost \in Host /\ trust[PreviewHost] \in Nat /\ probed[PreviewHost] \in Nat
      /\ trust \in [Host -> 0..Longest] /\ \A h \in Host : probed[h] <= trust[h]
  BY <1>1, PreviewStage DEF Previewing
<1>3. CASE Skips
  <2>1. work' = Judge(TRUE) /\ UNCHANGED <<trust, probed>>
    BY <1>3 DEF Trust, Now
  <2>2. work' = [work EXCEPT !.at = "trust", !.next = work.next + 1,
                             !.seen = Append(work.seen, TRUE), !.fetches = work.fetches]
    BY <1>2, <2>1 DEF Judge, Work
  <2>3. Earned(PreviewHost)
    BY <1>2, <1>3, PolicyAssumption DEF Skips, KnownGoodPreviewDomain, Earned
  <2>4. work.fetches \in Nat
    BY <1>2 DEF Work
  <2>5. work.fetches <= Len(Urls) * (Limit + 1) + Len(work.seen) + 1
    BY <1>1, PreviewShare DEF Previewing
  <2>6. trust' = trust /\ probed' = probed
    BY <2>1
  <2> QED BY <1>1, <1>2, <2>2, <2>3, <2>4, <2>5, <2>6, JudgeKeeps DEF Previewing
<1>4. CASE ~Skips
  BY <1>1, <1>2, <1>4, StageKeeps DEF Trust, Goto, Now
<1> QED BY <1>3, <1>4

LEMMA PreviewFailsKeeps ==
  ASSUME IInv, PreviewFails
  PROVE  IInv'
<1>1. work.at \in Previewing /\ work.next <= Len(Urls) /\ UNCHANGED <<trust, probed>>
  BY DEF PreviewFails, Now, Previewing
<1>2. TypeOK /\ Placed /\ Budget /\ work \in Work /\ Len(work.dest) = Len(Urls)
  BY <1>1, PreviewStage DEF IInv
<1>3. PICK f \in Nat : f = IF work.at = "fetch" THEN Asked(work) ELSE work.fetches
  BY <1>2, AskedAddsOne DEF Work
<1>4. f <= Len(Urls) * (Limit + 1) + Len(Urls)
  <2>1. Len(Urls) \in Nat /\ Len(Urls) <= Len(Urls) /\ Limit \in Nat /\ work.fetches \in Nat
    BY <1>2, UrlTypes, RegistryAssumption DEF Work
  <2>2. PICK n \in Nat : n = Len(Urls) * (Limit + 1)
    BY <2>1, Shares
  <2>3. work.fetches <= n + Len(Urls) /\ (work.at = "fetch" => work.fetches < n + Len(Urls))
    BY <1>2, <2>2, ShareKept
  <2>4. Asked(work) \in Nat /\ Asked(work) <= work.fetches + 1
    BY <1>2, AskedAddsOne
  <2>5. f <= n + Len(Urls)
    BY <1>3, <2>1, <2>2, <2>3, <2>4
  <2> QED BY <2>2, <2>5
<1>5. CASE Rewritten
  <2>1. work' = [work EXCEPT !.at = "done", !.action = "replace", !.rule = ReplaceRule,
                             !.failed = TRUE, !.fetches = f]
    BY <1>2, <1>3, <1>5 DEF PreviewFails, Now, Unjudged, Decided, Work
  <2>2. /\ work' \in Work /\ work'.at = "done" /\ work'.post = work.post
        /\ work'.next = work.next /\ work'.dest = work.dest /\ work'.seen = work.seen
        /\ work'.fetches = f /\ work'.action = "replace" /\ work'.failed = TRUE
    BY <1>2, <1>3, <2>1, ReplaceRuleType DEF Work, Stage, Action
  <2> QED BY <1>1, <1>2, <1>4, <2>2, DecidedKeeps DEF Previewing
<1>6. CASE ~Rewritten
  <2>1. work' = [work EXCEPT !.at = "done", !.action = "allow", !.failed = TRUE, !.fetches = f]
    BY <1>2, <1>3, <1>6 DEF PreviewFails, Now, Unjudged, Open, Work
  <2>2. /\ work' \in Work /\ work'.at = "done" /\ work'.post = work.post
        /\ work'.next = work.next /\ work'.dest = work.dest /\ work'.seen = work.seen
        /\ work'.fetches = f /\ work'.action = "allow" /\ work'.failed = TRUE
    BY <1>2, <1>3, <2>1 DEF Work, Stage, Action
  <2> QED BY <1>1, <1>2, <1>4, <1>6, <2>2, DecidedKeeps DEF Previewing
<1> QED BY <1>5, <1>6

LEMMA FetchMetadataKeeps ==
  ASSUME IInv, NEW useful \in BOOLEAN, FetchMetadata(useful)
  PROVE  IInv'
<1>1. /\ work.at = "fetch" /\ IsPublicHTTPURL(Target(work.next)) /\ UNCHANGED trust
  BY DEF FetchMetadata
<1>2. work.next <= Len(Urls) /\ Len(Urls) \in Nat
  BY <1>1, UrlTypes DEF IInv, Placed
<1>3. /\ TypeOK /\ Placed /\ work \in Work /\ Len(work.dest) = Len(Urls)
      /\ work.post.only /\ PreviewHost \in Host
      /\ trust \in [Host -> 0..Longest] /\ \A h \in Host : probed[h] <= trust[h]
  BY <1>1, <1>2, PreviewStage DEF Previewing
<1>4. /\ Asked(work) \in Nat
      /\ Asked(work) <= Len(Urls) * (Limit + 1) + Len(work.seen) + 1
  BY <1>1, <1>3, AskedAddsOne, PreviewShare DEF Previewing
<1>5. CASE ~useful
  <2>1. work' = [Judge(FALSE) EXCEPT !.fetches = Asked(work)] /\ probed' = probed /\ trust' = trust
    BY <1>1, <1>5 DEF FetchMetadata
  <2>2. work' = [work EXCEPT !.at = "trust", !.next = work.next + 1,
                             !.seen = Append(work.seen, FALSE), !.fetches = Asked(work)]
    BY <1>3, <2>1 DEF Judge, Work
  <2> QED BY <1>1, <1>2, <1>3, <1>4, <2>1, <2>2, JudgeKeeps DEF Previewing
<1>6. CASE useful
  <2>1. /\ work' = [work EXCEPT !.at = "record", !.fetches = Asked(work)]
        /\ probed' = [probed EXCEPT ![PreviewHost] = 0] /\ trust' = trust
    BY <1>1, <1>6 DEF FetchMetadata
  <2>2. /\ work' \in Work /\ work'.at = "record" /\ work'.post = work.post
        /\ work'.next = work.next /\ work'.dest = work.dest /\ work'.seen = work.seen
        /\ work'.fetches = Asked(work) /\ work'.action = work.action
        /\ work'.failed = work.failed
    BY <1>3, <1>4, <2>1 DEF Work, Stage
  <2>3. Urls' = Urls /\ PreviewHost' = PreviewHost
    BY <2>2, SameTargets DEF PreviewHost, Urls
  <2>4. 0 \in 0..Longest /\ probed \in [Host -> 0..Longest]
    BY <1>3, PolicyAssumption DEF TypeOK, Longest
  <2>5. TypeOK'
    BY <1>3, <2>1, <2>2, <2>4 DEF TypeOK, Work
  <2>6. Placed'
    BY <1>1, <1>2, <1>3, <2>2, <2>3 DEF Placed, Previewing
  <2>7. Cached'
    BY <1>3, <2>1, <2>3, <2>4 DEF Cached
  <2>8. \A h \in Host : probed'[h] = probed[h] \/ probed'[h] = 0
    BY <1>3, <2>1, <2>4
  <2>9. Judged'
    BY <1>3, <2>2, <2>8, SameJudgements DEF IInv
  <2>10. Matched' /\ Chained'
    BY <2>2, SameTargets DEF IInv, Chained
  <2>11. Sound'
    BY <1>1, <1>3, <2>2 DEF Placed, Sound, NothingHalfRewritten, DeletionIsProven,
                            PreviewIsNotBypassed, ReplacementWins
  <2>12. Budget'
    BY <1>4, <2>2, <2>3 DEF Budget
  <2> QED BY <2>5, <2>6, <2>7, <2>9, <2>10, <2>11, <2>12 DEF IInv
<1> QED BY <1>5, <1>6

LEMMA RecordKeeps ==
  ASSUME IInv, RecordKnownGoodPreviewDomain
  PROVE  IInv'
<1>1. /\ work.at = "record" /\ work' = Judge(TRUE) /\ probed' = probed
      /\ trust' = IF PreviewHost \in NeverTrusted THEN trust
                  ELSE [trust EXCEPT ![PreviewHost] = 0]
  BY DEF RecordKnownGoodPreviewDomain
<1>2. work.next <= Len(Urls)
  BY <1>1 DEF IInv, Placed
<1>3. /\ TypeOK /\ work \in Work /\ PreviewHost \in Host
      /\ trust \in [Host -> 0..Longest] /\ \A h \in Host : probed[h] <= trust[h]
  BY <1>1, <1>2, PreviewStage DEF Previewing
<1>4. probed[PreviewHost] = 0 /\ Earned(PreviewHost)
  BY <1>1, PolicyAssumption DEF IInv, Cached, Earned
<1>5. 0 \in 0..Longest
  BY PolicyAssumption DEF Longest
<1>6. trust' \in [Host -> 0..Longest] /\ \A h \in Host : probed'[h] <= trust'[h]
  BY <1>1, <1>3, <1>4, <1>5
<1>7. work' = [work EXCEPT !.at = "trust", !.next = work.next + 1,
                           !.seen = Append(work.seen, TRUE), !.fetches = work.fetches]
  BY <1>1, <1>3 DEF Judge, Work
<1>8. /\ work.fetches \in Nat
      /\ work.fetches <= Len(Urls) * (Limit + 1) + Len(work.seen) + 1
  BY <1>1, <1>3, PreviewShare DEF Previewing, Work
<1> QED BY <1>1, <1>2, <1>4, <1>6, <1>7, <1>8, JudgeKeeps DEF Previewing

LEMMA AllJudgedKeeps ==
  ASSUME IInv, AllJudged
  PROVE  IInv'
<1>1. /\ work.at = "trust" /\ work.next > Len(Urls) /\ work' = PreviewPlan
      /\ UNCHANGED <<trust, probed>>
  BY DEF AllJudged, Now
<1>2. /\ TypeOK /\ Placed /\ Judged /\ work \in Work /\ Len(Urls) \in Nat
      /\ Len(work.seen) \in Nat
  BY UrlTypes DEF IInv
<1>3. /\ work.post.only /\ Len(work.dest) = Len(Urls) /\ work.next = Len(work.seen) + 1
      /\ Len(work.seen) <= Len(Urls)
  BY <1>1, <1>2 DEF Placed, Previewing
<1>4. Len(work.seen) = Len(Urls) /\ Len(work.seen) >= 1
  BY <1>1, <1>2, <1>3, UrlTypes
<1>5. work.seen # <<>>
  BY <1>2, <1>4 DEF Work
<1>6. CASE ~AllUseful
  <2>1. PICK i \in DOMAIN work.seen : ~work.seen[i]
    BY <1>5, <1>6 DEF AllUseful
  <2>2. IsPublicHTTPURL(Target(i))
    BY <1>2, <2>1 DEF Judged
  <2>3. work' = Decided("delete", "link-preview")
    BY <1>1, <1>6 DEF PreviewPlan
  <2> QED BY <1>1, <1>3, <2>1, <2>2, <2>3, PlainDecisionKeeps DEF Action
<1>7. CASE AllUseful
  <2>1. \A i \in DOMAIN work.seen : work.seen[i]
    BY <1>7 DEF AllUseful
  <2>2. CASE Rewritten
    <3>1. work' = Decided("replace", ReplaceRule)
      BY <1>1, <1>7, <2>2 DEF PreviewPlan
    <3> QED BY <1>1, <1>3, <1>4, <2>1, <3>1, PlainDecisionKeeps, ReplaceRuleType DEF Action
  <2>3. CASE ~Rewritten /\ work.post.previewOff
    <3>1. work' = Decided("reply", "link-preview")
      BY <1>1, <1>7, <2>3 DEF PreviewPlan
    <3> QED BY <2>3, <1>1, <1>3, <1>4, <2>1, <3>1, PlainDecisionKeeps DEF Action
  <2>4. CASE ~Rewritten /\ ~work.post.previewOff
    <3>1. work' = Decided("allow", NoRule)
      BY <1>1, <1>7, <2>4 DEF PreviewPlan
    <3> QED BY <2>4, <1>1, <1>3, <1>4, <2>1, <3>1, PlainDecisionKeeps DEF Action
  <2> QED BY <2>2, <2>3, <2>4
<1> QED BY <1>6, <1>7

\* A fresh start satisfies every conjunct but that on the cache.
LEMMA IdleIsSound ==
  work = Idle => work \in Work /\ Placed /\ Matched /\ Chained /\ Judged /\ Sound /\ Budget
<1> SUFFICES ASSUME work = Idle
             PROVE  /\ work \in Work /\ Placed /\ Matched /\ Chained /\ Judged /\ Sound
                    /\ Budget
  OBVIOUS
<1>1. /\ work.at = "idle" /\ work.post = NoPost /\ work.next = 1 /\ work.dest = <<>>
      /\ work.seen = <<>> /\ work.fetches = 0 /\ work.failed = FALSE
      /\ work.action = "none"
  BY DEF Idle
<1>2. work \in Work
  <2>1. Start(NoURL) \in Chain
    BY RegistryAssumption DEF Start, Chain, ChainState
  <2>2. <<>> \in Seq(URL \cup {NoURL}) /\ <<>> \in Seq(BOOLEAN)
    OBVIOUS
  <2> QED BY <2>1, <2>2 DEF Idle, Work, Stage, Action
<1>3. Urls = <<>> /\ Len(Urls) = 0
  BY <1>1 DEF Urls, NoPost
<1>4. Placed /\ Matched /\ Chained /\ Judged
  BY <1>1, <1>3 DEF Placed, Previewing, Matched, Chained, Judged
<1>5. Sound
  BY <1>1 DEF Sound, NothingHalfRewritten, DeletionIsProven, PreviewIsNotBypassed, ReplacementWins
<1>6. Budget
  BY <1>1, <1>3, RegistryAssumption DEF Budget
<1> QED BY <1>2, <1>4, <1>5, <1>6

LEMMA TickKeeps ==
  ASSUME IInv, Tick
  PROVE  IInv'
<1>1. /\ work' = Idle
      /\ trust' = [h \in Host |-> CountUp(trust[h])]
      /\ probed' = [h \in Host |-> CountUp(probed[h])]
  BY DEF Tick
<1>2. /\ trust \in [Host -> 0..Longest] /\ probed \in [Host -> 0..Longest]
      /\ \A h \in Host : probed[h] <= trust[h]
  BY DEF IInv, TypeOK, Cached
<1>3. /\ trust' \in [Host -> 0..Longest] /\ probed' \in [Host -> 0..Longest]
      /\ \A h \in Host : probed'[h] <= trust'[h]
  BY <1>1, <1>2, PolicyAssumption DEF CountUp, Longest
<1>4. /\ work' \in Work /\ Placed' /\ Matched' /\ Chained' /\ Judged' /\ Sound'
      /\ Budget'
  <2>1. (work = Idle => work \in Work /\ Placed /\ Matched /\ Chained /\ Judged /\ Sound /\ Budget)'
    BY IdleIsSound, PTL
  <2> QED BY <1>1, <2>1
<1>5. work'.at = "idle"
  BY <1>1 DEF Idle
<1> QED BY <1>3, <1>4, <1>5 DEF IInv, TypeOK, Work, Cached

LEMMA InitKeeps ==
  ASSUME Init
  PROVE  IInv
<1>1. work = Idle /\ trust = [h \in Host |-> Longest] /\ probed = trust
  BY DEF Init
<1>2. /\ trust \in [Host -> 0..Longest] /\ probed \in [Host -> 0..Longest]
      /\ \A h \in Host : probed[h] <= trust[h]
  BY <1>1, PolicyAssumption DEF Longest
<1>3. work.at = "idle"
  BY <1>1 DEF Idle
<1> QED BY <1>1, <1>2, <1>3, IdleIsSound DEF IInv, TypeOK, Work, Cached

LEMMA StutterKeeps ==
  ASSUME IInv, UNCHANGED vars
  PROVE  IInv'
<1>1. work' = work /\ trust' = trust /\ probed' = probed
  BY DEF vars
<1>2. (\A i : Target(i)' = Target(i)) /\ Urls' = Urls
  BY <1>1, SameTargets
<1>3. TypeOK' /\ Placed' /\ Matched' /\ Chained'
  BY <1>1, <1>2 DEF IInv, TypeOK, Placed, Matched, Chained
<1>4. Cached' /\ Judged'
  BY <1>1, <1>2 DEF IInv, Cached, PreviewHost, Judged, Earned
<1>5. Sound' /\ Budget'
  BY <1>1, <1>2 DEF IInv, Sound, NothingHalfRewritten, DeletionIsProven,
                    PreviewIsNotBypassed, ReplacementWins, Rewritten, Budget
<1> QED BY <1>3, <1>4, <1>5 DEF IInv

LEMMA NextKeeps == IInv /\ [Next]_vars => IInv'
<1> SUFFICES ASSUME IInv, [Next]_vars PROVE IInv'
  OBVIOUS
<1>1. CASE \E post \in Post : Receive(post)
  BY <1>1, ReceiveKeeps
<1>2. CASE Handle
  <2>1. CASE \/ ResolveLocally \/ FetchFails
             \/ \E final \in Web, canonical \in Web \cup {NoURL} : ResolveByFetch(final, canonical)
    BY <2>1, ResolutionKeeps
  <2>2. CASE \/ Pass \/ Match \/ EndOfChain \/ AllMatched
             \/ \E action \in {"duplicate", "error"} : Known(action)
    BY <2>2, PassKeeps, MatchKeeps, EndOfChainKeeps, AllMatchedKeeps, KnownKeeps
  <2>3. CASE \/ Rewrite \/ BeginPreview \/ Trust \/ PreviewFails \/ AllJudged
             \/ RecordKnownGoodPreviewDomain
             \/ \E useful \in BOOLEAN : FetchMetadata(useful)
    BY <2>3, RewriteKeeps, BeginPreviewKeeps, TrustKeeps, PreviewFailsKeeps, AllJudgedKeeps,
       RecordKeeps, FetchMetadataKeeps
  <2> QED BY <1>2, <2>1, <2>2, <2>3 DEF Handle
<1>3. CASE Tick
  BY <1>3, TickKeeps
<1>4. CASE UNCHANGED vars
  BY <1>4, StutterKeeps
<1> QED BY <1>1, <1>2, <1>3, <1>4 DEF Next

-----------------------------------------------------------------------------
\* The inductive invariant of LinkPolicy.
THEOREM LinkPolicyInvariance == Spec => []IInv
BY InitKeeps, NextKeeps, PTL DEF Spec

\* Every reachable state of the pipeline is well typed.
THEOREM LinkPolicyTypeCorrect == Spec => []TypeOK
<1>1. IInv => TypeOK
  BY DEF IInv
<1> QED BY <1>1, LinkPolicyInvariance, PTL

\* Registry.Resolve: wherever the web leads, what replaces a wrapper is no
\* wrapper itself, and public unless the sender wrote the private address.
THEOREM DestinationsAreClean == Spec => []DestinationIsClean
<1>1. IInv => DestinationIsClean
  BY DEF IInv, Matched, Clean, DestinationIsClean
<1> QED BY <1>1, LinkPolicyInvariance, PTL

\* Wrappers that lead to wrappers, for ever or back to themselves, cost no more
\* than one fetch per resolver and two for each URL of a message.
THEOREM FetchesStayBounded == Spec => []FetchesAreBounded
<1>1. IInv => FetchesAreBounded
  <2> SUFFICES ASSUME IInv PROVE FetchesAreBounded
    OBVIOUS
  <2>1. TypeOK /\ Placed /\ Budget /\ Len(Urls) \in Nat /\ Limit \in Nat
    BY UrlTypes, RegistryAssumption DEF IInv
  <2>2. work.fetches <= Len(Urls) * (Limit + 1) + Len(Urls)
    BY <2>1, ShareKept
  <2>3. Len(Urls) * (Limit + 2) = Len(Urls) * (Limit + 1) + Len(Urls)
    <3>1. Len(Urls) <= Len(Urls)
      BY <2>1
    <3> QED BY <2>1, <3>1, Shares
  <2> QED BY <2>2, <2>3 DEF FetchesAreBounded
<1> QED BY <1>1, LinkPolicyInvariance, PTL

\* moderateLinks: a message is replaced, answered or deleted only when each of
\* its wrappers has a destination; one that fails leaves the message alone.
THEOREM NothingIsHalfRewritten == Spec => []NothingHalfRewritten
<1>1. IInv => NothingHalfRewritten
  BY DEF IInv, Sound
<1> QED BY <1>1, LinkPolicyInvariance, PTL

\* handleResolvedWrappersTraced: a message whose wrappers lead elsewhere is not
\* left as it was written, but for one whose next wrapper cannot be resolved.
THEOREM ReplacementsWin == Spec => []ReplacementWins
<1>1. IInv => ReplacementWins
  BY DEF IInv, Sound
<1> QED BY <1>1, LinkPolicyInvariance, PTL

\* moderatePreviewTraced: no link-only message is deleted for a page that could
\* not be read; one of its pages was read and was not useful.
THEOREM DeletionsAreProven == Spec => []DeletionIsProven
<1>1. IInv => DeletionIsProven
  BY DEF IInv, Sound
<1> QED BY <1>1, LinkPolicyInvariance, PTL

\* handleResolvedWrappersTraced: a wrapper is no way around the preview.
THEOREM PreviewsAreNotBypassed == Spec => []PreviewIsNotBypassed
<1>1. IInv => PreviewIsNotBypassed
  BY DEF IInv, Sound
<1> QED BY <1>1, LinkPolicyInvariance, PTL

\* KnownGoodPreviewDomain: the cache adds nothing to what a fetch has earned.
THEOREM TrustStaysEarned == Spec => []TrustIsEarned
<1>1. IInv => TrustIsEarned
  BY DEF IInv, Judged, Earned, TrustIsEarned
<1> QED BY <1>1, LinkPolicyInvariance, PTL
=============================================================================
