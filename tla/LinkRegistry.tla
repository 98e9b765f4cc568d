---------------------------- MODULE LinkRegistry ----------------------------
(***************************************************************************)
(* The resolvers of pkg/core/link/registry.go and the chain in which       *)
(* Registry.Resolve applies them.  A URL is what the resolvers look at:    *)
(*   layers   the AMP cache prefixes around it, each of which names the    *)
(*            URL inside (unwrapAMPCache)                                  *)
(*   kind     "share" for share.google and goo.gl, "amp" for an AMP shape  *)
(*            that names no other URL, "plain" for the rest                *)
(*   tracked  whether its query holds a known tracking parameter           *)
(*   host     the site, with the scheme and the path; of a cached URL the  *)
(*            one inside.  The pages of a cache's own host that wrap       *)
(*            nothing are left out.                                        *)
(* A chain is one URL on its way; the web decides what a fetch returns, so *)
(* every resolution is one step of the chain.                              *)
(***************************************************************************)
EXTENDS Integers, FiniteSets

CONSTANTS Host,       \* sites
          Private,    \* sites with a literal address that is not public
          MaxLayers,  \* bound: cache prefixes around one URL
          Limit       \* the number of resolvers, which bounds the chain

ASSUME RegistryAssumption ==
  /\ Private \subseteq Host /\ "none" \notin Host
  /\ MaxLayers \in Nat
  /\ Limit \in Nat

URL == [layers : 0..MaxLayers, kind : {"plain", "share", "amp"},
        tracked : BOOLEAN, host : Host]

NoURL == [layers |-> 0, kind |-> "plain", tracked |-> FALSE, host |-> "none"]

-----------------------------------------------------------------------------
\* A cache and a Google host are public names whatever they lead to.
IsPublicHTTPURL(u) == u.layers > 0 \/ u.kind = "share" \/ u.host \notin Private

IsGoogleShare(u) == u.layers = 0 /\ u.kind = "share"
IsAMPURL(u)      == u.layers > 0 \/ u.kind = "amp"

NoRule == "none"
Resolver == {"google-share", "amp", "tracking-parameter"}

\* The first resolver, in the order of registration, that matches.
MatchName(u) == IF IsGoogleShare(u) THEN "google-share"
                ELSE IF IsAMPURL(u) THEN "amp"
                ELSE IF u.tracked THEN "tracking-parameter"
                ELSE NoRule

\* The inner URL of a cache is its path, so it has no query.
UnwrapAMPCache(u) == [u EXCEPT !.layers = @ - 1, !.tracked = FALSE]

Unwraps(u) == u.layers > 0 /\ IsPublicHTTPURL(UnwrapAMPCache(u))

\* Whether the resolver of u asks the web.
Fetches(u) == \/ MatchName(u) = "google-share"
              \/ MatchName(u) = "amp" /\ ~Unwraps(u)

\* The result of AMPResolver for a page at `final' that names `canonical'.
AMPDestination(final, canonical) ==
  IF canonical # NoURL /\ ~IsAMPURL(canonical) THEN canonical ELSE final

\* Mutant: the destination of a share link may be anything that was fetched.
AcceptedAny(u, d) == TRUE

\* The checks after a fetch: ErrNoResolution unless they hold.
Accepted(u, d) ==
  /\ IsPublicHTTPURL(d)
  /\ IF IsGoogleShare(u) THEN ~IsGoogleShare(d) ELSE ~IsAMPURL(d)

-----------------------------------------------------------------------------
(* Registry.Resolve as a chain c = [at, steps, state], where state is      *)
(* "running", "done" or "failed".                                          *)

Start(u) == [at |-> u, steps |-> 0, state |-> "running"]

Done(c)   == [c EXCEPT !.state = "done"]
Failed(c) == [c EXCEPT !.state = "failed"]

\* Mutant: the chain has no limit.
AdvanceUnlimited(c, d) == [c EXCEPT !.at = d]

\* One more resolution; after that of the last step the loop ends in an error.
Advance(c, d) ==
  IF d = c.at THEN Done(c)
  ELSE IF c.steps = Limit THEN Failed([c EXCEPT !.at = d])
  ELSE [c EXCEPT !.at = d, !.steps = @ + 1]

Untrack(u) == [u EXCEPT !.tracked = FALSE]

\* The resolutions that need no network.
Local(c) ==
  IF MatchName(c.at) = NoRule THEN Done(c)
  ELSE IF MatchName(c.at) = "amp" THEN Advance(c, UnwrapAMPCache(c.at))
  ELSE Advance(c, Untrack(c.at))

\* The fetch of c.at ended at `final', with a page that names `canonical'.
Fetched(c, final, canonical) ==
  LET d == IF IsGoogleShare(c.at) THEN final ELSE AMPDestination(final, canonical)
  IN IF Accepted(c.at, d) THEN Advance(c, d) ELSE Failed(c)
=============================================================================
