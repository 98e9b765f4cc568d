------------------------------ MODULE Fetcher -------------------------------
(***************************************************************************)
(* The hardened fetcher (internal/metadata/fetcher.go): the addresses of a *)
(* host are tried one after the other within one time budget, and a chain  *)
(* of redirects is followed up to a limit.  Time is counted from the start *)
(* of a dial.  An address is [public, takes, connects]: how long an        *)
(* attempt takes and whether it is answered.                               *)
(***************************************************************************)
EXTENDS Integers, Sequences

CONSTANTS RequestTimeout,  \* the budget of one request and of each dial
          MaxRedirects     \* redirects that are followed

ASSUME LimitsAssumption == RequestTimeout \in Nat /\ MaxRedirects \in Nat

NoDeadline == -1

\* Mutant: each attempt has the whole budget.
RemainingBudgetEach(deadline, elapsed) ==
  IF deadline # NoDeadline /\ deadline - elapsed <= 0 THEN 0 ELSE RequestTimeout

\* remainingBudget: what is left until the deadline, if that is less than a whole
\* budget, otherwise what is left of the budget; 0 when either is used up.
RemainingBudget(deadline, elapsed) ==
  LET left == deadline - elapsed IN
  IF deadline # NoDeadline /\ left < RequestTimeout
  THEN IF left <= 0 THEN 0 ELSE left
  ELSE IF elapsed >= RequestTimeout THEN 0 ELSE RequestTimeout - elapsed

Smaller(a, b) == IF a <= b THEN a ELSE b

\* One attempt, which the dialer ends after `budget'; with a deadline, the
\* deadline of the context ends it as well, and the loop with it.
Attempt(deadline, d, address) ==
  LET budget == RemainingBudget(deadline, d.elapsed)
      spent  == Smaller(address.takes, budget)
      end    == d.elapsed + spent
  IN IF d.over \/ ~address.public THEN d
     ELSE IF budget <= 0 THEN [d EXCEPT !.over = TRUE]
     ELSE IF address.connects /\ address.takes <= budget
     THEN [elapsed |-> end, tried |-> Append(d.tried, address), over |-> TRUE,
           connected |-> TRUE]
     ELSE [elapsed |-> end, tried |-> Append(d.tried, address),
           over |-> deadline # NoDeadline /\ end >= deadline, connected |-> FALSE]

\* dialContext over the addresses that the name has.
Dial(deadline, addresses) ==
  LET dial[n \in 0..Len(addresses)] ==
        IF n = 0 THEN [elapsed |-> 0, tried |-> <<>>, over |-> FALSE, connected |-> FALSE]
        ELSE Attempt(deadline, dial[n - 1], addresses[n])
  IN dial[Len(addresses)]

-----------------------------------------------------------------------------
(* A request and its redirects: each hop is [safe, fragment, redirects],   *)
(* whether its URL passes validateURL and its host has a public address,   *)
(* the fragment of its URL, and whether its answer is one more redirect.   *)

\* CheckRedirect sees as many earlier requests as redirects were followed.
TooMany(via) == via > MaxRedirects

\* One hop of the client: not reached, refused, or answered.
Follow(f, hop) ==
  IF f.state # "redirected" THEN f
  ELSE IF TooMany(f.requests) \/ ~hop.safe THEN [f EXCEPT !.state = "failed"]
  ELSE [state    |-> IF hop.redirects THEN "redirected" ELSE "answered",
        requests |-> f.requests + 1,
        fragment |-> IF hop.fragment # "none" THEN hop.fragment ELSE f.fragment]

FetchChain(hops) ==
  LET chain[n \in 0..Len(hops)] ==
        IF n = 0 THEN [state |-> "redirected", requests |-> 0, fragment |-> "none"]
        ELSE Follow(chain[n - 1], hops[n])
  IN chain[Len(hops)]
=============================================================================
