--------------------------- MODULE PollingProofs ----------------------------
(***************************************************************************)
(* Polling for every capacity of the channel, every batch and any number   *)
(* of updates, breaks and restarts: types, order, and the bound on what is *)
(* lost.                                                                   *)
(*                                                                         *)
(* What a process may lose is between what Run has taken from the channel  *)
(* and what Telegram has forgotten.  While the context lives, Covered says *)
(* that all before is seen or was lost earlier, and Flow that the rest is  *)
(* no more than the channel and the hand hold; a shutdown ends Covered,    *)
(* but with it the requests that confirm, so the loss only shrinks then.   *)
(***************************************************************************)
EXTENDS Polling, FiniteSetTheorems, TLAPS

\* The updates in the channel, and where Run can be when there are some.
Flow ==
  /\ confirmed <= pushed /\ pushed <= fetched
  /\ taken <= pushed /\ pushed <= taken + Buffer
  /\ at \in {"connect", "backoff"} => ~open /\ (~cancelled => taken = pushed)
  /\ at = "stopped" => cancelled

\* The last update that the handler is done with.
Reached == IF at = "handle" THEN taken - 1 ELSE taken

Covered == ~cancelled => (1..Reached) \ seen \subseteq lost

Missing == ((1..confirmed) \ seen) \ lost

Loss == /\ Cardinality(Missing) <= Buffer + 1
        /\ IsFiniteSet(lost)
        /\ Cardinality(lost) <= restarts * (Buffer + 1)

IInv == TypeOK /\ Flow /\ Covered /\ Loss

-----------------------------------------------------------------------------
\* While the context lives, what is missing is in the channel or in hand.
LEMMA ChannelHoldsMissing ==
  TypeOK /\ Flow /\ Covered /\ ~cancelled => Cardinality(Missing) <= Buffer + 1
<1> SUFFICES ASSUME TypeOK, Flow, Covered, ~cancelled
             PROVE  Cardinality(Missing) <= Buffer + 1
  OBVIOUS
<1>1. Missing \subseteq taken..confirmed
  BY DEF TypeOK, Covered, Reached, Missing
<1>2. confirmed - taken + 1 <= Buffer + 1
  BY PollingAssumption DEF TypeOK, Flow
<1>3. IsFiniteSet(taken..confirmed) /\ Cardinality(taken..confirmed) <= Buffer + 1
  <2>1. taken \in Int /\ confirmed \in Int
    BY DEF TypeOK
  <2>2. /\ IsFiniteSet(taken..confirmed)
        /\ Cardinality(taken..confirmed) =
             IF taken > confirmed THEN 0 ELSE confirmed - taken + 1
    BY <2>1, FS_Interval
  <2> QED BY <1>2, <2>1, <2>2, PollingAssumption
<1>4. Cardinality(Missing) <= Cardinality(taken..confirmed)
  BY <1>1, <1>3, FS_Subset
<1>5. Cardinality(Missing) \in Nat /\ Cardinality(taken..confirmed) \in Nat
  BY <1>1, <1>3, FS_Subset, FS_CardinalityType
<1> QED BY <1>3, <1>4, <1>5, PollingAssumption

LEMMA PrimedMissing ==
  ASSUME TypeOK', Flow', Covered', ~cancelled'
  PROVE  Cardinality(Missing') <= Buffer + 1
<1>1. (TypeOK /\ Flow /\ Covered /\ ~cancelled => Cardinality(Missing) <= Buffer + 1)'
  BY ChannelHoldsMissing, PTL
<1> QED BY <1>1

LEMMA MissingIsFinite ==
  ASSUME TypeOK
  PROVE  /\ IsFiniteSet((1..confirmed) \ seen)
         /\ IsFiniteSet(Missing)
         /\ Cardinality(Missing) \in Nat
<1>1. IsFiniteSet(1..confirmed)
  BY FS_Interval DEF TypeOK
<1>2. (1..confirmed) \ seen \in SUBSET (1..confirmed) /\ Missing \in SUBSET (1..confirmed)
  BY DEF Missing
<1> QED BY <1>1, <1>2, FS_Subset, FS_CardinalityType

\* One process more adds at most its own loss.
LEMMA LossAdds ==
  ASSUME TypeOK, Loss
  PROVE  Cardinality((1..confirmed) \ seen) <= (restarts + 1) * (Buffer + 1)
<1> DEFINE W == Buffer + 1
<1>1. (1..confirmed) \ seen \subseteq lost \cup Missing
  BY DEF Missing
<1>2. /\ IsFiniteSet(lost \cup Missing)
      /\ Cardinality(lost \cup Missing) =
           Cardinality(lost) + Cardinality(Missing) - Cardinality(lost \cap Missing)
  BY MissingIsFinite, FS_Union DEF Loss
<1>3. lost \cap Missing = {}
  BY DEF Missing
<1>4. Cardinality(lost \cap Missing) = 0
  BY <1>3, FS_EmptySet
<1>5. /\ Cardinality((1..confirmed) \ seen) \in Nat
      /\ Cardinality((1..confirmed) \ seen) <= Cardinality(lost \cup Missing)
  BY <1>1, <1>2, FS_Subset, FS_CardinalityType
<1>6. Cardinality(lost) \in Nat /\ Cardinality(Missing) \in Nat
  BY MissingIsFinite, FS_CardinalityType DEF Loss
<1>7. W \in Nat /\ restarts \in Nat
  BY PollingAssumption DEF TypeOK
<1>8. Cardinality(lost) <= restarts * W /\ Cardinality(Missing) <= W
  BY DEF Loss
<1>9. (restarts + 1) * W = restarts * W + W /\ restarts * W \in Nat
  <2>1. \A m, n \in Nat : (m + 1) * n = m * n + n /\ m * n \in Nat
    OBVIOUS
  <2> QED BY <1>7, <2>1
<1> HIDE DEF W
<1>10. Cardinality((1..confirmed) \ seen) <= (restarts + 1) * W
  BY <1>2, <1>4, <1>5, <1>6, <1>7, <1>8, <1>9
<1> QED BY <1>10 DEF W

-----------------------------------------------------------------------------
(* The invariant.                                                          *)

LEMMA InitInvariant == Init => IInv
<1> SUFFICES ASSUME Init PROVE IInv
  OBVIOUS
<1>1. TypeOK
  <2>1. /\ sent \in 0..MaxUpdates /\ breaks \in 0..MaxBreaks /\ restarts \in 0..MaxRestarts
        /\ backoff \in 1..MaxBackoff
    BY PollingAssumption DEF Init
  <2>2. /\ confirmed \in Nat /\ fetched \in Nat /\ pushed \in Nat /\ taken \in Nat
        /\ seen \subseteq Nat /\ lost \subseteq Nat
    BY DEF Init
  <2>3. /\ open \in BOOLEAN /\ cancelled \in BOOLEAN
        /\ at \in {"connect", "backoff", "receive", "handle", "stopped"}
    BY DEF Init
  <2> QED BY <2>1, <2>2, <2>3 DEF TypeOK
<1>2. Flow /\ Covered
  BY PollingAssumption DEF Init, Flow, Covered, Reached
<1>3. Cardinality(Missing) <= Buffer + 1
  BY <1>1, <1>2, ChannelHoldsMissing DEF Init
<1>4. IsFiniteSet(lost) /\ Cardinality(lost) = 0
  BY FS_EmptySet DEF Init
<1>5. restarts * (Buffer + 1) = 0
  BY PollingAssumption DEF Init
<1> QED BY <1>1, <1>2, <1>3, <1>4, <1>5 DEF IInv, Loss

\* Every step but the end of a process, without the cardinalities.
LEMMA StepFlows ==
  ASSUME IInv, [Next]_vars
  PROVE  TypeOK' /\ Flow' /\ Covered'
<1> USE PollingAssumption
<1> SUFFICES ASSUME TypeOK, Flow, Covered
             PROVE  TypeOK' /\ Flow' /\ Covered'
  BY DEF IInv
<1>1. CASE Arrive
  BY <1>1 DEF Arrive, stream, TypeOK, Flow, Covered, Reached
<1>2. CASE Connect
  <2>1. (1..confirmed) \ seen \subseteq lost
    BY <1>2 DEF Connect, TypeOK, Flow, Covered, Reached
  <2> QED BY <1>2, <2>1 DEF Connect, TypeOK, Flow, Covered, Reached
<1>3. CASE ConnectFails
  BY <1>3 DEF ConnectFails, AfterFailure, stream, TypeOK, Flow, Covered, Reached
<1>4. CASE BackoffEnds
  BY <1>4 DEF BackoffEnds, NextBackoff, stream, TypeOK, Flow, Covered, Reached
<1>5. CASE Interrupt
  BY <1>5 DEF Interrupt, Interruptible, stream, TypeOK, Flow, Covered, Reached
<1>6. CASE \E more \in 0..Batch : GetUpdates(more)
  BY <1>6 DEF GetUpdates, TypeOK, Flow, Covered, Reached
<1>7. CASE Push
  BY <1>7 DEF Push, TypeOK, Flow, Covered, Reached
<1>8. CASE StreamCloses
  <2>1. breaks' \in 0..MaxBreaks
    BY <1>8 DEF StreamCloses, TypeOK
  <2>2. TypeOK'
    BY <1>8, <2>1 DEF StreamCloses, TypeOK
  <2> QED BY <1>8, <2>2 DEF StreamCloses, TypeOK, Flow, Covered, Reached
<1>9. CASE Receive
  BY <1>9 DEF Receive, stream, TypeOK, Flow, Covered, Reached
<1>10. CASE StreamEnds
  <2>1. TypeOK'
    BY <1>10 DEF StreamEnds, stream, TypeOK
  <2>2. Flow'
    BY <1>10 DEF StreamEnds, stream, TypeOK, Flow
  <2>3. Covered'
    BY <1>10 DEF StreamEnds, stream, TypeOK, Covered, Reached
  <2> QED BY <2>1, <2>2, <2>3
<1>11. CASE \E failed \in BOOLEAN : HandleEnds(failed)
  <2>1. /\ at = "handle" /\ at' = "receive"
        /\ seen' = seen \cup {taken} \/ seen' = seen
        /\ ~cancelled => seen' = seen \cup {taken}
        /\ UNCHANGED <<sent, stream, taken, backoff, cancelled, lost, restarts>>
    <3> PICK failed \in BOOLEAN : HandleEnds(failed)
      BY <1>11
    <3>1. /\ at = "handle" /\ at' = "receive"
          /\ UNCHANGED <<sent, stream, taken, backoff, cancelled, lost, restarts>>
      BY DEF HandleEnds, AfterHandler
    <3>2. seen' = seen \cup {taken} \/ (cancelled /\ UNCHANGED seen)
      BY DEF HandleEnds
    <3> QED BY <3>1, <3>2
  <2>2. TypeOK'
    BY <2>1 DEF stream, TypeOK
  <2>3. Flow'
    BY <2>1 DEF stream, TypeOK, Flow
  <2>4. Covered'
    BY <2>1 DEF TypeOK, Covered, Reached
  <2> QED BY <2>2, <2>3, <2>4
<1>12. CASE Cancel
  <2>1. cancelled' = TRUE /\ UNCHANGED <<sent, stream, taken, at, backoff, seen, lost, restarts>>
    BY <1>12 DEF Cancel
  <2>2. cancelled' \in BOOLEAN
    BY <2>1
  <2>3. TypeOK'
    BY <2>1, <2>2 DEF stream, TypeOK
  <2>4. Flow' /\ Covered'
    BY <2>1 DEF stream, Flow, Covered
  <2> QED BY <2>3, <2>4
<1>13. CASE Restart
  <2>1. restarts' \in 0..MaxRestarts /\ backoff' \in 1..MaxBackoff
    BY <1>13 DEF Restart, TypeOK
  <2>2. /\ open' \in BOOLEAN /\ cancelled' \in BOOLEAN
        /\ at' \in {"connect", "backoff", "receive", "handle", "stopped"}
    BY <1>13 DEF Restart
  <2>3. fetched' \in Nat /\ pushed' \in Nat /\ taken' \in Nat /\ lost' \subseteq Nat
    BY <1>13 DEF Restart, TypeOK
  <2>4. TypeOK'
    BY <1>13, <2>1, <2>2, <2>3 DEF Restart, TypeOK
  <2>5. Flow'
    BY <1>13 DEF Restart, TypeOK, Flow
  <2>6. Covered'
    BY <1>13 DEF Restart, TypeOK, Covered, Reached
  <2> QED BY <2>4, <2>5, <2>6
<1>14. CASE UNCHANGED vars
  BY <1>14 DEF vars, TypeOK, Flow, Covered, Reached
<1> QED BY <1>1, <1>2, <1>3, <1>4, <1>5, <1>6, <1>7, <1>8, <1>9, <1>10, <1>11,
           <1>12, <1>13, <1>14 DEF Next

\* Under a cancelled context nothing is confirmed, so nothing more goes missing.
LEMMA ShutdownLosesNoMore ==
  ASSUME IInv, [Next]_vars, cancelled', ~Restart
  PROVE  Missing' \subseteq Missing /\ UNCHANGED <<lost, restarts>>
BY DEF Next, vars, stream, Missing, Arrive, Connect, ConnectFails, BackoffEnds,
       Interrupt, GetUpdates, Push, StreamCloses, Receive, StreamEnds, HandleEnds, Cancel

LEMMA OnlyRestartLoses ==
  ASSUME [Next]_vars, ~Restart
  PROVE  UNCHANGED <<lost, restarts>>
BY DEF Next, vars, Arrive, Connect, ConnectFails, BackoffEnds, Interrupt, GetUpdates,
       Push, StreamCloses, Receive, StreamEnds, HandleEnds, Cancel

LEMMA StepLoses ==
  ASSUME IInv, [Next]_vars
  PROVE  Loss'
<1>1. TypeOK /\ Loss /\ TypeOK' /\ Flow' /\ Covered'
  BY StepFlows DEF IInv
<1>2. CASE Restart
  <2>1. lost' = (1..confirmed) \ seen /\ restarts' = restarts + 1 /\ ~cancelled'
    BY <1>2 DEF Restart
  <2>2. IsFiniteSet(lost') /\ Cardinality(lost') <= restarts' * (Buffer + 1)
    BY <1>1, <2>1, MissingIsFinite, LossAdds
  <2>3. Cardinality(Missing') <= Buffer + 1
    BY <1>1, <2>1, PrimedMissing
  <2> QED BY <2>2, <2>3 DEF Loss
<1>3. CASE ~Restart /\ cancelled'
  <2>1. Missing' \in SUBSET Missing /\ lost' = lost /\ restarts' = restarts
    BY <1>3, ShutdownLosesNoMore
  <2>2. Cardinality(Missing') <= Cardinality(Missing) /\ Cardinality(Missing') \in Nat
    BY <1>1, <2>1, MissingIsFinite, FS_Subset, FS_CardinalityType
  <2>3. Cardinality(Missing) \in Nat
    BY <1>1, MissingIsFinite
  <2> QED BY <1>1, <2>1, <2>2, <2>3, PollingAssumption DEF Loss
<1>4. CASE ~Restart /\ ~cancelled'
  <2>1. Cardinality(Missing') <= Buffer + 1
    BY <1>1, <1>4, PrimedMissing
  <2>2. lost' = lost /\ restarts' = restarts
    BY <1>4, OnlyRestartLoses
  <2> QED BY <1>1, <2>1, <2>2 DEF Loss
<1> QED BY <1>2, <1>3, <1>4

LEMMA NextInvariant == IInv /\ [Next]_vars => IInv'
BY StepFlows, StepLoses DEF IInv

\* The inductive invariant of Polling.
THEOREM PollingInvariance == Spec => []IInv
BY InitInvariant, NextInvariant, PTL DEF Spec

-----------------------------------------------------------------------------
\* Every reachable state of Polling is well typed; the backoff never exceeds
\* maxBackoff (Run).
THEOREM PollingTypeCorrect == Spec => []TypeOK
<1>1. IInv => TypeOK
  BY DEF IInv
<1> QED BY <1>1, PollingInvariance, PTL

\* However streams break and handlers fail, the loop of processUpdates passes no
\* update over: all before the one in hand were seen, or lost with a process.
THEOREM NoUpdateIsSkipped == Spec => []NothingIsSkipped
<1>1. IInv => NothingIsSkipped
  BY DEF IInv, Covered, Reached, NothingIsSkipped
<1> QED BY <1>1, PollingInvariance, PTL

\* A crash or a shutdown loses at most a channel and the update in hand.
THEOREM LossOfUpdatesIsBounded == Spec => []LossIsBounded
<1>1. IInv => LossIsBounded
  BY LossAdds DEF IInv, LossIsBounded
<1> QED BY <1>1, PollingInvariance, PTL
=============================================================================
