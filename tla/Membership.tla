----------------------------- MODULE Membership -----------------------------
(***************************************************************************)
(* The newcomer sandbox of an approved group: members come and go, Telegram*)
(* queues an update for each change, the bot handles the updates one by    *)
(* one (handleUpdate, handleMembership), keeps a row per member            *)
(* (RecordMembership, Grandfather) and judges a message with a link by it  *)
(* (Process, NewcomerPlan).                                                *)
(*                                                                         *)
(* A join date is kept as what is left of the sandbox window: `left' is    *)
(* joined_at + window - now, 0 once it is over or when joined_at is 0.  It *)
(* exceeds Window while the date lies ahead of the bot's clock.            *)
(***************************************************************************)
EXTENDS Integers, Sequences, SequencesExt

CONSTANTS User,
          Window,      \* newcomer_sandbox
          Veterans,    \* members from before the bot was there
          Statuses,    \* what the administrators make of a member
          Skew,        \* how far the chat's clock is ahead of the bot's
          MaxLost,     \* bound: updates whose handling fails
          MaxCrashes,  \* bound: restarts
          MaxQueue,    \* bound: updates waiting
          MaxReplay    \* bound: handled updates Telegram may deliver again

ASSUME MembershipAssumption ==
  /\ Window \in Nat \ {0} /\ Skew \in Nat
  /\ Veterans \subseteq User
  /\ Statuses \subseteq {"administrator", "restricted"}
  /\ MaxLost \in Nat /\ MaxCrashes \in Nat /\ MaxQueue \in Nat /\ MaxReplay \in Nat

VARIABLES
  chat,     \* the truth: who is present, with which status, since when
  updates,  \* updates Telegram has queued, oldest first
  handled,  \* the last updates handled, which a restart may bring back
  rows,     \* the memberships table
  presumed, \* history: the users whose stored date is that of a change of status
  verdict,  \* what the last step decided about a message, and what it was about
  lost, crashes

vars == <<chat, updates, handled, rows, presumed, verdict, lost, crashes>>

Gone == {"left", "kicked"}
Present == {"member", "administrator", "restricted"}
Active == Present \cup {"creator"}
Left == 0..(Window + Skew)

NoRow == [status |-> "none", left |-> 0, grandfathered |-> FALSE]
NoVerdict == [newcomer |-> FALSE, ahead |-> FALSE, presumed |-> FALSE, deleted |-> FALSE]

-----------------------------------------------------------------------------
(* The memberships table.                                                  *)

\* Mutants: any report that the user is there restarts the window; a rejoin does not.
RecordMembershipAlways(row, status, left) ==
  IF status \in Active
  THEN [status |-> status, grandfathered |-> FALSE, left |-> left]
  ELSE IF row = NoRow THEN [NoRow EXCEPT !.status = status]
  ELSE [row EXCEPT !.status = status]

RecordMembershipOnce(row, status, left) ==
  IF status \in Active
  THEN [status |-> status,
        grandfathered |-> row.grandfathered,
        left |-> IF row = NoRow THEN left ELSE row.left]
  ELSE IF row = NoRow THEN [NoRow EXCEPT !.status = status]
  ELSE [row EXCEPT !.status = status]

RecordMembership(row, status, left) ==
  LET starts == row = NoRow \/ row.status \in Gone IN
  IF status \in Active
  THEN [status |-> status,
        grandfathered |-> IF starts THEN FALSE ELSE row.grandfathered,
        left |-> IF starts THEN left ELSE row.left]
  ELSE IF row = NoRow THEN [NoRow EXCEPT !.status = status]
  ELSE [row EXCEPT !.status = status]

Grandfather(row) ==
  IF row = NoRow THEN [status |-> "member", left |-> 0, grandfathered |-> TRUE] ELSE row

\* NewcomerPlan: the date is known, not ahead of the clock, and still recent.
NewcomerPlan(left) == left > 0 /\ left <= Window

-----------------------------------------------------------------------------
(* What happens in the chat.                                               *)

\* An update.  Whether it `joins' is in Telegram's old_chat_member, which the
\* code never reads: it is there for the history only.
Joined(u, status, left) ==
  [kind |-> "chat_member", users |-> {u}, status |-> status, left |-> left, joins |-> TRUE]
ChatMember(u, status, left) ==
  [kind |-> "chat_member", users |-> {u}, status |-> status, left |-> left, joins |-> FALSE]
NewChatMembers(us, left) ==
  [kind |-> "new_chat_members", users |-> us, status |-> "member", left |-> left, joins |-> TRUE]
Message(u, left) ==
  [kind |-> "message", users |-> {u}, status |-> "member", left |-> left, joins |-> FALSE]

Update == [kind : {"chat_member", "new_chat_members", "message"},
           users : (SUBSET User) \ {{}}, status : Present \cup Gone, left : Left,
           joins : BOOLEAN]

Enqueue(us) == /\ Len(updates) + Len(us) <= MaxQueue
               /\ updates' = updates \o us

Init ==
  /\ chat = [u \in User |-> [present |-> u \in Veterans, left |-> 0,
                             status |-> IF u \in Veterans THEN "member" ELSE "left"]]
  /\ updates = <<>>
  /\ handled = <<>>
  /\ rows = [u \in User |-> NoRow]
  /\ presumed = {}
  /\ verdict = NoVerdict
  /\ lost = 0
  /\ crashes = 0

\* Users join together: an update for each, and a service message for all of
\* them before, after or never.  A restricted user comes back restricted.
Join(us) ==
  LET status(u) == IF chat[u].status = "restricted" THEN "restricted" ELSE "member"
      left == Window + Skew
      all == <<NewChatMembers(us, left)>>
  IN /\ us # {} /\ \A u \in us : ~chat[u].present
     /\ \E order \in SetToSeqs(us) :
          LET each == [i \in DOMAIN order |-> Joined(order[i], status(order[i]), left)]
          IN Enqueue(each \o all) \/ Enqueue(all \o each) \/ Enqueue(each)
     /\ chat' = [u \in User |-> IF u \in us
                                THEN [present |-> TRUE, left |-> left, status |-> status(u)]
                                ELSE chat[u]]
     /\ verdict' = NoVerdict
     /\ UNCHANGED <<handled, rows, presumed, lost, crashes>>

\* A user leaves or is banned.  A restricted user who leaves stays restricted
\* (ChatMemberRestricted with is_member false).
Leave(u) ==
  \E status \in IF chat[u].status = "restricted" THEN {"restricted", "kicked"} ELSE Gone :
    /\ chat[u].present
    /\ chat' = [chat EXCEPT ![u] = [present |-> FALSE, left |-> 0, status |-> status]]
    /\ Enqueue(<<ChatMember(u, status, Window + Skew)>>)
    /\ verdict' = NoVerdict
    /\ UNCHANGED <<handled, rows, presumed, lost, crashes>>

ChangeStatus(u) ==
  \E status \in (Statuses \cup {"member"}) \ {chat[u].status} :
    /\ chat[u].present
    /\ chat' = [chat EXCEPT ![u].status = status]
    /\ Enqueue(<<ChatMember(u, status, Window + Skew)>>)
    /\ verdict' = NoVerdict
    /\ UNCHANGED <<handled, rows, presumed, lost, crashes>>

\* A member posts a link.
Post(u) ==
  /\ chat[u].present
  /\ Enqueue(<<Message(u, chat[u].left)>>)
  /\ verdict' = NoVerdict
  /\ UNCHANGED <<chat, handled, rows, presumed, lost, crashes>>

-----------------------------------------------------------------------------
(* What the bot does with the oldest update.                               *)

Next1(kind) == updates # <<>> /\ Head(updates).kind = kind

\* Messages are claimed once (ClaimUpdate), so only membership updates matter
\* when they are delivered again.
Remember(u) == LET all == Append(handled, u) IN
  IF Len(all) > MaxReplay THEN Tail(all) ELSE all

Consume == /\ updates' = Tail(updates)
           /\ handled' = IF Head(updates).kind = "message" THEN handled
                         ELSE Remember(Head(updates))

\* History: somebody who is not there, for all the bot knows, is reported to be.
\* The code takes it for a join, whether it is one or not.
Arrives(u) == /\ Head(updates).status \in Active
              /\ rows[u] = NoRow \/ rows[u].status \in Gone
Presume(us) ==
  presumed' = {u \in User : IF u \in us /\ Arrives(u) THEN ~Head(updates).joins
                            ELSE u \in presumed}

\* handleMembership, and the loop over new_chat_members.
Record(us) ==
  /\ rows' = [u \in User |->
                IF u \in us
                THEN RecordMembership(rows[u], Head(updates).status, Head(updates).left)
                ELSE rows[u]]
  /\ Presume(us)

HandleMembership ==
  /\ Next1("chat_member") \/ Next1("new_chat_members")
  /\ Record(Head(updates).users)
  /\ Consume
  /\ verdict' = NoVerdict
  /\ UNCHANGED <<chat, lost, crashes>>

\* Process: an unknown sender is grandfathered, then the sandbox judges.
HandleMessage ==
  LET u == CHOOSE u \in Head(updates).users : TRUE IN
  /\ Next1("message")
  /\ rows' = [rows EXCEPT ![u] = Grandfather(@)]
  /\ verdict' = [newcomer |-> Head(updates).left > 0,
                 ahead |-> Head(updates).left > Window,
                 presumed |-> u \in presumed,
                 deleted |-> NewcomerPlan(rows'[u].left)]
  /\ Consume
  /\ UNCHANGED <<chat, presumed, lost, crashes>>

\* A write fails: the error is logged, the users that come later in the same
\* message are not recorded, and the bot goes on with the next update.
HandleFails ==
  /\ Next1("chat_member") \/ Next1("new_chat_members")
  /\ lost < MaxLost
  /\ \E us \in SUBSET Head(updates).users :
       us # Head(updates).users /\ Record(us)
  /\ Consume
  /\ lost' = lost + 1
  /\ verdict' = NoVerdict
  /\ UNCHANGED <<chat, crashes>>

\* A restart: Telegram repeats the updates it has not seen confirmed.
Restart ==
  /\ crashes < MaxCrashes
  /\ \E n \in 0..Len(handled) :
       updates' = SubSeq(handled, Len(handled) - n + 1, Len(handled)) \o updates
  /\ handled' = <<>>
  /\ crashes' = crashes + 1
  /\ verdict' = NoVerdict
  /\ UNCHANGED <<chat, rows, presumed, lost>>

\* Mutant: a date passes its end.
CountDownPast(n) == n - 1
CountDown(n) == IF n > 0 THEN n - 1 ELSE 0
Age(r) == [r EXCEPT !.left = CountDown(@)]

Tick ==
  /\ \/ \E u \in User : chat[u].left > 0 \/ rows[u].left > 0
     \/ \E i \in DOMAIN updates : updates[i].left > 0
  /\ chat' = [u \in User |-> Age(chat[u])]
  /\ rows' = [u \in User |-> Age(rows[u])]
  /\ updates' = [i \in DOMAIN updates |-> Age(updates[i])]
  /\ handled' = [i \in DOMAIN handled |-> Age(handled[i])]
  /\ verdict' = NoVerdict
  /\ UNCHANGED <<presumed, lost, crashes>>

Next ==
  \/ \E us \in SUBSET User : Join(us)
  \/ \E u \in User : Leave(u) \/ ChangeStatus(u) \/ Post(u)
  \/ HandleMembership \/ HandleMessage \/ HandleFails
  \/ Restart
  \/ Tick

Spec == Init /\ [][Next]_vars

-----------------------------------------------------------------------------
TypeOK ==
  /\ chat \in [User -> [present : BOOLEAN, left : Left, status : Present \cup Gone]]
  /\ updates \in Seq(Update) /\ handled \in Seq(Update)
  /\ rows \in [User -> [status : Present \cup Gone \cup {"none"}, left : Left,
                        grandfathered : BOOLEAN]]
  /\ presumed \subseteq User
  /\ verdict \in [newcomer : BOOLEAN, ahead : BOOLEAN, presumed : BOOLEAN, deleted : BOOLEAN]
  /\ lost \in 0..MaxLost /\ crashes \in 0..MaxCrashes

\* SPEC.md, newcomer sandbox: a link posted by a member whose join is less than
\* the window ago is deleted, whatever leaves, rejoins, status changes, service
\* messages and redelivered updates came before it.  The one exception is a join
\* that still lies in the future of the bot's clock (NewcomerPlan).
NewcomerCaught == verdict.newcomer => verdict.deleted \/ verdict.ahead

\* And nobody else's: a link of a member from before the bot, or of one whose
\* window is over, is deleted only if the date stored is that of a change of
\* status of somebody the bot did not know to be there (handleMembership), and
\* never since a lost, late, repeated or reordered update, or a change of the
\* status of a known member, moved the date (RecordMembership, Grandfather).
VeteranFree == verdict.deleted => verdict.newcomer \/ verdict.presumed

\* Once the updates about a member are handled, the row agrees with the chat
\* about whether the member is there and how much of the window is left.
RowsCatchUp ==
  \A u \in User :
    (\A i \in DOMAIN updates : updates[i].kind = "message" \/ u \notin updates[i].users)
      => \/ rows[u] = NoRow /\ chat[u].left = 0
         \/ /\ chat[u].present <=> rows[u].status \notin Gone
            /\ chat[u].present => rows[u].left = chat[u].left
=============================================================================
