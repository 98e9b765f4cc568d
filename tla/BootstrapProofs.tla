--------------------------- MODULE BootstrapProofs --------------------------
(***************************************************************************)
(* Proofs about module Bootstrap, for any users, groups and processes of   *)
(* the operator, and any number of updates.                                *)
(***************************************************************************)
EXTENDS Bootstrap, TLAPS

\* A queued promotion was made by its sender, and so was the one in work.
QueuedPromotions ==
  \A i \in DOMAIN updates : updates[i].kind = "my_chat_member" =>
    /\ updates[i].chat \in Chat
    /\ updates[i].rights # "member" => <<updates[i].from, updates[i].chat>> \in promoters

PromotionInWork ==
  bot.at # "idle" => bot.chat \in Group /\ <<bot.owner, bot.chat>> \in promoters

IInv == TypeOK /\ QueuedPromotions /\ PromotionInWork /\ ApprovedOnRequest

\* Whoever has read the owner still knows the owner, or somebody else has reset
\* it in the meantime; the rest is what the reports of the resets say.
ReadsAreFresh ==
  /\ \A p \in Process : cli[p].at = "read" =>
       since[p] \ {p} # {} \/ (cli[p].previous = owner /\ owner # None)
  /\ bot.at # "idle" => since["bot"] # {} \/ (bot.owner = owner /\ owner # None)

ReportsAreTrue ==
  \A p \in Resetter :
    cli[p].at = "done" /\ cli[p].previous # cli[p].cleared => since[p] \ {p} # {}

Update == [kind : {"start", "my_chat_member"}, from : User,
           chat : Chat \cup {None}, rights : Rights]

CliType == [at : {"new", "refused", "read", "done"}, chat : Chat \cup {None},
            previous : Users, cleared : Users]

LEMMA InitIInv == Init => IInv
PROOF
  <1> SUFFICES ASSUME Init PROVE IInv OBVIOUS
  <1>1. cli \in [Process -> CliType] BY DEF Init, CliType, Users
  <1>2. TypeOK
    BY <1>1, BootstrapAssumption
    DEF Init, TypeOK, CliType, Idle, Users, Rights, BootstrapAssumption
  <1>3. QueuedPromotions /\ PromotionInWork BY DEF Init, QueuedPromotions, PromotionInWork, Idle
  <1>4. ApprovedOnRequest BY DEF Init, ApprovedOnRequest
  <1> QED BY <1>2, <1>3, <1>4 DEF IInv

\* Taking an update off the queue keeps what is known of the others.
LEMMA TailQueued ==
  ASSUME IInv, updates # <<>>, updates' = Tail(updates), UNCHANGED promoters
  PROVE  updates' \in Seq(Update) /\ QueuedPromotions'
PROOF
  <1>1. updates \in Seq(Update) BY DEF IInv, TypeOK, Update
  <1>2. updates' \in Seq(Update) BY <1>1
  <1>3. ASSUME NEW i \in DOMAIN updates'
        PROVE  i + 1 \in DOMAIN updates /\ updates'[i] = updates[i + 1]
    BY <1>1, <1>3
  <1> QED BY <1>2, <1>3 DEF IInv, QueuedPromotions

LEMMA HeadIsUpdate ==
  ASSUME IInv, updates # <<>>
  PROVE  /\ Head(updates) \in Update
         /\ Head(updates).kind = "my_chat_member" =>
              /\ Head(updates).chat \in Chat
              /\ Head(updates).rights # "member" =>
                   <<Head(updates).from, Head(updates).chat>> \in promoters
PROOF
  <1>1. updates \in Seq(Update) BY DEF IInv, TypeOK, Update
  <1>2. 1 \in DOMAIN updates /\ Head(updates) = updates[1] BY <1>1
  <1> QED BY <1>1, <1>2 DEF IInv, QueuedPromotions

LEMMA NextIInv ==
  ASSUME IInv, [Next]_vars
  PROVE  IInv'
PROOF
  <1> USE BootstrapAssumption DEF BootstrapAssumption
  <1>1. ASSUME NEW u \in User, SendStart(u) PROVE IInv'
    <2>1. updates \in Seq(Update) BY DEF IInv, TypeOK, Update
    <2>2. Start(u) \in Update BY DEF Start, Update, Rights
    <2>3. updates' = Append(updates, Start(u)) /\ UNCHANGED promoters
      BY <1>1 DEF SendStart, Send
    <2>4. updates' \in Seq(Update) BY <2>1, <2>2, <2>3
    <2>5. TypeOK' BY <1>1, <2>4 DEF SendStart, Send, IInv, TypeOK, Update
    <2>6. QueuedPromotions'
      BY <2>1, <2>3 DEF IInv, QueuedPromotions, Start
    <2>7. PromotionInWork' /\ ApprovedOnRequest'
      BY <1>1 DEF SendStart, IInv, PromotionInWork, ApprovedOnRequest
    <2> QED BY <2>5, <2>6, <2>7 DEF IInv
  <1>2. ASSUME NEW u \in User, NEW c \in Chat, SetRights(u, c) PROVE IInv'
    <2>1. updates \in Seq(Update) BY DEF IInv, TypeOK, Update
    <2>2. PICK r \in Rights \ {rights[c]} :
            /\ rights' = [rights EXCEPT ![c] = r]
            /\ Send(BotMember(u, c, r))
            /\ promoters' = IF r = "member" THEN promoters ELSE promoters \cup {<<u, c>>}
            /\ UNCHANGED <<owner, approved, bot, cli, since>>
      BY <1>2 DEF SetRights
    <2>3. BotMember(u, c, r) \in Update BY DEF BotMember, Update
    <2>4. updates' \in Seq(Update) BY <2>1, <2>2, <2>3 DEF Send
    <2>5. promoters \subseteq promoters' BY <2>2
    <2>6. TypeOK'
      <3>1. promoters' \subseteq User \X Chat BY <2>2 DEF IInv, TypeOK
      <3> QED BY <2>2, <2>4, <3>1 DEF Send, IInv, TypeOK, Update
    <2>7. QueuedPromotions'
      BY <2>1, <2>2, <2>5 DEF Send, IInv, QueuedPromotions, BotMember
    <2>8. PromotionInWork' /\ ApprovedOnRequest'
      BY <2>2, <2>5 DEF IInv, PromotionInWork, ApprovedOnRequest
    <2> QED BY <2>6, <2>7, <2>8 DEF IInv
  <1>3. CASE HandlePrivateMessage
    <2>1. updates # <<>> /\ updates' = Tail(updates) /\ UNCHANGED promoters
      BY <1>3 DEF HandlePrivateMessage, Head1
    <2>2. updates' \in Seq(Update) /\ QueuedPromotions' BY <2>1, TailQueued
    <2>3. owner' \in Users
      BY <1>3, <2>1, HeadIsUpdate
      DEF HandlePrivateMessage, RegisterOwner, IInv, TypeOK, Users, Update
    <2>4. TypeOK' BY <1>3, <2>2, <2>3 DEF HandlePrivateMessage, IInv, TypeOK, Update
    <2> QED BY <1>3, <2>2, <2>4
        DEF HandlePrivateMessage, IInv, PromotionInWork, ApprovedOnRequest
  <1>4. CASE HandleBotMembership
    <2>1. /\ updates # <<>> /\ updates' = Tail(updates) /\ UNCHANGED promoters
          /\ Head(updates).kind = "my_chat_member"
      BY <1>4 DEF HandleBotMembership, Head1
    <2>2. updates' \in Seq(Update) /\ QueuedPromotions' BY <2>1, TailQueued
    <2>3. /\ bot' \in [at : {"idle", "asking", "approving"}, chat : Chat \cup {None},
                       owner : Users]
          /\ bot'.at # "idle" => /\ bot'.owner \in User /\ bot'.chat \in Group
                                 /\ <<bot'.owner, bot'.chat>> \in promoters
          /\ since' \in [Process \cup {"bot"} -> SUBSET Resetter]
      BY <1>4, <2>1, HeadIsUpdate
      DEF HandleBotMembership, OwnerMatches, Idle, IInv, TypeOK, Users, Update
    <2>4. TypeOK' BY <1>4, <2>2, <2>3 DEF HandleBotMembership, IInv, TypeOK, Update
    <2> QED BY <1>4, <2>2, <2>3, <2>4
        DEF HandleBotMembership, IInv, PromotionInWork, ApprovedOnRequest
  <1>5. CASE HasDeletePermission
    BY <1>5 DEF HasDeletePermission, Idle, Users, IInv, TypeOK, QueuedPromotions,
       PromotionInWork, ApprovedOnRequest
  <1>6. CASE ApproveChat
    <2>1. TypeOK' BY <1>6 DEF ApproveChat, Idle, Users, IInv, TypeOK
    <2>2. ApprovedOnRequest'
      BY <1>6 DEF ApproveChat, IInv, TypeOK, PromotionInWork, ApprovedOnRequest
    <2> QED BY <1>6, <2>1, <2>2 DEF ApproveChat, Idle, IInv, QueuedPromotions, PromotionInWork
  <1>7. CASE HandlerFails
    <2>1. CASE bot.at # "idle" /\ bot' = Idle /\ UNCHANGED updates
      BY <1>7, <2>1 DEF HandlerFails, Idle, Users, IInv, TypeOK, QueuedPromotions,
         PromotionInWork, ApprovedOnRequest
    <2>2. CASE bot.at = "idle" /\ updates # <<>> /\ updates' = Tail(updates) /\ UNCHANGED bot
      <3>1. UNCHANGED <<owner, approved, rights, sent, cli, promoters, since>>
        BY <1>7 DEF HandlerFails
      <3>2. updates' \in Seq(Update) /\ QueuedPromotions' BY <2>2, <3>1, TailQueued
      <3> QED BY <2>2, <3>1, <3>2 DEF IInv, TypeOK, Update, PromotionInWork, ApprovedOnRequest
    <2> QED BY <1>7, <2>1, <2>2 DEF HandlerFails
  <1>8. ASSUME NEW p \in Process, ReadOwner(p) PROVE IInv'
    <2>1. PICK c \in Chat :
            cli' = [cli EXCEPT ![p] = [@ EXCEPT !.at = IF owner = None THEN "refused" ELSE "read",
                                                 !.previous = owner,
                                                 !.chat = IF p \in Approver THEN c ELSE None]]
      BY <1>8 DEF ReadOwner
    <2>2. TypeOK'
      <3>1. cli \in [Process -> CliType] /\ owner \in Users BY DEF IInv, TypeOK, CliType
      <3>2. cli[p] \in CliType BY <3>1
      <3>3. [cli[p] EXCEPT !.at = IF owner = None THEN "refused" ELSE "read",
                           !.previous = owner,
                           !.chat = IF p \in Approver THEN c ELSE None] \in CliType
        BY <3>1, <3>2 DEF CliType
      <3>4. cli' \in [Process -> CliType] BY <2>1, <3>1, <3>3
      <3> QED BY <1>8, <3>4 DEF ReadOwner, IInv, TypeOK, CliType
    <2>3. \A q \in Approver : cli[q].at = "done" => cli'[q] = cli[q]
      BY <1>8, <2>1 DEF ReadOwner, IInv, TypeOK, Process
    <2>4. ApprovedOnRequest' BY <1>8, <2>3 DEF ReadOwner, IInv, ApprovedOnRequest
    <2> QED BY <1>8, <2>2, <2>4 DEF ReadOwner, IInv, QueuedPromotions, PromotionInWork
  <1>9. ASSUME NEW p \in Process, ResetOwner(p) PROVE IInv'
    <2>1. cli \in [Process -> CliType] /\ owner \in Users BY DEF IInv, TypeOK, CliType
    <2>2. TypeOK'
      <3>1. cli' \in [Process -> CliType] BY <1>9, <2>1 DEF ResetOwner, CliType
      <3>2. owner' \in Users BY <1>9 DEF ResetOwner, Users
      <3>3. since' \in [Process \cup {"bot"} -> SUBSET Resetter]
        BY <1>9 DEF ResetOwner, Overtaken, IInv, TypeOK
      <3> QED BY <1>9, <3>1, <3>2, <3>3 DEF ResetOwner, IInv, TypeOK, CliType
    <2>3. \A q \in Approver : cli[q].at = "done" => cli'[q] = cli[q]
      <3> SUFFICES ASSUME NEW q \in Approver, cli[q].at = "done" PROVE cli'[q] = cli[q]
        OBVIOUS
      <3>1. q # p /\ q \in Process BY <1>9 DEF ResetOwner, Process
      <3> QED BY <1>9, <2>1, <3>1 DEF ResetOwner
    <2>4. approved' = approved /\ promoters' = promoters BY <1>9 DEF ResetOwner
    <2>5. ApprovedOnRequest' BY <2>3, <2>4 DEF IInv, ApprovedOnRequest
    <2> QED BY <1>9, <2>2, <2>5 DEF ResetOwner, IInv, QueuedPromotions, PromotionInWork
  <1>10. ASSUME NEW p \in Process, ApplyApproveChat(p) PROVE IInv'
    <2>1. p \in Approver /\ p \in DOMAIN cli /\ cli[p].at = "read"
      BY <1>10 DEF ApplyApproveChat, IInv, TypeOK, Process
    <2>2. TypeOK'
      <3>1. cli \in [Process -> CliType] BY DEF IInv, TypeOK, CliType
      <3>2. cli' \in [Process -> CliType] BY <1>10, <3>1 DEF ApplyApproveChat, CliType
      <3>3. approved' \in [Chat -> Users]
        BY <1>10, <2>1, <3>1 DEF ApplyApproveChat, CliType, IInv, TypeOK
      <3> QED BY <1>10, <3>2, <3>3 DEF ApplyApproveChat, IInv, TypeOK, CliType
    <2>3. /\ cli'[p].at = "done" /\ cli'[p].chat = cli[p].chat
          /\ \A q \in Approver : q # p => cli'[q] = cli[q]
      BY <1>10, <2>1 DEF ApplyApproveChat, IInv, TypeOK, Process
    <2>4. ApprovedOnRequest'
      BY <1>10, <2>1, <2>3 DEF ApplyApproveChat, IInv, TypeOK, ApprovedOnRequest
    <2> QED BY <1>10, <2>2, <2>4 DEF ApplyApproveChat, IInv, QueuedPromotions, PromotionInWork
  <1>11. CASE UNCHANGED vars
    BY <1>11 DEF vars, IInv, TypeOK, QueuedPromotions, PromotionInWork, ApprovedOnRequest
  <1> QED BY <1>1, <1>2, <1>3, <1>4, <1>5, <1>6, <1>7, <1>8, <1>9, <1>10, <1>11 DEF Next

LEMMA NextFresh ==
  ASSUME IInv, ReadsAreFresh, ReportsAreTrue, [Next]_vars
  PROVE  ReadsAreFresh' /\ ReportsAreTrue'
PROOF
  <1>1. /\ cli \in [Process -> CliType]
        /\ since \in [Process \cup {"bot"} -> SUBSET Resetter]
    BY DEF IInv, TypeOK, CliType
  <1> "bot" \notin Process
    BY BootstrapAssumption DEF BootstrapAssumption, Process
  <1>2. CASE UNCHANGED <<owner, bot, cli, since>>
    BY <1>2 DEF ReadsAreFresh, ReportsAreTrue
  <1>3. CASE HandlePrivateMessage
    <2>1. UNCHANGED <<bot, cli, since>> /\ (owner # None => owner' = owner)
      BY <1>3 DEF HandlePrivateMessage, RegisterOwner
    <2> QED BY <2>1 DEF ReadsAreFresh, ReportsAreTrue
  <1>4. CASE HandleBotMembership
    <2>1. /\ UNCHANGED <<owner, cli>>
          /\ bot'.at # "idle" => bot'.owner = owner /\ owner # None
          /\ \A p \in Process : since'[p] = since[p]
      BY <1>1, <1>4 DEF HandleBotMembership, OwnerMatches, Idle
    <2> QED BY <2>1 DEF ReadsAreFresh, ReportsAreTrue, Process
  <1>5. CASE HasDeletePermission \/ ApproveChat \/ HandlerFails
    <2>1. /\ UNCHANGED <<owner, cli, since>>
          /\ bot'.at # "idle" => bot.at # "idle" /\ bot'.owner = bot.owner
      BY <1>5 DEF HasDeletePermission, ApproveChat, HandlerFails, Idle, IInv, TypeOK
    <2> QED BY <2>1 DEF ReadsAreFresh, ReportsAreTrue
  <1>6. ASSUME NEW p \in Process, ReadOwner(p) PROVE ReadsAreFresh' /\ ReportsAreTrue'
    <2>1. /\ cli[p].at = "new" /\ UNCHANGED <<owner, bot>>
          /\ cli'[p].at = "read" => cli'[p].previous = owner /\ owner # None
          /\ cli'[p].at # "done"
          /\ \A q \in Process : q # p => cli'[q] = cli[q] /\ since'[q] = since[q]
          /\ since'["bot"] = since["bot"]
      BY <1>1, <1>6 DEF ReadOwner, CliType
    <2>2. ReadsAreFresh' BY <2>1 DEF ReadsAreFresh
    <2>3. ReportsAreTrue' BY <2>1 DEF ReportsAreTrue, Process
    <2> QED BY <2>2, <2>3
  <1>7. ASSUME NEW p \in Process, ResetOwner(p) PROVE ReadsAreFresh' /\ ReportsAreTrue'
    <2>1. /\ p \in Resetter /\ cli[p].at = "read" /\ UNCHANGED bot
          /\ cli'[p].at = "done" /\ cli'[p].previous = cli[p].previous
          /\ cli'[p].cleared = owner
          /\ \A q \in Process : q # p => cli'[q] = cli[q]
      BY <1>1, <1>7 DEF ResetOwner, CliType
    <2>2. /\ since'[p] = since[p] /\ p \in since'["bot"]
          /\ \A q \in Process : q # p /\ cli[q].at = "read" => p \in since'[q]
          /\ \A q \in Process : cli[q].at = "done" => since'[q] = since[q]
      BY <1>7 DEF ResetOwner, Overtaken
    <2>3. ReadsAreFresh' BY <2>1, <2>2 DEF ReadsAreFresh
    <2>4. ASSUME NEW q \in Resetter, cli'[q].at = "done", cli'[q].previous # cli'[q].cleared
          PROVE  since'[q] \ {q} # {}
      <3>1. CASE q # p BY <2>1, <2>2, <2>4, <3>1 DEF ReportsAreTrue, Process
      <3>2. CASE q = p BY <2>1, <2>2, <2>4, <3>2 DEF ReadsAreFresh, Process
      <3> QED BY <3>1, <3>2
    <2> QED BY <2>3, <2>4 DEF ReportsAreTrue
  <1>8. ASSUME NEW p \in Process, ApplyApproveChat(p) PROVE ReadsAreFresh' /\ ReportsAreTrue'
    <2>1. /\ p \in Approver /\ cli'[p].at = "done" /\ UNCHANGED <<owner, bot, since>>
          /\ \A q \in Process : q # p => cli'[q] = cli[q]
      BY <1>1, <1>8 DEF ApplyApproveChat, CliType
    <2>2. \A r \in Resetter : r # p /\ cli'[r] = cli[r]
      BY <2>1, BootstrapAssumption DEF BootstrapAssumption, Process
    <2>3. ReadsAreFresh' BY <2>1 DEF ReadsAreFresh
    <2>4. ReportsAreTrue' BY <2>1, <2>2 DEF ReportsAreTrue
    <2> QED BY <2>3, <2>4
  <1> QED BY <1>2, <1>3, <1>4, <1>5, <1>6, <1>7, <1>8 DEF Next, vars, SendStart, SetRights

LEMMA BootstrapInvariance == Spec => []IInv
  BY InitIInv, NextIInv, PTL DEF Spec

\* Every variable keeps its type (Bootstrap's TypeOK).
THEOREM BootstrapTypeCorrect == Spec => []TypeOK
PROOF
  <1>1. IInv => TypeOK BY DEF IInv
  <1> QED BY <1>1, BootstrapInvariance, PTL

\* A group is approved only for somebody who made the bot an administrator
\* there, or by an operator (handleBotMembership, applyApproveChat).
THEOREM ApprovalsAreRequested == Spec => []ApprovedOnRequest
PROOF
  <1>1. IInv => ApprovedOnRequest BY DEF IInv
  <1> QED BY <1>1, BootstrapInvariance, PTL

\* Whoever acts on an owner that is not the owner any more was overtaken by
\* somebody else's reset since reading it, and a reset reports an owner it has not
\* removed in that case alone (handleBotMembership, applyApproveChat, ResetOwner).
THEOREM StaleReadsAreExplained == Spec => []StaleOwnerHasCause
PROOF
  <1>1. Init => ReadsAreFresh /\ ReportsAreTrue
    BY DEF Init, ReadsAreFresh, ReportsAreTrue, Idle, Process
  <1>2. ReadsAreFresh /\ ReportsAreTrue => StaleOwnerHasCause
    BY DEF ReadsAreFresh, ReportsAreTrue, StaleOwnerHasCause
  <1> QED BY <1>1, <1>2, NextFresh, BootstrapInvariance, PTL DEF Spec
=============================================================================
