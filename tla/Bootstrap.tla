----------------------------- MODULE Bootstrap ------------------------------
(***************************************************************************)
(* Who owns the bot and which groups it moderates.  The first private      *)
(* /start registers the owner (RegisterOwner); a group is approved when    *)
(* the owner makes the bot an administrator there that can delete          *)
(* (handleBotMembership); an operator resets the owner or approves a group *)
(* from the command line, in processes of their own on the same database   *)
(* (applyResetOwner, applyApproveChat).                                    *)
(***************************************************************************)
EXTENDS Naturals, Sequences

CONSTANTS User, Chat,
          Group,               \* the chats that are groups; the others are channels
          Resetter, Approver,  \* runs of the bot's two command-line flags
          MaxUpdates           \* bound: updates in all

ASSUME BootstrapAssumption ==
  /\ Group \subseteq Chat
  /\ Resetter \cap Approver = {} /\ "bot" \notin Resetter \cup Approver
  /\ MaxUpdates \in Nat

VARIABLES
  owner,      \* bot_owner: at most one user
  approved,   \* approved_chats: by whom
  rights,     \* what the bot is in each chat
  updates, sent,
  bot,        \* the handler of the update in work
  cli,        \* the operator's processes
  promoters,  \* history: who has ever made the bot an administrator where
  since       \* history: the resets since somebody read the owner, until they acted on it

vars == <<owner, approved, rights, updates, sent, bot, cli, promoters, since>>

None == "none"
Users == User \cup {None}
\* An administrator, or the creator, may delete or may not.
Rights == {"member", "administrator", "deleter"}
Start(u) == [kind |-> "start", from |-> u, chat |-> None, rights |-> "member"]
BotMember(u, c, r) == [kind |-> "my_chat_member", from |-> u, chat |-> c, rights |-> r]
Idle == [at |-> "idle", chat |-> None, owner |-> None]
Process == Resetter \cup Approver

Init ==
  /\ owner = None
  /\ approved = [c \in Chat |-> None]
  /\ rights = [c \in Chat |-> "member"]
  /\ updates = <<>> /\ sent = 0
  /\ bot = Idle
  /\ cli = [p \in Process |-> [at |-> "new", chat |-> None, previous |-> None, cleared |-> None]]
  /\ promoters = {}
  /\ since = [x \in Process \cup {"bot"} |-> {}]

-----------------------------------------------------------------------------
(* Telegram.                                                               *)

Send(u) == /\ sent < MaxUpdates /\ sent' = sent + 1
           /\ updates' = Append(updates, u)

SendStart(u) ==
  /\ Send(Start(u))
  /\ UNCHANGED <<owner, approved, rights, bot, cli, promoters, since>>

SetRights(u, c) ==
  \E r \in Rights \ {rights[c]} :
    /\ rights' = [rights EXCEPT ![c] = r]
    /\ Send(BotMember(u, c, r))
    /\ promoters' = IF r = "member" THEN promoters ELSE promoters \cup {<<u, c>>}
    /\ UNCHANGED <<owner, approved, bot, cli, since>>

-----------------------------------------------------------------------------
(* The bot, one update after the other.                                    *)

Head1(kind) == bot.at = "idle" /\ updates # <<>> /\ Head(updates).kind = kind

\* Mutant: a later /start takes the bot over.
RegisterOwnerUpsert(u) == owner' = u
RegisterOwner(u) == owner' = IF owner = None THEN u ELSE owner

HandlePrivateMessage ==
  /\ Head1("start")
  /\ RegisterOwner(Head(updates).from)
  /\ updates' = Tail(updates)
  /\ UNCHANGED <<approved, rights, sent, bot, cli, promoters, since>>

\* Mutants: an administrator right given by anybody counts; so does one while
\* there is no owner.
OwnerMatchesAny(user) == owner # None
OwnerMatchesUnset(user) == owner \in {None, user}
OwnerMatches(user) == owner # None /\ owner = user

\* handleBotMembership reads the owner and then asks Telegram for the rights.
HandleBotMembership ==
  LET u == Head(updates) IN
  /\ Head1("my_chat_member")
  /\ updates' = Tail(updates)
  /\ bot' = IF OwnerMatches(u.from) /\ u.chat \in Group /\ u.rights # "member"
            THEN [at |-> "asking", chat |-> u.chat, owner |-> owner] ELSE Idle
  /\ since' = [since EXCEPT !["bot"] = {}]
  /\ UNCHANGED <<owner, approved, rights, sent, cli, promoters>>

HasDeletePermission ==
  /\ bot.at = "asking"
  /\ bot' = IF rights[bot.chat] = "deleter" THEN [bot EXCEPT !.at = "approving"] ELSE Idle
  /\ UNCHANGED <<owner, approved, rights, updates, sent, cli, promoters, since>>

ApproveChat ==
  /\ bot.at = "approving"
  /\ approved' = [approved EXCEPT ![bot.chat] = bot.owner]
  /\ bot' = Idle
  /\ UNCHANGED <<owner, rights, updates, sent, cli, promoters, since>>

\* A store call, the question to Telegram or the process fails: the update is
\* not handled any further.
HandlerFails ==
  /\ \/ /\ bot.at # "idle" /\ bot' = Idle /\ UNCHANGED updates
     \/ /\ bot.at = "idle" /\ updates # <<>>
        /\ updates' = Tail(updates) /\ UNCHANGED bot
  /\ UNCHANGED <<owner, approved, rights, sent, cli, promoters, since>>

-----------------------------------------------------------------------------
(* The operator.                                                           *)

\* History: p resets the owner, for everybody who has not acted on it yet.
Overtaken(p) ==
  since' = [x \in Process \cup {"bot"} |->
              IF x = p \/ (x \in Process /\ cli[x].at = "done") THEN since[x]
              ELSE since[x] \cup {p}]

\* Both flags read the owner first and refuse to go on without one.
ReadOwner(p) ==
  /\ cli[p].at = "new"
  /\ \E c \in Chat :
       cli' = [cli EXCEPT ![p] = [@ EXCEPT !.at = IF owner = None THEN "refused" ELSE "read",
                                            !.previous = owner,
                                            !.chat = IF p \in Approver THEN c ELSE None]]
  /\ since' = [since EXCEPT ![p] = {}]
  /\ UNCHANGED <<owner, approved, rights, updates, sent, bot, promoters>>

ResetOwner(p) ==
  /\ p \in Resetter /\ cli[p].at = "read"
  /\ owner' = None
  /\ cli' = [cli EXCEPT ![p].at = "done", ![p].cleared = owner]
  /\ Overtaken(p)
  /\ UNCHANGED <<approved, rights, updates, sent, bot, promoters>>

ApplyApproveChat(p) ==
  /\ p \in Approver /\ cli[p].at = "read"
  /\ approved' = [approved EXCEPT ![cli[p].chat] = cli[p].previous]
  /\ cli' = [cli EXCEPT ![p].at = "done"]
  /\ UNCHANGED <<owner, rights, updates, sent, bot, promoters, since>>

Next ==
  \/ \E u \in User : SendStart(u) \/ \E c \in Chat : SetRights(u, c)
  \/ HandlePrivateMessage \/ HandleBotMembership
  \/ HasDeletePermission \/ ApproveChat \/ HandlerFails
  \/ \E p \in Process : ReadOwner(p) \/ ResetOwner(p) \/ ApplyApproveChat(p)

Spec == Init /\ [][Next]_vars

-----------------------------------------------------------------------------
TypeOK ==
  /\ owner \in Users /\ approved \in [Chat -> Users] /\ rights \in [Chat -> Rights]
  /\ updates \in Seq([kind : {"start", "my_chat_member"}, from : User,
                      chat : Chat \cup {None}, rights : Rights])
  /\ sent \in 0..MaxUpdates
  /\ bot \in [at : {"idle", "asking", "approving"}, chat : Chat \cup {None}, owner : Users]
  /\ bot.at # "idle" => bot.owner \in User /\ bot.chat \in Chat
  /\ cli \in [Process -> [at : {"new", "refused", "read", "done"}, chat : Chat \cup {None},
                          previous : Users, cleared : Users]]
  /\ promoters \subseteq User \X Chat
  /\ since \in [Process \cup {"bot"} -> SUBSET Resetter]

\* A chat is approved in the name of somebody who made the bot an administrator
\* there, and it is a group then, or by an operator (handleBotMembership,
\* ownerMatches).
ApprovedOnRequest ==
  \A c \in Chat : approved[c] # None =>
    \/ c \in Group /\ <<approved[c], c>> \in promoters
    \/ \E p \in Approver : cli[p].at = "done" /\ cli[p].chat = c

\* The owner is read in one statement and acted on in a later one, after a
\* question to Telegram or in another process (handleBotMembership,
\* applyApproveChat, ResetOwner).  What was read is out of date only if a reset by
\* somebody else came between the two, whatever claims, resets and promotions
\* surround them: then alone is a group approved in the name of a former owner,
\* or does a reset report an owner it has not removed.
StaleOwnerHasCause ==
  /\ \A p \in Process :
       cli[p].at = "read" /\ cli[p].previous # owner => since[p] \ {p} # {}
  /\ bot.at # "idle" /\ bot.owner # owner => since["bot"] # {}
  /\ \A p \in Resetter :
       cli[p].at = "done" /\ cli[p].previous # cli[p].cleared => since[p] \ {p} # {}
=============================================================================
