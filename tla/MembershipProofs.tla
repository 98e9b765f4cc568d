-------------------------- MODULE MembershipProofs ---------------------------
(***************************************************************************)
(* Membership for every finite set of users, any window and skew of the    *)
(* clocks, any number of failing writes, restarts and repeated updates.    *)
(*                                                                         *)
(* Types and VeteranFree hold for all of them: a row may be behind the     *)
(* chat, miss a join or come back to an older one, but it never runs       *)
(* ahead, unless a change of status was taken for a join.  No other date   *)
(* that the bot has stored, or will be told before it reads a message, is  *)
(* later than the join date of the sender (InChat, InQueue).               *)
(*                                                                         *)
(* NewcomerCaught and RowsCatchUp are proved for a table whose writes all  *)
(* succeed.  The queue then foretells every row: the updates that wait,    *)
(* handled one by one, lead it to what the chat says (Foretold), and those *)
(* that may be delivered again lead it back to where it is (Repeats).      *)
(* Where a hypothesis of a theorem is left out, the property is false      *)
(* (README.md, known divergences).                                         *)
(***************************************************************************)
EXTENDS Membership, FiniteSetTheorems, SequenceTheorems, WellFoundedInduction, TLAPS

\* The rest of what the proofs assume: a chat has finitely many users.
Finite == IsFiniteSet(User)

\* An update that gives u the date of a join.
Dates(e, u) == u \in e.users /\ e.status \in Present /\ e.joins

\* No update in s gives u a longer window than n.
Within(s, u, n) == \A i \in 1..Len(s) : Dates(s[i], u) => s[i].left <= n

\* The window of a member covers what is stored of it, queued, and may come back.
InChat == \A u \in User : chat[u].present =>
  /\ u \notin presumed => rows[u].left <= chat[u].left
  /\ Within(updates, u, chat[u].left)
  /\ Within(handled, u, chat[u].left)

\* And so does the window a message came with, for what is handled before it.
InQueue == \A i \in 1..Len(updates) : updates[i].kind = "message" =>
  \A u \in updates[i].users :
    /\ u \notin presumed => rows[u].left <= updates[i].left
    /\ Within(handled, u, updates[i].left)
    /\ \A j \in 1..i : Dates(updates[j], u) => updates[j].left <= updates[i].left

\* Messages are claimed, so only membership updates are handled again.
NoMessages == \A i \in 1..Len(handled) : handled[i].kind # "message"

JInv == TypeOK /\ InChat /\ InQueue /\ NoMessages /\ VeteranFree

Verdicts == [newcomer : BOOLEAN, ahead : BOOLEAN, presumed : BOOLEAN, deleted : BOOLEAN]
Rows == [status : Present \cup Gone \cup {"none"}, left : Left, grandfathered : BOOLEAN]

-----------------------------------------------------------------------------
(* The table's operators, and time.                                        *)

\* A stored row is a row (RecordMembership).
LEMMA RecordMembershipType ==
  ASSUME NEW row \in Rows, NEW status \in Present \cup Gone, NEW left \in Left
  PROVE  RecordMembership(row, status, left) \in Rows
BY MembershipAssumption DEF RecordMembership, Rows, NoRow, Active, Present, Gone, Left

\* RecordMembership keeps the date, or sets it to that of an update which says
\* that somebody is there who was not.
LEMMA RecordMembershipLeft ==
  ASSUME NEW row \in Rows, NEW status \in Present \cup Gone, NEW left \in Left
  PROVE  RecordMembership(row, status, left).left =
           IF status \in Present /\ (row = NoRow \/ row.status \in Gone) THEN left ELSE row.left
BY DEF RecordMembership, Rows, NoRow, Active, Present, Gone

\* Grandfather stores a row that is over, if it stores one.
LEMMA GrandfatherType ==
  ASSUME NEW row \in Rows
  PROVE  /\ Grandfather(row) \in Rows
         /\ Grandfather(row).left <= row.left
BY MembershipAssumption DEF Grandfather, Rows, NoRow, Present, Gone, Left

\* A window counts down to its end and not past it, and longer ones stay longer.
LEMMA CountDownFacts ==
  ASSUME NEW m \in Left, NEW n \in Left
  PROVE  /\ CountDown(m) \in Left
         /\ m <= n => CountDown(m) <= CountDown(n)
BY MembershipAssumption DEF CountDown, Left

\* What is handled is remembered, at least for a while (what Telegram repeats).
LEMMA RememberFacts ==
  ASSUME TypeOK, NEW e \in Update
  PROVE  /\ Remember(e) \in Seq(Update)
         /\ \A i \in 1..Len(Remember(e)) :
              \/ Remember(e)[i] = e
              \/ \E k \in 1..Len(handled) : Remember(e)[i] = handled[k]
<1> DEFINE all == Append(handled, e)
<1>1. /\ all \in Seq(Update) /\ all # <<>> /\ Len(all) = Len(handled) + 1
      /\ \A i \in 1..Len(handled) : all[i] = handled[i]
      /\ all[Len(handled) + 1] = e
  BY AppendProperties DEF TypeOK
<1>2. /\ Tail(all) \in Seq(Update) /\ Len(Tail(all)) = Len(all) - 1
      /\ \A i \in 1..Len(Tail(all)) : Tail(all)[i] = all[i + 1]
  BY <1>1, HeadTailProperties
<1>3. Len(handled) \in Nat
  BY LenProperties DEF TypeOK
<1>4. Remember(e) = all \/ Remember(e) = Tail(all)
  BY DEF Remember
<1>5. CASE Remember(e) = all
  BY <1>1, <1>3, <1>5
<1>6. CASE Remember(e) = Tail(all)
  BY <1>1, <1>2, <1>3, <1>6
<1> QED BY <1>4, <1>5, <1>6

-----------------------------------------------------------------------------
(* Types.                                                                  *)

\* The updates of a join are updates, each for users who join (Join).
LEMMA JoinUpdates ==
  ASSUME Finite, NEW us \in SUBSET User, us # {}, NEW order \in SetToSeqs(us),
         NEW status \in [User -> Present], NEW left \in Left, NEW each,
         each = [i \in DOMAIN order |-> Joined(order[i], status[order[i]], left)]
  PROVE  /\ each \in Seq(Update)
         /\ \A i \in 1..Len(each) : /\ each[i].kind = "chat_member"
                                    /\ each[i].users \subseteq us
                                    /\ each[i].status \in Present
                                    /\ each[i].left = left /\ each[i].joins
         /\ \A u \in us : \E i \in 1..Len(each) : u \in each[i].users
<1>1. Cardinality(us) \in Nat
  BY FS_Subset, FS_CardinalityType DEF Finite
<1>2. order \in [1..Cardinality(us) -> us]
  BY DEF SetToSeqs
<1>3. DOMAIN order = 1..Cardinality(us)
  BY <1>2
<1>4. \A i \in 1..Cardinality(us) :
        Joined(order[i], status[order[i]], left) \in Update
  BY <1>2 DEF Joined, Update
<1>5. each \in [1..Cardinality(us) -> Update]
  BY <1>3, <1>4
<1>6. each \in Seq(Update) /\ Len(each) = Cardinality(us)
  BY <1>1, <1>5
<1>7. \A i \in 1..Len(each) : each[i] = Joined(order[i], status[order[i]], left)
  BY <1>3, <1>6
<1>8. \A u \in us : \E i \in 1..Cardinality(us) : order[i] = u
  <2>1. IsFiniteSet(us)
    BY FS_Subset DEF Finite
  <2>2. Cardinality(1..Cardinality(us)) = Cardinality(us)
    <3>1. Cardinality(1..Cardinality(us)) =
            IF 1 > Cardinality(us) THEN 0 ELSE Cardinality(us) - 1 + 1
      BY <1>1, FS_Interval
    <3> QED BY <1>1, <3>1
  <2>3. order \in Injection(1..Cardinality(us), us)
    BY <1>2 DEF SetToSeqs, Injection, IsInjective
  <2>4. order \in Surjection(1..Cardinality(us), us)
    BY <2>1, <2>2, <2>3, FS_Injection
  <2> QED BY <2>4 DEF Surjection
<1>9. ASSUME NEW u \in us
      PROVE  \E i \in 1..Len(each) : u \in each[i].users
  <2>1. PICK i \in 1..Len(each) : order[i] = u
    BY <1>6, <1>8
  <2>2. each[i].users = {order[i]}
    BY <1>7 DEF Joined
  <2> QED BY <2>1, <2>2
<1>10. \A i \in 1..Len(each) : order[i] \in us /\ status[order[i]] \in Present
  BY <1>2, <1>6
<1>11. \A i \in 1..Len(each) : /\ each[i].kind = "chat_member"
                               /\ each[i].users \subseteq us
                               /\ each[i].status \in Present
                               /\ each[i].left = left /\ each[i].joins
  BY <1>7, <1>10 DEF Joined
<1> QED BY <1>6, <1>9, <1>11

\* The service message of a join is an update (Join).
LEMMA ServiceMessage ==
  ASSUME NEW us \in SUBSET User, us # {}, NEW left \in Left
  PROVE  <<NewChatMembers(us, left)>> \in Seq(Update)
BY DEF NewChatMembers, Update, Present

\* What a join queues, in any of its orders: updates that say that those who
\* join are there, with the date of the join, for each of them, and no message.
JoinQueues(new, us) ==
  /\ new \in Seq(Update)
  /\ \A i \in 1..Len(new) : /\ new[i].kind # "message"
                            /\ new[i].users \subseteq us
                            /\ new[i].status \in Present
                            /\ new[i].left = Window + Skew /\ new[i].joins
  /\ \A u \in us : \E i \in 1..Len(new) : u \in new[i].users

\* A join queues such a sequence (Join).
LEMMA JoinShape ==
  ASSUME Finite, TypeOK, NEW us \in SUBSET User, Join(us)
  PROVE  \E new : /\ JoinQueues(new, us)
                  /\ updates' = updates \o new
<1> DEFINE left == Window + Skew
           status == [u \in User |-> IF chat[u].status = "restricted" THEN "restricted" ELSE "member"]
           all == <<NewChatMembers(us, left)>>
<1>1. us # {} /\ left \in Left
  BY MembershipAssumption DEF Join, Left
<1>2. PICK order \in SetToSeqs(us) :
        LET each == [i \in DOMAIN order |-> Joined(order[i], status[order[i]], left)]
        IN \/ Enqueue(each \o all) \/ Enqueue(all \o each) \/ Enqueue(each)
  <2>1. PICK order \in SetToSeqs(us) :
          LET each == [i \in DOMAIN order |->
                        Joined(order[i], IF chat[order[i]].status = "restricted"
                                             THEN "restricted" ELSE "member", left)]
          IN \/ Enqueue(each \o all) \/ Enqueue(all \o each) \/ Enqueue(each)
    BY DEF Join
  <2>2. order \in [1..Cardinality(us) -> us]
    BY DEF SetToSeqs
  <2>3. \A i \in DOMAIN order : status[order[i]] =
          IF chat[order[i]].status = "restricted" THEN "restricted" ELSE "member"
    BY <2>2
  <2>4. [i \in DOMAIN order |-> Joined(order[i], status[order[i]], left)] =
        [i \in DOMAIN order |-> Joined(order[i], IF chat[order[i]].status = "restricted"
                                                     THEN "restricted" ELSE "member", left)]
    BY <2>3
  <2> QED BY <2>1, <2>4
<1> DEFINE each == [i \in DOMAIN order |-> Joined(order[i], status[order[i]], left)]
<1>3. status \in [User -> Present]
  BY DEF Present
<1>4. /\ each \in Seq(Update)
      /\ \A i \in 1..Len(each) : /\ each[i].kind = "chat_member"
                                 /\ each[i].users \subseteq us
                                 /\ each[i].status \in Present
                                 /\ each[i].left = left /\ each[i].joins
      /\ \A u \in us : \E i \in 1..Len(each) : u \in each[i].users
  <2> HIDE DEF status, left
  <2> QED BY <1>1, <1>3, JoinUpdates
<1>5. all \in Seq(Update) /\ Len(all) = 1 /\ all[1] = NewChatMembers(us, left)
  BY <1>1, ServiceMessage
<1>6. JoinQueues(each, us)
  BY <1>4 DEF JoinQueues
<1>7. JoinQueues(all, us)
  BY <1>5 DEF JoinQueues, NewChatMembers, Present
<1> HIDE DEF each, all
<1>8. \A s, t : JoinQueues(s, us) /\ JoinQueues(t, us) => JoinQueues(s \o t, us)
  <2> SUFFICES ASSUME NEW s, NEW t, JoinQueues(s, us), JoinQueues(t, us)
               PROVE  JoinQueues(s \o t, us)
    OBVIOUS
  <2>1. s \in Seq(Update) /\ t \in Seq(Update) /\ Len(s) \in Nat /\ Len(t) \in Nat
    BY LenProperties DEF JoinQueues
  <2>2. /\ s \o t \in Seq(Update) /\ Len(s \o t) = Len(s) + Len(t)
        /\ \A i \in 1..Len(s) + Len(t) :
             (s \o t)[i] = IF i <= Len(s) THEN s[i] ELSE t[i - Len(s)]
    BY <2>1, ConcatProperties
  <2>3. ASSUME NEW i \in 1..Len(s \o t)
        PROVE  \/ \E k \in 1..Len(s) : (s \o t)[i] = s[k]
               \/ \E k \in 1..Len(t) : (s \o t)[i] = t[k]
    <3>1. CASE i <= Len(s)
      BY <2>1, <2>2, <2>3, <3>1
    <3>2. CASE i > Len(s)
      <4>1. i - Len(s) \in 1..Len(t)
        BY <2>1, <2>2, <2>3, <3>2
      <4>2. (s \o t)[i] = t[i - Len(s)]
        BY <2>1, <2>2, <2>3, <3>2
      <4> QED BY <4>1, <4>2
    <3> QED BY <2>1, <2>2, <3>1, <3>2
  <2>4. ASSUME NEW u \in us
        PROVE  \E i \in 1..Len(s \o t) : u \in (s \o t)[i].users
    <3>1. PICK i \in 1..Len(s) : u \in s[i].users
      BY DEF JoinQueues
    <3> QED BY <2>1, <2>2, <3>1
  <2>5. ASSUME NEW i \in 1..Len(s \o t)
        PROVE  /\ (s \o t)[i].kind # "message" /\ (s \o t)[i].users \subseteq us
               /\ (s \o t)[i].status \in Present
               /\ (s \o t)[i].left = Window + Skew /\ (s \o t)[i].joins
    <3>1. CASE \E k \in 1..Len(s) : (s \o t)[i] = s[k]
      BY <3>1 DEF JoinQueues
    <3>2. CASE \E k \in 1..Len(t) : (s \o t)[i] = t[k]
      BY <3>2 DEF JoinQueues
    <3> QED BY <2>3, <3>1, <3>2
  <2> QED BY <2>2, <2>4, <2>5 DEF JoinQueues
<1> QED BY <1>2, <1>6, <1>7, <1>8 DEF Enqueue, each

\* A queue that grows by updates is one of updates (Join, Leave, ChangeStatus, Post).
LEMMA GrownQueue ==
  ASSUME TypeOK, NEW new \in Seq(Update), updates' = updates \o new
  PROVE  /\ updates' \in Seq(Update)
         /\ Len(updates) \in Nat /\ Len(new) \in Nat
         /\ Len(updates') = Len(updates) + Len(new)
         /\ \A i \in 1..Len(updates) : updates'[i] = updates[i]
         /\ \A i \in 1..Len(updates') : i > Len(updates) =>
              /\ i - Len(updates) \in 1..Len(new)
              /\ updates'[i] = new[i - Len(updates)]
<1>1. Len(updates) \in Nat /\ Len(new) \in Nat /\ updates \in Seq(Update)
  BY LenProperties DEF TypeOK
<1>2. /\ updates' \in Seq(Update) /\ Len(updates') = Len(updates) + Len(new)
      /\ \A i \in 1..Len(updates) + Len(new) :
           updates'[i] = IF i <= Len(updates) THEN updates[i] ELSE new[i - Len(updates)]
  BY <1>1, ConcatProperties
<1> QED BY <1>1, <1>2

\* The oldest update goes, the others stay in order (Consume).
LEMMA ShrunkQueue ==
  ASSUME TypeOK, updates # <<>>, updates' = Tail(updates)
  PROVE  /\ Head(updates) \in Update /\ Head(updates) = updates[1]
         /\ 1 \in 1..Len(updates) /\ Len(updates) \in Nat
         /\ updates' \in Seq(Update)
         /\ Len(updates') = Len(updates) - 1
         /\ \A i \in 1..Len(updates') : /\ updates'[i] = updates[i + 1]
                                        /\ i + 1 \in 1..Len(updates)
<1>1. Len(updates) \in Nat \ {0} /\ updates \in Seq(Update)
  BY EmptySeq DEF TypeOK
<1>2. /\ Head(updates) \in Update /\ updates' \in Seq(Update)
      /\ Len(updates') = Len(updates) - 1
      /\ \A i \in 1..Len(updates') : updates'[i] = updates[i + 1]
  BY <1>1, HeadTailProperties
<1>3. Head(updates) = updates[1]
  BY <1>1
<1> QED BY <1>1, <1>2, <1>3

\* The last updates come back before those that wait (Restart).
LEMMA ReplayedQueue ==
  ASSUME TypeOK, NEW n \in 0..Len(handled),
         updates' = SubSeq(handled, Len(handled) - n + 1, Len(handled)) \o updates
  PROVE  /\ updates' \in Seq(Update)
         /\ Len(updates') = n + Len(updates) /\ Len(updates) \in Nat /\ n \in Nat
         /\ \A i \in 1..Len(updates') :
              \/ i <= n /\ \E k \in 1..Len(handled) : updates'[i] = handled[k]
              \/ i > n /\ i - n \in 1..Len(updates) /\ updates'[i] = updates[i - n]
<1> DEFINE back == SubSeq(handled, Len(handled) - n + 1, Len(handled))
<1>1. /\ Len(handled) \in Nat /\ Len(updates) \in Nat
      /\ handled \in Seq(Update) /\ updates \in Seq(Update)
      /\ \A k \in 1..Len(handled) : handled[k] \in Update
  BY LenProperties, ElementOfSeq DEF TypeOK
<1>2. /\ back \in Seq(Update) /\ Len(back) = n
      /\ \A i \in 1..n : back[i] = handled[Len(handled) - n + i]
  <2>1. /\ Len(handled) - n + 1 \in Int /\ Len(handled) \in Int
        /\ \A i \in (Len(handled) - n + 1)..Len(handled) : handled[i] \in Update
    BY <1>1
  <2>2. /\ back \in Seq(Update)
        /\ Len(back) = IF Len(handled) - n + 1 <= Len(handled)
                       THEN Len(handled) - (Len(handled) - n + 1) + 1 ELSE 0
        /\ \A i \in 1..(Len(handled) - (Len(handled) - n + 1) + 1) :
             back[i] = handled[(Len(handled) - n + 1) + i - 1]
    BY <2>1, SubSeqProperties
  <2>3. /\ Len(handled) - (Len(handled) - n + 1) + 1 = n
        /\ \A i \in 1..n : (Len(handled) - n + 1) + i - 1 = Len(handled) - n + i
    BY <1>1
  <2> QED BY <1>1, <2>2, <2>3
<1> HIDE DEF back
<1>3. updates' = back \o updates
  BY DEF back
<1>4. /\ updates' \in Seq(Update) /\ Len(updates') = n + Len(updates)
      /\ \A i \in 1..n + Len(updates) :
           updates'[i] = IF i <= n THEN back[i] ELSE updates[i - n]
  BY <1>1, <1>2, <1>3, ConcatProperties, SMTT(30)
<1>5. n \in Nat
  BY <1>1
<1>6. ASSUME NEW i \in 1..Len(updates'), i <= n
      PROVE  \E k \in 1..Len(handled) : updates'[i] = handled[k]
  <2>1. i \in 1..n /\ Len(handled) - n + i \in 1..Len(handled)
    BY <1>1, <1>4, <1>5, <1>6
  <2> QED BY <1>2, <1>4, <1>5, <2>1
<1>7. ASSUME NEW i \in 1..Len(updates'), i > n
      PROVE  i - n \in 1..Len(updates) /\ updates'[i] = updates[i - n]
  BY <1>1, <1>4, <1>5, <1>7
<1>8. \A i \in 1..Len(updates') : i <= n \/ i > n
  BY <1>1, <1>4, <1>5
<1> QED BY <1>1, <1>4, <1>5, <1>6, <1>7, <1>8

\* An update that ages stays one (Tick).
LEMMA AgeType ==
  ASSUME NEW e \in Update
  PROVE  /\ Age(e) \in Update
         /\ Age(e).kind = e.kind /\ Age(e).users = e.users /\ Age(e).status = e.status /\ Age(e).joins = e.joins
         /\ Age(e).left = CountDown(e.left)
<1>1. e.left \in Left /\ CountDown(e.left) \in Left
  BY CountDownFacts DEF Update
<1> QED BY <1>1 DEF Age, Update

\* So does a row.
LEMMA AgeRow ==
  ASSUME NEW r \in Rows
  PROVE  Age(r) \in Rows /\ Age(r).left = CountDown(r.left)
<1>1. r.left \in Left /\ CountDown(r.left) \in Left
  BY CountDownFacts DEF Rows
<1> QED BY <1>1 DEF Age, Rows

\* What a membership update leaves in the table (handleMembership).
LEMMA RecordedRows ==
  ASSUME TypeOK, updates # <<>>, NEW us \in SUBSET Head(updates).users, Record(us)
  PROVE  /\ rows' \in [User -> Rows]
         /\ presumed' \subseteq User
         /\ \A u \in User : u \notin presumed' =>
              \/ u \notin presumed /\ rows'[u].left = rows[u].left
              \/ Dates(Head(updates), u) /\ rows'[u].left = Head(updates).left
<1>1. Head(updates) \in Update
  BY HeadTailProperties DEF TypeOK
<1>2. /\ Head(updates).status \in Present \cup Gone
      /\ Head(updates).left \in Left
      /\ us \subseteq User
  BY <1>1 DEF Update
<1>3. rows \in [User -> Rows]
  BY DEF TypeOK, Rows
<1> DEFINE stored(u) == RecordMembership(rows[u], Head(updates).status, Head(updates).left)
<1>4. \A u \in User : /\ stored(u) \in Rows
                      /\ stored(u).left = IF Arrives(u) THEN Head(updates).left ELSE rows[u].left
                      /\ Arrives(u) => Head(updates).status \in Present
  <2> TAKE u \in User
  <2>1. Arrives(u) <=> Head(updates).status \in Present /\ (rows[u] = NoRow \/ rows[u].status \in Gone)
    BY <1>2 DEF Arrives, Active, Present, Gone
  <2> QED BY <1>2, <1>3, <2>1, RecordMembershipType, RecordMembershipLeft
<1>5. rows' = [u \in User |-> IF u \in us THEN stored(u) ELSE rows[u]]
  BY DEF Record
<1>6. presumed' = {u \in User : IF u \in us /\ Arrives(u) THEN ~Head(updates).joins ELSE u \in presumed}
  BY DEF Record, Presume
<1> HIDE DEF stored
<1>7. ASSUME NEW u \in User, u \notin presumed'
      PROVE  \/ u \notin presumed /\ rows'[u].left = rows[u].left
             \/ Dates(Head(updates), u) /\ rows'[u].left = Head(updates).left
  <2>1. CASE u \in us /\ Arrives(u)
    BY <1>4, <1>5, <1>6, <1>7, <2>1 DEF Dates
  <2>2. CASE ~(u \in us /\ Arrives(u))
    BY <1>4, <1>5, <1>6, <1>7, <2>2
  <2> QED BY <2>1, <2>2
<1> QED BY <1>3, <1>4, <1>5, <1>6, <1>7

\* Every step keeps the types.
LEMMA TypesKept ==
  ASSUME Finite, TypeOK, [Next]_vars
  PROVE  TypeOK'
<1> USE MembershipAssumption
<1> DEFINE Members == [present : BOOLEAN, left : Left, status : Present \cup Gone]
<1>0. /\ chat \in [User -> Members] /\ rows \in [User -> Rows]
      /\ updates \in Seq(Update) /\ handled \in Seq(Update)
      /\ presumed \subseteq User /\ verdict \in Verdicts
      /\ lost \in 0..MaxLost /\ crashes \in 0..MaxCrashes
  BY DEF TypeOK, Rows, Verdicts
<1>q. SUFFICES /\ chat' \in [User -> Members] /\ rows' \in [User -> Rows]
               /\ updates' \in Seq(Update) /\ handled' \in Seq(Update)
               /\ presumed' \subseteq User /\ verdict' \in Verdicts
               /\ lost' \in 0..MaxLost /\ crashes' \in 0..MaxCrashes
  BY DEF TypeOK, Rows, Verdicts
<1>v. NoVerdict \in Verdicts
  BY DEF NoVerdict, Verdicts
<1>l. 0 \in Left /\ Window \in Left /\ Window + Skew \in Left
  BY DEF Left
<1>c. ASSUME Consume, updates # <<>>
      PROVE  updates' \in Seq(Update) /\ handled' \in Seq(Update)
  BY <1>0, <1>c, ShrunkQueue, RememberFacts DEF Consume
<1>1. ASSUME NEW us \in SUBSET User, Join(us) PROVE TypeOK'
  <2>1. updates' \in Seq(Update)
    BY <1>1, JoinShape, GrownQueue DEF JoinQueues
  <2>2. chat' \in [User -> Members]
    BY <1>0, <1>1, <1>l DEF Join, Present, Gone
  <2> QED BY <1>0, <1>1, <1>v, <2>1, <2>2 DEF Join, TypeOK, Rows, Verdicts
<1>2. ASSUME NEW u \in User, Leave(u) PROVE TypeOK'
  <2>1. PICK status \in IF chat[u].status = "restricted" THEN {"restricted", "kicked"} ELSE Gone :
          /\ chat' = [chat EXCEPT ![u] = [present |-> FALSE, left |-> 0, status |-> status]]
          /\ updates' = updates \o <<ChatMember(u, status, Window + Skew)>>
    BY <1>2 DEF Leave, Enqueue
  <2>2. status \in Present \cup Gone
    BY DEF Present, Gone
  <2>3. <<ChatMember(u, status, Window + Skew)>> \in Seq(Update)
    BY <2>2, <1>l DEF ChatMember, Update
  <2>4. updates' \in Seq(Update)
    BY <2>1, <2>3, GrownQueue
  <2>5. chat' \in [User -> Members]
    BY <1>0, <2>1, <2>2, <1>l
  <2> QED BY <1>0, <1>2, <1>v, <2>4, <2>5 DEF Leave, TypeOK, Rows, Verdicts
<1>3. ASSUME NEW u \in User, ChangeStatus(u) PROVE TypeOK'
  <2>1. PICK status \in (Statuses \cup {"member"}) \ {chat[u].status} :
          /\ chat' = [chat EXCEPT ![u].status = status]
          /\ updates' = updates \o <<ChatMember(u, status, Window + Skew)>>
    BY <1>3 DEF ChangeStatus, Enqueue
  <2>2. status \in Present \cup Gone
    BY DEF Present, Gone
  <2>3. <<ChatMember(u, status, Window + Skew)>> \in Seq(Update)
    BY <2>2, <1>l DEF ChatMember, Update
  <2>4. updates' \in Seq(Update)
    BY <2>1, <2>3, GrownQueue
  <2>5. chat' \in [User -> Members]
    BY <1>0, <2>1, <2>2
  <2> QED BY <1>0, <1>3, <1>v, <2>4, <2>5 DEF ChangeStatus, TypeOK, Rows, Verdicts
<1>4. ASSUME NEW u \in User, Post(u) PROVE TypeOK'
  <2>1. updates' = updates \o <<Message(u, chat[u].left)>>
    BY <1>4 DEF Post, Enqueue
  <2>2. <<Message(u, chat[u].left)>> \in Seq(Update)
    BY <1>0 DEF Message, Update, Present
  <2>3. updates' \in Seq(Update)
    BY <2>1, <2>2, GrownQueue
  <2> QED BY <1>0, <1>4, <1>v, <2>3 DEF Post, TypeOK, Rows, Verdicts
<1>5. ASSUME HandleMembership PROVE TypeOK'
  <2>1. updates # <<>> /\ Record(Head(updates).users) /\ Consume
    BY <1>5 DEF HandleMembership, Next1
  <2>2. rows' \in [User -> Rows] /\ presumed' \subseteq User
    BY <2>1, RecordedRows
  <2> QED BY <1>0, <1>5, <1>v, <1>c, <2>1, <2>2 DEF HandleMembership, TypeOK, Rows, Verdicts
<1>6. ASSUME HandleMessage PROVE TypeOK'
  <2> DEFINE w == CHOOSE x \in Head(updates).users : TRUE
  <2>1. updates # <<>> /\ Consume /\ rows' = [rows EXCEPT ![w] = Grandfather(rows[w])]
    BY <1>6 DEF HandleMessage, Next1
  <2>2. w \in User
    <3>1. Head(updates) \in Update
      BY <2>1, ShrunkQueue, <1>c, HeadTailProperties, <1>0
    <3> QED BY <3>1 DEF Update
  <2> HIDE DEF w
  <2>3. rows' \in [User -> Rows]
    BY <1>0, <2>1, <2>2, GrandfatherType
  <2>4. verdict' \in Verdicts
    BY <1>6 DEF HandleMessage, NewcomerPlan, Verdicts
  <2> QED BY <1>0, <1>6, <1>c, <2>1, <2>3, <2>4 DEF HandleMessage, TypeOK, Rows, Verdicts
<1>7. ASSUME HandleFails PROVE TypeOK'
  <2>1. updates # <<>> /\ Consume /\ lost' \in 0..MaxLost
    BY <1>0, <1>7 DEF HandleFails, Next1
  <2>2. PICK us \in SUBSET Head(updates).users : Record(us)
    BY <1>7 DEF HandleFails
  <2>3. rows' \in [User -> Rows] /\ presumed' \subseteq User
    BY <2>1, <2>2, RecordedRows
  <2> QED BY <1>0, <1>7, <1>v, <1>c, <2>1, <2>3 DEF HandleFails, TypeOK, Rows, Verdicts
<1>8. ASSUME Restart PROVE TypeOK'
  <2>1. updates' \in Seq(Update)
    BY <1>8, ReplayedQueue DEF Restart
  <2>2. <<>> \in Seq(Update) /\ crashes' \in 0..MaxCrashes
    BY <1>0, <1>8, EmptySeq DEF Restart
  <2> QED BY <1>0, <1>8, <1>v, <2>1, <2>2 DEF Restart, TypeOK, Rows, Verdicts
<1>9. ASSUME Tick PROVE TypeOK'
  <2>1. \A u \in User : Age(chat[u]) \in Members
    <3> TAKE u \in User
    <3>1. chat[u].left \in Left /\ CountDown(chat[u].left) \in Left
      BY <1>0, CountDownFacts
    <3> QED BY <1>0, <3>1 DEF Age
  <2>2. chat' \in [User -> Members]
    BY <1>9, <2>1 DEF Tick
  <2>3. rows' \in [User -> Rows]
    BY <1>0, <1>9, AgeRow DEF Tick
  <2>4. /\ Len(updates) \in Nat /\ Len(handled) \in Nat
        /\ DOMAIN updates = 1..Len(updates) /\ DOMAIN handled = 1..Len(handled)
        /\ \A i \in 1..Len(updates) : updates[i] \in Update
        /\ \A i \in 1..Len(handled) : handled[i] \in Update
    BY <1>0, LenProperties, ElementOfSeq
  <2>5. updates' \in [1..Len(updates) -> Update] /\ handled' \in [1..Len(handled) -> Update]
    BY <1>9, <2>4, AgeType DEF Tick
  <2>6. updates' \in Seq(Update) /\ handled' \in Seq(Update)
    BY <2>4, <2>5
  <2> QED BY <1>0, <1>9, <1>v, <2>2, <2>3, <2>6 DEF Tick, TypeOK, Rows, Verdicts
<1>10. CASE UNCHANGED vars
  BY <1>0, <1>10 DEF vars
<1> QED BY <1>1, <1>2, <1>3, <1>4, <1>5, <1>6, <1>7, <1>8, <1>9, <1>10
      DEF Next, TypeOK, Rows, Verdicts

-----------------------------------------------------------------------------
(* No date runs ahead.                                                     *)

\* The parts of the types that the order of dates needs.
LEMMA Lefts ==
  ASSUME TypeOK
  PROVE  /\ \A u \in User : rows[u].left \in Left /\ chat[u].left \in Left
         /\ \A i \in 1..Len(updates) : /\ updates[i] \in Update
                                       /\ updates[i].left \in Left
                                       /\ updates[i].users \subseteq User
         /\ \A i \in 1..Len(handled) : /\ handled[i] \in Update
                                       /\ handled[i].left \in Left
                                       /\ handled[i].users \subseteq User
         /\ Left \subseteq Int
         /\ \A n \in Left : n <= Window + Skew
         /\ Len(updates) \in Nat /\ Len(handled) \in Nat
<1>1. /\ \A i \in 1..Len(updates) : updates[i] \in Update
      /\ \A i \in 1..Len(handled) : handled[i] \in Update
      /\ Len(updates) \in Nat /\ Len(handled) \in Nat
  BY ElementOfSeq, LenProperties DEF TypeOK
<1>2. \A e \in Update : e.left \in Left /\ e.users \subseteq User
  BY DEF Update
<1>3. \A u \in User : rows[u].left \in Left /\ chat[u].left \in Left
  BY DEF TypeOK
<1> QED BY <1>1, <1>2, <1>3, MembershipAssumption DEF Left

\* Whatever comes to the end of the queue, its dates are no later than those of
\* the members they are about (Join, Leave, Post).
LEMMA QueueGrows ==
  ASSUME JInv, NEW new \in Seq(Update), updates' = updates \o new,
         handled' = handled, rows' = rows, presumed' = presumed, TypeOK',
         \A u \in User : chat'[u].present =>
           \/ chat[u].present /\ chat'[u].left = chat[u].left
           \/ chat'[u].left = Window + Skew,
         \A k \in 1..Len(new), u \in User :
           chat'[u].present /\ Dates(new[k], u) => new[k].left <= chat'[u].left,
         \A k \in 1..Len(new) : new[k].kind = "message" =>
           Len(new) = 1 /\ \A u \in new[k].users : chat'[u].present /\ new[k].left = chat'[u].left
  PROVE  InChat' /\ InQueue' /\ NoMessages'
<1>0. TypeOK /\ InChat /\ InQueue /\ NoMessages
  BY DEF JInv
<1>1. /\ updates' \in Seq(Update)
      /\ Len(updates) \in Nat /\ Len(new) \in Nat
      /\ Len(updates') = Len(updates) + Len(new)
      /\ \A i \in 1..Len(updates) : updates'[i] = updates[i]
      /\ \A i \in 1..Len(updates') : i > Len(updates) =>
           /\ i - Len(updates) \in 1..Len(new)
           /\ updates'[i] = new[i - Len(updates)]
  BY <1>0, GrownQueue
<1>2. /\ \A u \in User : rows[u].left \in Left /\ chat[u].left \in Left
      /\ \A i \in 1..Len(updates) : updates[i].left \in Left /\ updates[i].users \subseteq User
      /\ \A i \in 1..Len(handled) : handled[i].left \in Left /\ handled[i].users \subseteq User
      /\ Left \subseteq Int /\ \A n \in Left : n <= Window + Skew
      /\ Len(handled) \in Nat
  BY <1>0, Lefts
<1>3. \A u \in User : chat'[u].left \in Left
  BY DEF TypeOK
<1>4. ASSUME NEW u \in User, chat'[u].present
      PROVE  /\ u \notin presumed => rows[u].left <= chat'[u].left
             /\ Within(updates', u, chat'[u].left)
             /\ Within(handled, u, chat'[u].left)
  <2>1. /\ u \notin presumed => rows[u].left <= chat'[u].left
        /\ Within(updates, u, chat'[u].left)
        /\ Within(handled, u, chat'[u].left)
    <3>1. CASE chat[u].present /\ chat'[u].left = chat[u].left
      BY <1>0, <3>1 DEF InChat
    <3>2. CASE chat'[u].left = Window + Skew
      <4>1. rows[u].left <= Window + Skew
        BY <1>2
      <4>2. \A i \in 1..Len(updates) : updates[i].left <= Window + Skew
        BY <1>2
      <4>3. \A i \in 1..Len(handled) : handled[i].left <= Window + Skew
        BY <1>2
      <4> QED BY <3>2, <4>1, <4>2, <4>3 DEF Within
    <3> QED BY <1>4, <3>1, <3>2
  <2>2. ASSUME NEW i \in 1..Len(updates'), Dates(updates'[i], u)
        PROVE  updates'[i].left <= chat'[u].left
    <3>1. CASE i <= Len(updates)
      <4>1. i \in 1..Len(updates)
        BY <1>1, <3>1
      <4> QED BY <1>1, <2>1, <2>2, <4>1 DEF Within
    <3>2. CASE i > Len(updates)
      BY <1>1, <1>4, <2>2, <3>2
    <3> QED BY <1>1, <3>1, <3>2
  <2> QED BY <2>1, <2>2 DEF Within
<1>5. InChat'
  BY <1>4 DEF InChat, Within, Dates
<1>6. ASSUME NEW i \in 1..Len(updates'), updates'[i].kind = "message",
             NEW u \in updates'[i].users
      PROVE  /\ u \notin presumed => rows[u].left <= updates'[i].left
             /\ Within(handled, u, updates'[i].left)
             /\ \A j \in 1..i : Dates(updates'[j], u) => updates'[j].left <= updates'[i].left
  <2>1. CASE i <= Len(updates)
    <3>1. /\ i \in 1..Len(updates) /\ updates'[i] = updates[i]
          /\ \A j \in 1..i : updates'[j] = updates[j]
      BY <1>1, <2>1
    <3> QED BY <1>0, <1>6, <3>1 DEF InQueue
  <2>2. CASE i > Len(updates)
    <3>1. /\ i - Len(updates) \in 1..Len(new) /\ updates'[i] = new[i - Len(updates)]
      BY <1>1, <2>2
    <3>2. Len(new) = 1 /\ chat'[u].present /\ updates'[i].left = chat'[u].left
      BY <1>6, <3>1
    <3>3. u \in User
      <4>1. updates'[i] \in Update
        BY <1>1, <1>6, ElementOfSeq
      <4> QED BY <1>6, <4>1 DEF Update
    <3>4. \A j \in 1..i : j \in 1..Len(updates')
      BY <1>1
    <3>5. /\ u \notin presumed => rows[u].left <= chat'[u].left
          /\ Within(updates', u, chat'[u].left)
          /\ Within(handled, u, chat'[u].left)
      BY <1>4, <3>2, <3>3
    <3>6. \A j \in 1..i : Dates(updates'[j], u) => updates'[j].left <= chat'[u].left
      BY <3>4, <3>5 DEF Within
    <3> QED BY <3>2, <3>5, <3>6
  <2>3. i <= Len(updates) \/ i > Len(updates)
    BY <1>1
  <2> QED BY <2>1, <2>2, <2>3
<1>7. InQueue'
  BY <1>6 DEF InQueue, Within, Dates
<1>8. NoMessages'
  BY <1>0 DEF NoMessages
<1> QED BY <1>5, <1>7, <1>8

\* Whatever the oldest update leaves in the table, every later message was
\* posted with at least that much of the window (HandleMembership, HandleMessage,
\* HandleFails).
LEMMA QueueShrinks ==
  ASSUME JInv, updates # <<>>, Consume, chat' = chat, TypeOK',
         \A u \in User : u \notin presumed' =>
           \/ u \notin presumed /\ rows'[u].left <= rows[u].left
           \/ Dates(Head(updates), u) /\ rows'[u].left = Head(updates).left
  PROVE  InChat' /\ InQueue' /\ NoMessages'
<1>0. TypeOK /\ InChat /\ InQueue /\ NoMessages
  BY DEF JInv
<1>1. /\ Head(updates) \in Update /\ Head(updates) = updates[1]
      /\ 1 \in 1..Len(updates) /\ Len(updates) \in Nat
      /\ Len(updates') = Len(updates) - 1
      /\ \A i \in 1..Len(updates') : /\ updates'[i] = updates[i + 1]
                                     /\ i + 1 \in 1..Len(updates)
  BY <1>0, ShrunkQueue DEF Consume
<1>2. /\ \A u \in User : rows[u].left \in Left /\ chat[u].left \in Left
      /\ \A i \in 1..Len(updates) : updates[i].left \in Left /\ updates[i].users \subseteq User
      /\ \A i \in 1..Len(handled) : handled[i].left \in Left /\ handled[i].users \subseteq User
      /\ Left \subseteq Int
      /\ Len(handled) \in Nat
  BY <1>0, Lefts
<1>3. \A u \in User : rows'[u].left \in Int
  <2>1. \A u \in User : rows'[u].left \in Left
    BY DEF TypeOK
  <2> QED BY <1>2, <2>1
<1>4. \A i \in 1..Len(handled') :
        \/ \E k \in 1..Len(handled) : handled'[i] = handled[k]
        \/ handled'[i] = Head(updates) /\ Head(updates).kind # "message"
  BY <1>0, <1>1, RememberFacts DEF Consume
\* A bound on what is stored and comes first bounds what is stored next.
<1>5. ASSUME NEW u \in User, NEW n \in Left, u \notin presumed => rows[u].left <= n,
             Within(handled, u, n), Dates(updates[1], u) => updates[1].left <= n
      PROVE  (u \notin presumed' => rows'[u].left <= n) /\ Within(handled', u, n)
  <2>1. ASSUME u \notin presumed' PROVE rows'[u].left <= n
    <3>1. rows'[u].left \in Int /\ rows[u].left \in Int /\ n \in Int
      BY <1>2, <1>3
    <3>2. CASE u \notin presumed /\ rows'[u].left <= rows[u].left
      BY <1>5, <3>1, <3>2
    <3>3. CASE Dates(Head(updates), u) /\ rows'[u].left = Head(updates).left
      BY <1>1, <1>5, <3>3
    <3> QED BY <2>1, <3>2, <3>3
  <2>2. Within(handled', u, n)
    BY <1>1, <1>4, <1>5 DEF Within
  <2> QED BY <2>1, <2>2
<1>6. ASSUME NEW u \in User, chat[u].present
      PROVE  /\ u \notin presumed' => rows'[u].left <= chat[u].left
             /\ Within(updates', u, chat[u].left)
             /\ Within(handled', u, chat[u].left)
  <2>1. /\ u \notin presumed => rows[u].left <= chat[u].left
        /\ Within(updates, u, chat[u].left)
        /\ Within(handled, u, chat[u].left)
    BY <1>0, <1>6 DEF InChat
  <2>2. Dates(updates[1], u) => updates[1].left <= chat[u].left
    BY <1>1, <2>1 DEF Within
  <2>3. (u \notin presumed' => rows'[u].left <= chat[u].left) /\ Within(handled', u, chat[u].left)
    BY <1>2, <1>5, <2>1, <2>2
  <2> QED BY <1>1, <2>1, <2>3 DEF Within
<1>7. InChat'
  BY <1>6 DEF InChat, Within, Dates
<1>8. ASSUME NEW i \in 1..Len(updates'), updates'[i].kind = "message",
             NEW u \in updates'[i].users
      PROVE  /\ u \notin presumed' => rows'[u].left <= updates'[i].left
             /\ Within(handled', u, updates'[i].left)
             /\ \A j \in 1..i : Dates(updates'[j], u) => updates'[j].left <= updates'[i].left
  <2>1. /\ i + 1 \in 1..Len(updates) /\ updates'[i] = updates[i + 1]
        /\ 1 \in 1..(i + 1)
        /\ \A j \in 1..i : updates'[j] = updates[j + 1] /\ j + 1 \in 1..(i + 1)
    BY <1>1
  <2>2. /\ u \notin presumed => rows[u].left <= updates[i + 1].left
        /\ Within(handled, u, updates[i + 1].left)
        /\ \A j \in 1..(i + 1) : Dates(updates[j], u) => updates[j].left <= updates[i + 1].left
    BY <1>0, <1>8, <2>1 DEF InQueue
  <2>3. u \in User /\ updates[i + 1].left \in Left
    BY <1>2, <1>8, <2>1
  <2>4. Dates(updates[1], u) => updates[1].left <= updates[i + 1].left
    BY <2>1, <2>2
  <2>5. (u \notin presumed' => rows'[u].left <= updates[i + 1].left) /\ Within(handled', u, updates[i + 1].left)
    BY <1>5, <2>2, <2>3, <2>4
  <2> QED BY <2>1, <2>2, <2>5
<1>9. InQueue'
  BY <1>8 DEF InQueue, Within, Dates
<1>10. NoMessages'
  BY <1>0, <1>4 DEF NoMessages
<1> QED BY <1>7, <1>9, <1>10

\* What Telegram repeats is no message and no later than what waits (Restart).
LEMMA QueueReturns ==
  ASSUME JInv, TypeOK', Restart
  PROVE  InChat' /\ InQueue' /\ NoMessages'
<1>0. TypeOK /\ InChat /\ InQueue /\ NoMessages
  BY DEF JInv
<1>1. PICK n \in 0..Len(handled) :
        updates' = SubSeq(handled, Len(handled) - n + 1, Len(handled)) \o updates
  BY DEF Restart
<1>2. /\ Len(updates') = n + Len(updates) /\ Len(updates) \in Nat /\ n \in Nat
      /\ \A i \in 1..Len(updates') :
           \/ i <= n /\ \E k \in 1..Len(handled) : updates'[i] = handled[k]
           \/ i > n /\ i - n \in 1..Len(updates) /\ updates'[i] = updates[i - n]
  BY <1>0, <1>1, ReplayedQueue
<1>3. chat' = chat /\ rows' = rows /\ handled' = <<>> /\ presumed' = presumed
  BY DEF Restart
<1>4. \A u, m : Within(handled', u, m)
  BY <1>3 DEF Within
<1>5. ASSUME NEW u \in User, chat[u].present
      PROVE  /\ u \notin presumed => rows[u].left <= chat[u].left
             /\ Within(updates', u, chat[u].left)
  <2>1. /\ u \notin presumed => rows[u].left <= chat[u].left
        /\ Within(updates, u, chat[u].left)
        /\ Within(handled, u, chat[u].left)
    BY <1>0, <1>5 DEF InChat
  <2> QED BY <1>2, <2>1 DEF Within
<1>6. InChat'
  BY <1>3, <1>4, <1>5 DEF InChat, Within, Dates
<1>7. ASSUME NEW i \in 1..Len(updates'), updates'[i].kind = "message",
             NEW u \in updates'[i].users
      PROVE  /\ u \notin presumed => rows[u].left <= updates'[i].left
             /\ \A j \in 1..i : Dates(updates'[j], u) => updates'[j].left <= updates'[i].left
  <2>1. i > n /\ i - n \in 1..Len(updates) /\ updates'[i] = updates[i - n]
    BY <1>0, <1>2, <1>7 DEF NoMessages
  <2>2. /\ u \notin presumed => rows[u].left <= updates[i - n].left
        /\ Within(handled, u, updates[i - n].left)
        /\ \A j \in 1..(i - n) : Dates(updates[j], u) => updates[j].left <= updates[i - n].left
    BY <1>0, <1>7, <2>1 DEF InQueue
  <2>3. ASSUME NEW j \in 1..i, Dates(updates'[j], u)
        PROVE  updates'[j].left <= updates[i - n].left
    <3>1. j \in 1..Len(updates')
      BY <1>2
    <3>2. CASE \E k \in 1..Len(handled) : updates'[j] = handled[k]
      BY <2>2, <2>3, <3>2 DEF Within
    <3>3. CASE j > n /\ j - n \in 1..Len(updates) /\ updates'[j] = updates[j - n]
      <4>1. j - n \in 1..(i - n)
        BY <1>2, <2>1, <3>3
      <4> QED BY <2>2, <2>3, <3>3, <4>1
    <3> QED BY <1>2, <3>1, <3>2, <3>3
  <2> QED BY <2>1, <2>2, <2>3
<1>8. InQueue'
  BY <1>3, <1>4, <1>7 DEF InQueue, Within, Dates
<1>9. NoMessages'
  BY <1>3 DEF NoMessages
<1> QED BY <1>6, <1>8, <1>9

\* Time shortens every window alike (Tick).
LEMMA QueueAges ==
  ASSUME JInv, TypeOK', Tick
  PROVE  InChat' /\ InQueue' /\ NoMessages'
<1>0. TypeOK /\ InChat /\ InQueue /\ NoMessages
  BY DEF JInv
<1>1. /\ \A u \in User : rows[u].left \in Left /\ chat[u].left \in Left
      /\ \A i \in 1..Len(updates) : /\ updates[i] \in Update /\ updates[i].left \in Left
                                    /\ updates[i].users \subseteq User
      /\ \A i \in 1..Len(handled) : handled[i] \in Update /\ handled[i].left \in Left
      /\ Len(updates) \in Nat /\ Len(handled) \in Nat
  BY <1>0, Lefts
<1>2. /\ DOMAIN updates = 1..Len(updates) /\ DOMAIN handled = 1..Len(handled)
  BY <1>0, LenProperties DEF TypeOK
<1>3. /\ Len(updates') = Len(updates)
      /\ \A i \in 1..Len(updates) : updates'[i] = Age(updates[i])
  BY <1>1, <1>2 DEF Tick
<1>4. /\ Len(handled') = Len(handled)
      /\ \A i \in 1..Len(handled) : handled'[i] = Age(handled[i])
  BY <1>1, <1>2 DEF Tick
<1>5. \A u \in User : /\ chat'[u].present = chat[u].present
                      /\ chat'[u].left = CountDown(chat[u].left)
                      /\ rows'[u].left = CountDown(rows[u].left)
                      /\ presumed' = presumed
  <2>1. \A u \in User : rows[u] \in Rows
    BY <1>0 DEF TypeOK, Rows
  <2>2. \A u \in User : /\ Age(chat[u]).present = chat[u].present
                        /\ Age(chat[u]).left = CountDown(chat[u].left)
    BY <1>0 DEF TypeOK, Age
  <2>3. \A u \in User : Age(rows[u]).left = CountDown(rows[u].left)
    BY <2>1, AgeRow
  <2> QED BY <2>2, <2>3 DEF Tick
<1>6. \A i \in 1..Len(updates) : /\ updates'[i].left = CountDown(updates[i].left)
                                 /\ updates'[i].kind = updates[i].kind
                                 /\ updates'[i].users = updates[i].users
                                 /\ updates'[i].status = updates[i].status
                                 /\ updates'[i].joins = updates[i].joins
  BY <1>1, <1>3, AgeType
<1>7. \A i \in 1..Len(handled) : /\ handled'[i].left = CountDown(handled[i].left)
                                 /\ handled'[i].kind = handled[i].kind
                                 /\ handled'[i].users = handled[i].users
                                 /\ handled'[i].status = handled[i].status
                                 /\ handled'[i].joins = handled[i].joins
  BY <1>1, <1>4, AgeType
\* A bound ages with what it bounds.
<1>8. ASSUME NEW u \in User, NEW n \in Left
      PROVE  /\ rows[u].left <= n => rows'[u].left <= CountDown(n)
             /\ Within(updates, u, n) => Within(updates', u, CountDown(n))
             /\ Within(handled, u, n) => Within(handled', u, CountDown(n))
  <2>1. rows[u].left <= n => rows'[u].left <= CountDown(n)
    BY <1>1, <1>5, CountDownFacts
  <2>2. Within(updates, u, n) => Within(updates', u, CountDown(n))
    BY <1>1, <1>3, <1>6, CountDownFacts DEF Within, Dates
  <2>3. Within(handled, u, n) => Within(handled', u, CountDown(n))
    BY <1>1, <1>4, <1>7, CountDownFacts DEF Within, Dates
  <2> QED BY <2>1, <2>2, <2>3
<1>9. InChat'
  <2>1. ASSUME NEW u \in User, chat'[u].present
        PROVE  /\ u \notin presumed' => rows'[u].left <= chat'[u].left
               /\ Within(updates', u, chat'[u].left)
               /\ Within(handled', u, chat'[u].left)
    BY <1>0, <1>1, <1>5, <1>8, <2>1 DEF InChat
  <2> QED BY <2>1 DEF InChat, Within, Dates
<1>10. InQueue'
  <2>1. ASSUME NEW i \in 1..Len(updates'), updates'[i].kind = "message",
               NEW u \in updates'[i].users
        PROVE  /\ u \notin presumed' => rows'[u].left <= updates'[i].left
               /\ Within(handled', u, updates'[i].left)
               /\ \A j \in 1..i : Dates(updates'[j], u) => updates'[j].left <= updates'[i].left
    <3>1. /\ i \in 1..Len(updates) /\ u \in User /\ updates[i].left \in Left
          /\ u \notin presumed => rows[u].left <= updates[i].left
          /\ Within(handled, u, updates[i].left)
          /\ \A j \in 1..i : Dates(updates[j], u) => updates[j].left <= updates[i].left
      BY <1>0, <1>1, <1>3, <1>6, <2>1 DEF InQueue
    <3>2. updates'[i].left = CountDown(updates[i].left)
      BY <1>6, <3>1
    <3>3. /\ u \notin presumed' => rows'[u].left <= updates'[i].left
          /\ Within(handled', u, updates'[i].left)
      BY <1>5, <1>8, <3>1, <3>2
    <3>4. ASSUME NEW j \in 1..i, Dates(updates'[j], u)
          PROVE  updates'[j].left <= updates'[i].left
      <4>1. j \in 1..Len(updates)
        BY <1>1, <3>1
      <4>2. updates[j].left <= updates[i].left
        BY <1>6, <3>1, <3>4, <4>1 DEF Dates
      <4> QED BY <1>1, <1>6, <3>1, <3>2, <4>1, <4>2, CountDownFacts
    <3> QED BY <3>3, <3>4
  <2> QED BY <2>1 DEF InQueue, Within, Dates
<1>11. NoMessages'
  BY <1>0, <1>4, <1>7 DEF NoMessages
<1> QED BY <1>9, <1>10, <1>11

-----------------------------------------------------------------------------
(* The invariant, and the theorems.                                        *)

\* Nothing is known about anybody at the start.
LEMMA JInvInit ==
  ASSUME Init
  PROVE  JInv
<1> USE MembershipAssumption
<1>1. /\ 0 \in Left /\ <<>> \in Seq(Update) /\ Len(<<>>) = 0
      /\ 0 \in 0..MaxLost /\ 0 \in 0..MaxCrashes
  BY EmptySeq DEF Left
<1>2. TypeOK
  BY <1>1 DEF Init, TypeOK, NoRow, NoVerdict, Present, Gone
<1>3. NoMessages /\ VeteranFree
  <2>1. NoMessages
    BY <1>1 DEF Init, NoMessages
  <2>2. VeteranFree
    BY DEF Init, VeteranFree, NoVerdict
  <2> QED BY <2>1, <2>2
<1>4. InChat /\ InQueue
  BY <1>1 DEF Init, InChat, InQueue, Within, NoRow
<1> QED BY <1>2, <1>3, <1>4 DEF JInv

\* A step that judges no message breaks no promise about one.
LEMMA NoJudgement ==
  ASSUME verdict' = NoVerdict
  PROVE  VeteranFree'
BY DEF VeteranFree, NoVerdict

\* Every step keeps the dates of joins in order.
LEMMA JInvStep ==
  ASSUME Finite, JInv, [Next]_vars
  PROVE  JInv'
<1> USE MembershipAssumption
<1>0. TypeOK /\ InChat /\ InQueue /\ NoMessages /\ VeteranFree
  BY DEF JInv
<1>t. TypeOK'
  BY <1>0, TypesKept
<1>h. /\ \A u \in User : chat[u].status \in Present \cup Gone /\ chat[u].left \in Left
      /\ chat = [u \in User |-> chat[u]]
      /\ Left \subseteq Int /\ \A n \in Left : n <= Window + Skew
      /\ Window <= Window + Skew
  BY <1>0, Lefts DEF TypeOK
<1>1. ASSUME NEW us \in SUBSET User, Join(us) PROVE JInv'
  <2>1. PICK new : JoinQueues(new, us) /\ updates' = updates \o new
    BY <1>0, <1>1, JoinShape
  <2>2. /\ handled' = handled /\ rows' = rows /\ presumed' = presumed /\ verdict' = NoVerdict
        /\ \A u \in User : /\ u \in us => chat'[u].left = Window + Skew
                           /\ u \notin us => chat'[u] = chat[u]
    BY <1>0, <1>1 DEF Join
  <2>3. \A u \in User : chat'[u].present =>
          \/ chat[u].present /\ chat'[u].left = chat[u].left
          \/ chat'[u].left = Window + Skew
    BY <2>2
  <2>4. ASSUME NEW k \in 1..Len(new), NEW u \in User, Dates(new[k], u)
        PROVE  new[k].left <= chat'[u].left
    <3>1. u \in us /\ new[k].left = Window + Skew
      BY <2>1, <2>4 DEF JoinQueues, Dates
    <3> QED BY <1>h, <2>2, <3>1
  <2>5. InChat' /\ InQueue' /\ NoMessages'
    BY <1>t, <2>1, <2>2, <2>3, <2>4, QueueGrows DEF JoinQueues
  <2> QED BY <1>t, <2>2, <2>5, NoJudgement DEF JInv
\* A report about one member that is no join.
<1>r. ASSUME NEW u \in User, NEW status \in Present \cup Gone,
             updates' = updates \o <<ChatMember(u, status, Window + Skew)>>,
             handled' = handled, rows' = rows, presumed' = presumed, verdict' = NoVerdict,
             \A v \in User : chat'[v].present => chat[v].present /\ chat'[v].left = chat[v].left
      PROVE  JInv'
  <2> DEFINE new == <<ChatMember(u, status, Window + Skew)>>
  <2>1. /\ new \in Seq(Update) /\ Len(new) = 1
        /\ new[1].kind = "chat_member" /\ ~new[1].joins
    <3>1. Window + Skew \in Left
      BY DEF Left
    <3> QED BY <3>1 DEF ChatMember, Update
  <2> HIDE DEF new
  <2>2. /\ \A k \in 1..Len(new), v \in User : ~Dates(new[k], v)
        /\ \A k \in 1..Len(new) : new[k].kind # "message"
    BY <2>1 DEF Dates
  <2>3. InChat' /\ InQueue' /\ NoMessages'
    BY <1>r, <1>t, <2>1, <2>2, QueueGrows DEF new
  <2> QED BY <1>r, <1>t, <2>3, NoJudgement DEF JInv
<1>2. ASSUME NEW u \in User, Leave(u) PROVE JInv'
  <2>1. PICK status \in Present \cup Gone :
          /\ chat' = [chat EXCEPT ![u] = [present |-> FALSE, left |-> 0, status |-> status]]
          /\ updates' = updates \o <<ChatMember(u, status, Window + Skew)>>
    BY <1>2 DEF Leave, Enqueue, Present, Gone
  <2>2. \A v \in User : chat'[v].present => chat[v].present /\ chat'[v].left = chat[v].left
    BY <1>h, <2>1
  <2> QED BY <1>2, <1>r, <2>1, <2>2 DEF Leave
<1>3. ASSUME NEW u \in User, ChangeStatus(u) PROVE JInv'
  <2>1. PICK status \in Present \cup Gone :
          /\ chat' = [chat EXCEPT ![u].status = status]
          /\ updates' = updates \o <<ChatMember(u, status, Window + Skew)>>
    BY <1>3 DEF ChangeStatus, Enqueue, Present, Gone
  <2>2. \A v \in User : chat'[v].present => chat[v].present /\ chat'[v].left = chat[v].left
    BY <1>0, <2>1 DEF TypeOK
  <2> QED BY <1>3, <1>r, <2>1, <2>2 DEF ChangeStatus
<1>4. ASSUME NEW u \in User, Post(u) PROVE JInv'
  <2> DEFINE new == <<Message(u, chat[u].left)>>
  <2>1. /\ chat[u].present /\ chat' = chat /\ updates' = updates \o new
        /\ handled' = handled /\ rows' = rows /\ presumed' = presumed /\ verdict' = NoVerdict
    BY <1>4 DEF Post, Enqueue
  <2>2. /\ new \in Seq(Update) /\ Len(new) = 1
        /\ new[1].users = {u} /\ new[1].left = chat[u].left
    BY <1>h DEF Message, Update, Present
  <2> HIDE DEF new
  <2>3. InChat' /\ InQueue' /\ NoMessages'
    <3>1. \A v \in User : chat'[v].present => chat[v].present /\ chat'[v].left = chat[v].left
      BY <2>1
    <3>2. ASSUME NEW k \in 1..Len(new), NEW v \in User, Dates(new[k], v)
          PROVE  new[k].left <= chat'[v].left
      <4>1. k = 1 /\ v = u
        BY <2>2, <3>2 DEF Dates
      <4>2. chat[u].left \in Int
        BY <1>h
      <4> QED BY <2>1, <2>2, <4>1, <4>2
    <3>3. \A k \in 1..Len(new) :
            Len(new) = 1 /\ \A v \in new[k].users : chat'[v].present /\ new[k].left = chat'[v].left
      BY <2>1, <2>2
    <3> QED BY <1>t, <2>1, <2>2, <3>1, <3>2, <3>3, QueueGrows
  <2> QED BY <1>t, <2>1, <2>3, NoJudgement DEF JInv
\* A membership update, recorded for all of its users or for some.
<1>m. ASSUME updates # <<>>, Consume, chat' = chat, verdict' = NoVerdict,
             NEW us \in SUBSET Head(updates).users, Record(us)
      PROVE  JInv'
  <2>1. \A u \in User : u \notin presumed' =>
          \/ u \notin presumed /\ rows'[u].left = rows[u].left
          \/ Dates(Head(updates), u) /\ rows'[u].left = Head(updates).left
    BY <1>0, <1>m, RecordedRows
  <2>2. \A u \in User : rows[u].left \in Int
    BY <1>0, Lefts
  <2>3. InChat' /\ InQueue' /\ NoMessages'
    BY <1>m, <1>t, <2>1, <2>2, QueueShrinks
  <2> QED BY <1>t, <1>m, <2>3, NoJudgement DEF JInv
<1>5. ASSUME HandleMembership PROVE JInv'
  BY <1>5, <1>m DEF HandleMembership, Next1
<1>6. ASSUME HandleMessage PROVE JInv'
  <2> DEFINE w == CHOOSE x \in Head(updates).users : TRUE
  <2>1. /\ updates # <<>> /\ Consume /\ chat' = chat
        /\ Head(updates).kind = "message"
        /\ rows' = [rows EXCEPT ![w] = Grandfather(rows[w])]
        /\ presumed' = presumed
        /\ verdict' = [newcomer |-> Head(updates).left > 0, ahead |-> Head(updates).left > Window,
                       presumed |-> w \in presumed, deleted |-> NewcomerPlan(rows'[w].left)]
    BY <1>6 DEF HandleMessage, Next1
  <2>2. /\ Head(updates) = updates[1] /\ 1 \in 1..Len(updates) /\ Head(updates) \in Update
    BY <1>0, <2>1, ShrunkQueue DEF Consume
  <2>3. w \in Head(updates).users /\ w \in User
    BY <2>2 DEF Update
  <2> HIDE DEF w
  <2>4. rows \in [User -> Rows]
    BY <1>0 DEF TypeOK, Rows
  <2>5. \A u \in User : rows[u].left \in Int
    BY <1>0, Lefts
  <2>6. Grandfather(rows[w]).left <= rows[w].left
    BY <2>3, <2>4, GrandfatherType
  <2>7. rows'[w].left <= rows[w].left /\ \A u \in User \ {w} : rows'[u] = rows[u]
    BY <2>1, <2>3, <2>4, <2>6
  <2>8. \A u \in User : rows'[u].left <= rows[u].left
    BY <2>5, <2>7
  <2>9. InChat' /\ InQueue' /\ NoMessages'
    BY <1>t, <2>1, <2>8, QueueShrinks
  <2>10. VeteranFree'
    <3>1. w \notin presumed => rows[w].left <= Head(updates).left
      BY <1>0, <2>1, <2>2, <2>3 DEF InQueue
    <3>2. rows'[w].left \in Int /\ rows[w].left \in Int /\ Head(updates).left \in Int
      <4>1. rows'[w].left \in Left /\ rows[w].left \in Left /\ Head(updates).left \in Left
        BY <1>0, <1>t, <2>2, <2>3 DEF TypeOK, Update
      <4> QED BY <1>h, <4>1
    <3>3. NewcomerPlan(rows'[w].left) => Head(updates).left > 0 \/ w \in presumed
      BY <2>7, <3>1, <3>2 DEF NewcomerPlan
    <3> QED BY <2>1, <3>3 DEF VeteranFree
  <2> QED BY <1>t, <2>9, <2>10 DEF JInv
<1>7. ASSUME HandleFails PROVE JInv'
  BY <1>7, <1>m DEF HandleFails, Next1
<1>8. ASSUME Restart PROVE JInv'
  <2>1. InChat' /\ InQueue' /\ NoMessages'
    BY <1>8, <1>t, QueueReturns
  <2> QED BY <1>8, <1>t, <2>1, NoJudgement DEF JInv, Restart
<1>9. ASSUME Tick PROVE JInv'
  <2>1. InChat' /\ InQueue' /\ NoMessages'
    BY <1>9, <1>t, QueueAges
  <2> QED BY <1>9, <1>t, <2>1, NoJudgement DEF JInv, Tick
<1>10. CASE UNCHANGED vars
  BY <1>0, <1>t, <1>10 DEF vars, JInv, InChat, InQueue, NoMessages, VeteranFree,
     Within, Dates
<1> QED BY <1>1, <1>2, <1>3, <1>4, <1>5, <1>6, <1>7, <1>8, <1>9, <1>10 DEF Next

\* Every reachable state is well typed (RecordMembership, Grandfather, the queue
\* of updates).
THEOREM MembershipTypeCorrect ==
  ASSUME Finite
  PROVE  Spec => []TypeOK
<1>1. Init => TypeOK
  BY JInvInit DEF JInv
<1>2. TypeOK /\ [Next]_vars => TypeOK'
  BY TypesKept
<1> QED BY <1>1, <1>2, PTL DEF Spec

\* For any users, windows and skews, whichever writes fail, however often the
\* bot restarts, whatever is delivered again and whose status changes: nobody
\* outside the window is treated as a newcomer (NewcomerPlan), unless the bot
\* took a change of their status for a join (handleMembership).
THEOREM NobodyElseIsCaught ==
  ASSUME Finite
  PROVE  Spec => []VeteranFree
<1>1. Init => JInv
  BY JInvInit
<1>2. JInv /\ [Next]_vars => JInv'
  BY JInvStep
<1>3. JInv => VeteranFree
  BY DEF JInv
<1> QED BY <1>1, <1>2, <1>3, PTL DEF Spec
-----------------------------------------------------------------------------
(* What the queue makes of a row.                                          *)

\* What a row says of its user: nothing yet, away, or here with so much left of
\* the window.
Said(state, left) == [state |-> state, left |-> left]
Standing == [state : {"unknown", "away", "here"}, left : Nat]
StandingOf(row) ==
  IF row.status = "none" THEN Said("unknown", 0)
  ELSE IF row.status \in Gone THEN Said("away", 0)
  ELSE Said("here", row.left)

Sender(e) == CHOOSE x \in e.users : TRUE

\* What is known of u after an update.
After(v, e, u) ==
  IF e.kind = "message"
  THEN IF u = Sender(e) /\ v.state = "unknown" THEN Said("here", 0) ELSE v
  ELSE IF u \notin e.users THEN v
  ELSE IF e.status \in Gone THEN Said("away", 0)
  ELSE IF v.state = "here" THEN v ELSE Said("here", e.left)

\* The updates in s, handled one by one, lead u from v into G, and each message
\* of u that was posted inside the window is handled with what was left of it.
Told(s, u, w) ==
  /\ w \in [1..Len(s) + 1 -> Standing]
  /\ \A i \in 1..Len(s) :
       /\ w[i + 1] = After(w[i], s[i], u)
       /\ s[i].kind = "message" /\ u = Sender(s[i]) /\ s[i].left > 0 => w[i].left = s[i].left
Fate(s, u, v, G) == \E w : Told(s, u, w) /\ w[1] = v /\ w[Len(s) + 1] \in G

\* Where the chat is known exactly: inside a window, and also outside of it
\* when nobody is older than the bot or no status changes.
Binding(n) == n > 0 \/ Veterans = {} \/ Statuses = {}

\* The standings that agree with what the chat says of a user.
Settled(c) == {v \in Standing :
  IF c.present
  THEN /\ v.state = "here" \/ (v.state = "unknown" /\ v.left = 0 /\ Veterans # {})
       /\ Binding(c.left) => v.left = c.left
  ELSE c.left = 0 /\ v.state # "here"}

\* Where updates that were handled before may lead from v, when the row says v0:
\* back to v0 from there, and to nothing that is forgotten.
Returning(v, v0) == {end \in Standing :
  /\ v = v0 => end = v0
  /\ end = v \/ end.state = v0.state
  /\ end.state = "unknown" => end = v}

Suffix(s, k) == SubSeq(s, k, Len(s))
Replays(s, u, v0) == \A k \in 1..Len(s) + 1, v \in Standing :
  Fate(Suffix(s, k), u, v, Returning(v, v0))

\* The queue leads every row to what the chat says, and what may come back to
\* it changes no row.
Foretold == \A u \in User : Fate(updates, u, StandingOf(rows[u]), Settled(chat[u]))
Repeats == \A u \in User : Replays(handled, u, StandingOf(rows[u]))

\* The statuses there are, and rows that hold nothing hold no date.
Listed == \A u \in User : IF chat[u].present THEN chat[u].status \in Statuses \cup {"member"}
                          ELSE chat[u].status \in Gone
Blank == \A u \in User : rows[u].status = "none" => rows[u] = NoRow

RInv == TypeOK /\ NoMessages /\ Listed /\ Blank /\ Foretold /\ Repeats

\* What an update leaves known is a standing, and nobody is forgotten.
LEMMA AfterFacts ==
  ASSUME NEW v \in Standing, NEW e \in Update, NEW u
  PROVE  /\ After(v, e, u) \in Standing
         /\ After(v, e, u).state = "unknown" => After(v, e, u) = v
         /\ e.kind # "message" /\ u \notin e.users => After(v, e, u) = v
         /\ e.kind # "message" /\ u \in e.users /\ e.status \in Gone =>
              After(v, e, u) = Said("away", 0)
         /\ e.kind # "message" /\ u \in e.users /\ e.status \notin Gone =>
              After(v, e, u) = IF v.state = "here" THEN v ELSE Said("here", e.left)
         /\ e.kind = "message" =>
              After(v, e, u) = IF u = Sender(e) /\ v.state = "unknown" THEN Said("here", 0) ELSE v
<1>1. e.left \in Nat
  BY MembershipAssumption DEF Update, Left
<1>2. Said("here", 0) \in Standing /\ Said("away", 0) \in Standing /\ Said("here", e.left) \in Standing
  BY <1>1 DEF Said, Standing
<1>3. Said("here", 0).state = "here" /\ Said("away", 0).state = "away" /\ Said("here", e.left).state = "here"
  BY DEF Said
<1> QED BY <1>2, <1>3 DEF After

\* A row says what is known after the update that wrote it (RecordMembership).
LEMMA RecordedStanding ==
  ASSUME NEW row \in Rows, row.status = "none" => row = NoRow,
         NEW e \in Update, e.kind # "message", NEW u, u \in e.users
  PROVE  /\ StandingOf(RecordMembership(row, e.status, e.left)) = After(StandingOf(row), e, u)
         /\ RecordMembership(row, e.status, e.left).status # "none"
<1> DEFINE new == RecordMembership(row, e.status, e.left)
<1>1. e.status \in Present \cup Gone /\ row.status \in Present \cup Gone \cup {"none"}
  BY DEF Update, Rows
<1>2. CASE e.status \in Present
  <2>1. e.status \in Active /\ e.status \notin Gone /\ e.status # "none"
    BY <1>2 DEF Active, Present, Gone
  <2>2. new.status = e.status
        /\ new.left = IF row = NoRow \/ row.status \in Gone THEN e.left ELSE row.left
    BY <2>1 DEF RecordMembership
  <2>3. After(StandingOf(row), e, u) = IF StandingOf(row).state = "here" THEN StandingOf(row)
                                       ELSE Said("here", e.left)
    BY <2>1 DEF After
  <2>4. StandingOf(new) = Said("here", new.left)
    BY <2>1, <2>2 DEF StandingOf
  <2>5. CASE row = NoRow
    <3>1. StandingOf(row).state = "unknown"
      BY <2>5 DEF StandingOf, NoRow, Said
    <3> QED BY <2>1, <2>2, <2>3, <2>4, <2>5, <3>1
  <2>6. CASE row.status \in Gone
    <3>1. StandingOf(row).state = "away"
      BY <2>6 DEF StandingOf, Said, Gone
    <3> QED BY <2>1, <2>2, <2>3, <2>4, <2>6, <3>1
  <2>7. CASE row # NoRow /\ row.status \notin Gone
    <3>1. StandingOf(row) = Said("here", row.left)
      BY <2>7 DEF StandingOf
    <3> QED BY <2>1, <2>2, <2>3, <2>4, <2>7, <3>1 DEF Said
  <2> QED BY <2>5, <2>6, <2>7
<1>3. CASE e.status \in Gone
  <2>1. e.status \notin Active /\ e.status # "none"
    BY <1>3 DEF Active, Present, Gone
  <2>2. new.status = e.status
    BY <2>1 DEF RecordMembership, NoRow, Rows
  <2> QED BY <1>3, <2>1, <2>2 DEF After, StandingOf
<1> QED BY <1>1, <1>2, <1>3

\* A sender nobody knew is a member whose window is over (Grandfather).
LEMMA GrandfatherStanding ==
  ASSUME NEW row \in Rows, row.status = "none" => row = NoRow
  PROVE  /\ StandingOf(Grandfather(row)) =
              IF StandingOf(row).state = "unknown" THEN Said("here", 0) ELSE StandingOf(row)
         /\ Grandfather(row).status # "none"
<1>1. CASE row = NoRow
  <2>1. Grandfather(row).status = "member" /\ Grandfather(row).left = 0
    BY <1>1 DEF Grandfather
  <2>2. StandingOf(row).state = "unknown"
    BY <1>1 DEF StandingOf, NoRow, Said
  <2> QED BY <2>1, <2>2 DEF StandingOf, Gone
<1>2. CASE row # NoRow
  <2>1. Grandfather(row) = row /\ row.status # "none"
    BY <1>2 DEF Grandfather
  <2>2. StandingOf(row).state # "unknown"
    BY <2>1 DEF StandingOf, Said
  <2> QED BY <2>1, <2>2
<1> QED BY <1>1, <1>2

\* A row is a standing.
LEMMA StandingType ==
  ASSUME NEW row \in Rows
  PROVE  StandingOf(row) \in Standing
BY MembershipAssumption DEF StandingOf, Standing, Said, Rows, Left

\* No update leads nowhere.
LEMMA FateEmpty ==
  ASSUME NEW s \in Seq(Update), Len(s) = 0, NEW u, NEW v \in Standing, NEW G, v \in G
  PROVE  Fate(s, u, v, G)
<1> DEFINE w == [i \in 1..1 |-> v]
<1>1. Told(s, u, w) /\ w[1] = v /\ w[Len(s) + 1] \in G
  BY DEF Told
<1> QED BY <1>1 DEF Fate

\* One update leads to what is known after it.
LEMMA FateOne ==
  ASSUME NEW s \in Seq(Update), Len(s) = 1, NEW u, NEW v \in Standing,
         NEW G, After(v, s[1], u) \in G,
         s[1].kind = "message" /\ u = Sender(s[1]) /\ s[1].left > 0 => v.left = s[1].left
  PROVE  Fate(s, u, v, G)
<1> DEFINE w == [i \in 1..2 |-> IF i = 1 THEN v ELSE After(v, s[1], u)]
<1>1. s[1] \in Update
  BY ElementOfSeq
<1>2. After(v, s[1], u) \in Standing
  BY <1>1, AfterFacts
<1>3. w \in [1..2 -> Standing] /\ w[1] = v /\ w[2] = After(v, s[1], u)
  BY <1>2
<1> HIDE DEF w
<1>4. Told(s, u, w)
  BY <1>3 DEF Told
<1> QED BY <1>3, <1>4 DEF Fate

\* What leads from v into G and from all of G into H leads from v into H.
LEMMA FateConcat ==
  ASSUME NEW s \in Seq(Update), NEW t \in Seq(Update), NEW u, NEW v,
         NEW G, NEW H, Fate(s, u, v, G), \A g \in G : Fate(t, u, g, H)
  PROVE  Fate(s \o t, u, v, H)
<1>1. PICK w : Told(s, u, w) /\ w[1] = v /\ w[Len(s) + 1] \in G
  BY DEF Fate
<1> DEFINE m == Len(s)
           n == Len(t)
           g == w[m + 1]
<1>2. PICK x : Told(t, u, x) /\ x[1] = g /\ x[n + 1] \in H
  BY <1>1 DEF Fate
<1>3. m \in Nat /\ n \in Nat
  BY LenProperties
<1>4. /\ s \o t \in Seq(Update) /\ Len(s \o t) = m + n
      /\ \A i \in 1..m + n : (s \o t)[i] = IF i <= m THEN s[i] ELSE t[i - m]
  BY <1>3, ConcatProperties
<1>5. /\ w \in [1..m + 1 -> Standing] /\ x \in [1..n + 1 -> Standing]
      /\ \A i \in 1..m :
           /\ w[i + 1] = After(w[i], s[i], u)
           /\ s[i].kind = "message" /\ u = Sender(s[i]) /\ s[i].left > 0 => w[i].left = s[i].left
      /\ \A i \in 1..n :
           /\ x[i + 1] = After(x[i], t[i], u)
           /\ t[i].kind = "message" /\ u = Sender(t[i]) /\ t[i].left > 0 => x[i].left = t[i].left
  BY <1>1, <1>2 DEF Told
<1> DEFINE st == s \o t
<1> HIDE DEF m, n, g, st
<1> DEFINE y == [i \in 1..m + n + 1 |-> IF i <= m THEN w[i] ELSE x[i - m]]
<1>6. x[1] = w[m + 1]
  BY <1>2 DEF g
<1>7. y \in [1..m + n + 1 -> Standing]
  <2>1. ASSUME NEW i \in 1..m + n + 1
        PROVE  (IF i <= m THEN w[i] ELSE x[i - m]) \in Standing
    <3>1. CASE i <= m
      <4>1. i \in 1..m + 1
        BY <1>3, <3>1
      <4> QED BY <1>5, <3>1, <4>1
    <3>2. CASE ~(i <= m)
      <4>1. i - m \in 1..n + 1
        BY <1>3, <3>2
      <4> QED BY <1>5, <3>2, <4>1
    <3> QED BY <3>1, <3>2
  <2> QED BY <2>1
<1>8. ASSUME NEW i \in 1..m + n
      PROVE  /\ y[i + 1] = After(y[i], st[i], u)
             /\ st[i].kind = "message" /\ u = Sender(st[i]) /\ st[i].left > 0 => y[i].left = st[i].left
  <2>1. CASE i < m
    <3>1. i \in 1..m /\ i + 1 <= m /\ i <= m
      BY <1>3, <2>1
    <3>2. y[i] = w[i] /\ y[i + 1] = w[i + 1] /\ st[i] = s[i]
      BY <1>3, <1>4, <3>1 DEF st, m
    <3> QED BY <1>5, <3>1, <3>2
  <2>2. CASE i = m
    <3>1. i \in 1..m /\ ~(i + 1 <= m) /\ (i + 1) - m = 1 /\ i <= m
      BY <1>3, <2>2
    <3>2. y[i] = w[i] /\ y[i + 1] = x[1] /\ st[i] = s[i]
      BY <1>3, <1>4, <3>1 DEF st
    <3> QED BY <1>5, <1>6, <2>2, <3>1, <3>2
  <2>3. CASE i > m
    <3>1. i - m \in 1..n /\ ~(i <= m) /\ ~(i + 1 <= m) /\ (i + 1) - m = (i - m) + 1
      BY <1>3, <2>3
    <3>2. y[i] = x[i - m] /\ y[i + 1] = x[(i - m) + 1] /\ st[i] = t[i - m]
      BY <1>3, <1>4, <3>1 DEF st
    <3> QED BY <1>5, <3>1, <3>2
  <2> QED BY <1>3, <2>1, <2>2, <2>3
<1>9. y[1] = v
  <2>1. CASE m = 0
    <3>1. y[1] = x[1]
      BY <1>3, <2>1
    <3> QED BY <1>1, <1>6, <2>1, <3>1
  <2>2. CASE m # 0
    BY <1>1, <1>3, <2>2
  <2> QED BY <2>1, <2>2
<1>10. y[m + n + 1] \in H
  <2>1. (m + n + 1) - m = n + 1 /\ ~(m + n + 1 <= m) /\ m + n + 1 \in 1..m + n + 1
    BY <1>3
  <2>2. y[m + n + 1] = x[n + 1]
    BY <2>1
  <2> QED BY <1>2, <2>2 DEF n
<1> HIDE DEF y
<1>11. Told(st, u, y) /\ y[1] = v /\ y[Len(st) + 1] \in H
  <2>1. Len(st) = m + n
    BY <1>4 DEF st
  <2> QED BY <1>7, <1>8, <1>9, <1>10, <2>1 DEF Told
<1> QED BY <1>11 DEF Fate, st

\* Once the oldest update is handled, the others lead on from what is known then.
LEMMA FateTail ==
  ASSUME NEW s \in Seq(Update), s # <<>>, NEW u, NEW v, NEW G, Fate(s, u, v, G)
  PROVE  /\ Fate(Tail(s), u, After(v, s[1], u), G)
         /\ s[1].kind = "message" /\ u = Sender(s[1]) /\ s[1].left > 0 => v.left = s[1].left
<1>1. PICK w : Told(s, u, w) /\ w[1] = v /\ w[Len(s) + 1] \in G
  BY DEF Fate
<1>2. /\ Len(s) \in Nat \ {0} /\ Tail(s) \in Seq(Update) /\ Len(Tail(s)) = Len(s) - 1
      /\ \A i \in 1..Len(Tail(s)) : Tail(s)[i] = s[i + 1]
  BY EmptySeq, HeadTailProperties
<1> DEFINE m == Len(s)
           t == Tail(s)
<1>3. /\ w \in [1..m + 1 -> Standing]
      /\ \A i \in 1..m :
           /\ w[i + 1] = After(w[i], s[i], u)
           /\ s[i].kind = "message" /\ u = Sender(s[i]) /\ s[i].left > 0 => w[i].left = s[i].left
  BY <1>1 DEF Told
<1> HIDE DEF m, t
<1> DEFINE x == [i \in 1..m |-> w[i + 1]]
<1>4. m \in Nat /\ m > 0 /\ Len(t) = m - 1 /\ 1 \in 1..m
  BY <1>2 DEF m, t
<1>5. x \in [1..m -> Standing]
  BY <1>3, <1>4
<1>6. \A i \in 1..m - 1 : i + 1 \in 1..m /\ i \in 1..m /\ x[i] = w[i + 1] /\ x[i + 1] = w[(i + 1) + 1] /\ t[i] = s[i + 1]
  BY <1>2, <1>4 DEF t
<1>7. x[1] = w[2] /\ x[m] = w[m + 1]
  BY <1>4
<1> HIDE DEF x
<1>8. \A i \in 1..Len(t) :
        /\ x[i + 1] = After(x[i], t[i], u)
        /\ t[i].kind = "message" /\ u = Sender(t[i]) /\ t[i].left > 0 => x[i].left = t[i].left
  BY <1>3, <1>4, <1>6
<1>9. Len(t) + 1 = m
  BY <1>4
<1>10. Told(t, u, x)
  BY <1>5, <1>8, <1>9 DEF Told
<1>11. x[1] = After(v, s[1], u) /\ x[Len(t) + 1] \in G
  <2>1. w[1 + 1] = After(w[1], s[1], u)
    BY <1>3, <1>4
  <2> QED BY <1>1, <1>7, <1>9, <2>1 DEF m
<1>12. Fate(t, u, After(v, s[1], u), G)
  BY <1>10, <1>11 DEF Fate
<1> QED BY <1>1, <1>3, <1>4, <1>12 DEF t

\* Where no update in s is about u, what is known of u stays.
LEMMA FateOfOthers ==
  ASSUME NEW s \in Seq(Update), NEW u, NEW v \in Standing,
         \A i \in 1..Len(s) : s[i].kind # "message" /\ u \notin s[i].users
  PROVE  Fate(s, u, v, {v})
<1> DEFINE w == [i \in 1..Len(s) + 1 |-> v]
<1>1. Len(s) \in Nat
  BY LenProperties
<1>2. w \in [1..Len(s) + 1 -> Standing] /\ \A i \in 1..Len(s) + 1 : w[i] = v
  BY <1>1
<1>3. \A i \in 1..Len(s) : After(v, s[i], u) = v
  BY DEF After
<1>4. /\ \A i \in 1..Len(s) : i \in 1..Len(s) + 1 /\ i + 1 \in 1..Len(s) + 1
      /\ 1 \in 1..Len(s) + 1 /\ Len(s) + 1 \in 1..Len(s) + 1
  BY <1>1
<1> HIDE DEF w
<1>5. Told(s, u, w) /\ w[1] = v /\ w[Len(s) + 1] \in {v}
  BY <1>2, <1>3, <1>4 DEF Told
<1> QED BY <1>5 DEF Fate

\* Where only members who join are in s, it leads each of them who was not here
\* to the date of the join.
LEMMA FateOfJoiners ==
  ASSUME NEW s \in Seq(Update), NEW u, NEW v \in Standing, v.state # "here", NEW n \in Nat,
         \A i \in 1..Len(s) : s[i].kind # "message" /\ s[i].left = n /\ s[i].status \in Present,
         \E i \in 1..Len(s) : u \in s[i].users
  PROVE  Fate(s, u, v, {Said("here", n)})
<1> DEFINE joined(i) == \E j \in 1..Len(s) : j < i /\ u \in s[j].users
           w == [i \in 1..Len(s) + 1 |-> IF joined(i) THEN Said("here", n) ELSE v]
<1>1. Len(s) \in Nat /\ \A i \in 1..Len(s) : s[i] \in Update /\ s[i].status \notin Gone
  BY LenProperties, ElementOfSeq DEF Present, Gone
<1>2. Said("here", n) \in Standing /\ Said("here", n).state = "here"
  BY DEF Said, Standing
<1>3. w \in [1..Len(s) + 1 -> Standing]
  BY <1>2
<1>4. ~joined(1) /\ joined(Len(s) + 1)
  BY <1>1
<1>5. ASSUME NEW i \in 1..Len(s)
      PROVE  joined(i + 1) <=> (joined(i) \/ u \in s[i].users)
  BY <1>1
<1>6. \A i \in 1..Len(s) + 1 : w[i] = IF joined(i) THEN Said("here", n) ELSE v
  OBVIOUS
<1>7. \A i \in 1..Len(s) : i \in 1..Len(s) + 1 /\ i + 1 \in 1..Len(s) + 1
  BY <1>1
<1>8. 1 \in 1..Len(s) + 1 /\ Len(s) + 1 \in 1..Len(s) + 1
  BY <1>1
<1> HIDE DEF w, joined
<1>9. ASSUME NEW i \in 1..Len(s)
      PROVE  w[i + 1] = After(w[i], s[i], u)
  <2>1. w[i] \in Standing /\ s[i] \in Update /\ s[i].kind # "message" /\ s[i].status \notin Gone
        /\ s[i].left = n
    BY <1>1, <1>3, <1>7
  <2>2. CASE u \notin s[i].users
    <3>1. After(w[i], s[i], u) = w[i]
      BY <2>1, <2>2, AfterFacts
    <3> QED BY <1>5, <1>6, <1>7, <2>2, <3>1
  <2>3. CASE u \in s[i].users
    <3>1. After(w[i], s[i], u) = IF w[i].state = "here" THEN w[i] ELSE Said("here", n)
      BY <2>1, <2>3, AfterFacts
    <3> QED BY <1>2, <1>5, <1>6, <1>7, <2>3, <3>1
  <2> QED BY <2>2, <2>3
<1>10. Told(s, u, w) /\ w[1] = v /\ w[Len(s) + 1] \in {Said("here", n)}
  BY <1>3, <1>4, <1>6, <1>8, <1>9 DEF Told
<1> QED BY <1>10 DEF Fate

\* A standing is one less old and the same otherwise; time and updates commute.
LEMMA AgeStanding ==
  ASSUME NEW v \in Standing
  PROVE  /\ Age(v) \in Standing /\ Age(v).state = v.state
         /\ Age(v).left = CountDown(v.left)
         /\ \A e \in Update : \A u : After(Age(v), Age(e), u) = Age(After(v, e, u))
<1>1. /\ v = [state |-> v.state, left |-> v.left] /\ v.left \in Nat
      /\ v.state \in {"unknown", "away", "here"}
  BY DEF Standing
<1>2. CountDown(v.left) \in Nat /\ CountDown(0) = 0
  BY <1>1 DEF CountDown
<1>3. Age(v) = Said(v.state, CountDown(v.left))
  BY <1>1 DEF Age, Said
<1>4. \A state, n : Age(Said(state, n)) = Said(state, CountDown(n))
  BY DEF Age, Said
<1>5. ASSUME NEW e \in Update, NEW u
      PROVE  After(Age(v), Age(e), u) = Age(After(v, e, u))
  <2>1. /\ Age(e).kind = e.kind /\ Age(e).users = e.users /\ Age(e).status = e.status
        /\ Age(e).left = CountDown(e.left)
    BY AgeType
  <2>2. Sender(Age(e)) = Sender(e)
    BY <2>1 DEF Sender
  <2>3. Age(v).state = v.state
    BY <1>3 DEF Said
  <2>4. Age(Said("here", 0)) = Said("here", 0) /\ Age(Said("away", 0)) = Said("away", 0)
        /\ Age(Said("here", e.left)) = Said("here", Age(e).left)
    BY <1>2, <1>4, <2>1
  <2> QED BY <2>1, <2>2, <2>3, <2>4 DEF After
<1> QED BY <1>1, <1>2, <1>3, <1>5 DEF Said, Standing

\* Updates that are older by one lead from a standing that is, to standings that are (Tick).
LEMMA FateAges ==
  ASSUME NEW s \in Seq(Update), NEW t \in Seq(Update), Len(t) = Len(s),
         \A i \in 1..Len(s) : t[i] = Age(s[i]),
         NEW u, NEW v, NEW G, NEW H, \A g \in G : Age(g) \in H, Fate(s, u, v, G)
  PROVE  Fate(t, u, Age(v), H)
<1>1. PICK w : Told(s, u, w) /\ w[1] = v /\ w[Len(s) + 1] \in G
  BY DEF Fate
<1> DEFINE m == Len(s)
           x == [i \in 1..m + 1 |-> Age(w[i])]
<1>2. m \in Nat /\ \A i \in 1..m : s[i] \in Update
  BY LenProperties, ElementOfSeq
<1>3. /\ w \in [1..m + 1 -> Standing]
      /\ \A i \in 1..m :
           /\ w[i + 1] = After(w[i], s[i], u)
           /\ s[i].kind = "message" /\ u = Sender(s[i]) /\ s[i].left > 0 => w[i].left = s[i].left
  BY <1>1 DEF Told
<1> HIDE DEF m
<1>4. x \in [1..m + 1 -> Standing]
  BY <1>3, AgeStanding
<1>5. /\ \A i \in 1..m : i \in 1..m + 1 /\ i + 1 \in 1..m + 1
      /\ 1 \in 1..m + 1 /\ m + 1 \in 1..m + 1
      /\ \A i \in 1..m + 1 : x[i] = Age(w[i])
  BY <1>2
<1> HIDE DEF x
<1>6. ASSUME NEW i \in 1..m
      PROVE  /\ x[i + 1] = After(x[i], t[i], u)
             /\ t[i].kind = "message" /\ u = Sender(t[i]) /\ t[i].left > 0 => x[i].left = t[i].left
  <2>1. w[i] \in Standing /\ s[i] \in Update /\ t[i] = Age(s[i])
    BY <1>2, <1>3, <1>5 DEF m
  <2>2. After(Age(w[i]), Age(s[i]), u) = Age(After(w[i], s[i], u))
    BY <2>1, AgeStanding
  <2>3. /\ t[i].kind = s[i].kind /\ t[i].users = s[i].users /\ t[i].left = CountDown(s[i].left)
    BY <2>1, AgeType
  <2>4. Sender(t[i]) = Sender(s[i]) /\ x[i].left = CountDown(w[i].left)
    BY <1>5, <2>1, <2>3, AgeStanding DEF Sender
  <2>5. t[i].left > 0 => s[i].left > 0
    <3>1. s[i].left \in Nat
      BY <2>1, MembershipAssumption DEF Update, Left
    <3> QED BY <2>3, <3>1 DEF CountDown
  <2> QED BY <1>3, <1>5, <2>1, <2>2, <2>3, <2>4, <2>5
<1>7. Told(t, u, x) /\ x[1] = Age(v) /\ x[Len(t) + 1] \in H
  BY <1>1, <1>4, <1>5, <1>6 DEF Told, m
<1> QED BY <1>7 DEF Fate

\* Updates lead into every set that holds where they lead.
LEMMA FateMonotone ==
  ASSUME NEW s, NEW u, NEW v, NEW G, NEW H, Fate(s, u, v, G), \A g \in G \cap Standing : g \in H,
         Len(s) \in Nat
  PROVE  Fate(s, u, v, H)
<1>1. PICK w : Told(s, u, w) /\ w[1] = v /\ w[Len(s) + 1] \in G
  BY DEF Fate
<1>2. w[Len(s) + 1] \in Standing
  <2>1. Len(s) + 1 \in 1..Len(s) + 1
    OBVIOUS
  <2> QED BY <1>1, <2>1 DEF Told
<1>3. w[Len(s) + 1] \in H
  BY <1>1, <1>2
<1> QED BY <1>1, <1>3 DEF Fate

\* Where s holds nothing but messages about u, u is known as before, or is a
\* member whom nobody knew.
LEMMA FateOfIdle ==
  ASSUME NEW s \in Seq(Update), NEW u, NEW v, NEW G, Fate(s, u, v, G),
         \A i \in 1..Len(s) : s[i].kind = "message" \/ u \notin s[i].users
  PROVE  \E g \in G : g = v \/ (v.state = "unknown" /\ g = Said("here", 0))
<1>1. PICK w : Told(s, u, w) /\ w[1] = v /\ w[Len(s) + 1] \in G
  BY DEF Fate
<1> DEFINE m == Len(s)
           same(i) == w[i] = v \/ (v.state = "unknown" /\ w[i] = Said("here", 0))
           S == {i \in 1..m + 1 : ~same(i)}
           R == {ss \in Nat \X Nat : ss[1] < ss[2]}
<1>2. m \in Nat
  BY LenProperties
<1>3. ASSUME NEW i \in 1..m, same(i) PROVE same(i + 1)
  <2>1. w[i + 1] = After(w[i], s[i], u)
    BY <1>1 DEF Told
  <2>2. w[i] \in Standing
    <3>1. i \in 1..m + 1
      BY <1>2
    <3> QED BY <1>1, <3>1 DEF Told
  <2>3. s[i] \in Update
    BY <1>2, ElementOfSeq
  <2>4. \/ w[i + 1] = w[i]
        \/ w[i].state = "unknown" /\ w[i + 1] = Said("here", 0)
    BY <2>1, <2>2, <2>3, AfterFacts
  <2>5. Said("here", 0).state # "unknown"
    BY DEF Said
  <2> QED BY <1>3, <2>4, <2>5
<1>4. same(1)
  BY <1>1
<1>5. IsWellFoundedOn(R, Nat)
  BY NatLessThanWellFounded, Zenon DEF OpToRel
<1>6. \A y, z \in Nat : y < z => <<y, z>> \in R
  OBVIOUS
<1>7. S \subseteq Nat
  BY <1>2
<1>9. \A i \in 1..m + 1 : i # 1 => i - 1 \in 1..m /\ i - 1 \in 1..m + 1 /\ i - 1 < i /\ (i - 1) + 1 = i
  BY <1>2
<1>10. \A i : i \in S <=> i \in 1..m + 1 /\ ~same(i)
  OBVIOUS
<1> HIDE DEF R, same, S, m
<1>8. S = {}
  <2>1. SUFFICES ASSUME S # {} PROVE FALSE
    OBVIOUS
  <2>2. PICK i \in S : \A y \in S : ~(<<y, i>> \in R)
    BY <1>5, <1>7, <2>1, WFMin
  <2>3. i \in 1..m + 1 /\ ~same(i) /\ i # 1
    BY <1>4, <1>10
  <2>4. i - 1 \in 1..m /\ i - 1 \in 1..m + 1 /\ i - 1 < i /\ (i - 1) + 1 = i
    BY <1>9, <2>3
  <2>5. ~same(i - 1)
    BY <1>3, <2>3, <2>4
  <2>6. i - 1 \in S
    BY <1>10, <2>4, <2>5
  <2>7. <<i - 1, i>> \in R
    BY <1>6, <1>7, <2>4, <2>6
  <2> QED BY <2>2, <2>6, <2>7
<1>11. same(m + 1)
  <2>1. m + 1 \in 1..m + 1
    BY <1>2 DEF m
  <2> QED BY <1>8, <1>10, <2>1
<1> QED BY <1>1, <1>11 DEF same, m

\* The end of a sequence of updates, from one of them on.
LEMMA SuffixFacts ==
  ASSUME NEW s \in Seq(Update), NEW k \in 1..Len(s) + 1
  PROVE  /\ Suffix(s, k) \in Seq(Update) /\ Len(s) \in Nat
         /\ Len(Suffix(s, k)) = Len(s) - k + 1
         /\ \A i \in 1..Len(s) - k + 1 : Suffix(s, k)[i] = s[k + i - 1] /\ k + i - 1 \in 1..Len(s)
<1>1. Len(s) \in Nat /\ k \in Int /\ Len(s) \in Int
  BY LenProperties
<1>2. \A i \in k..Len(s) : s[i] \in Update
  BY <1>1, ElementOfSeq
<1>3. /\ SubSeq(s, k, Len(s)) \in Seq(Update)
      /\ Len(SubSeq(s, k, Len(s))) = IF k <= Len(s) THEN Len(s) - k + 1 ELSE 0
      /\ \A i \in 1..Len(s) - k + 1 : SubSeq(s, k, Len(s))[i] = s[k + i - 1]
  BY <1>1, <1>2, SubSeqProperties
<1>4. (IF k <= Len(s) THEN Len(s) - k + 1 ELSE 0) = Len(s) - k + 1
  BY <1>1
<1>5. \A i \in 1..Len(s) - k + 1 : k + i - 1 \in 1..Len(s)
  BY <1>1
<1> QED BY <1>1, <1>3, <1>4, <1>5 DEF Suffix

\* Nothing was handled, nothing comes back.
LEMMA ReplaysNothing ==
  ASSUME NEW u, NEW v0 \in Standing
  PROVE  Replays(<<>>, u, v0)
<1>1. <<>> \in Seq(Update) /\ Len(<<>>) = 0
  BY EmptySeq
<1>2. ASSUME NEW k \in 1..Len(<<>>) + 1, NEW v \in Standing
      PROVE  Fate(Suffix(<<>>, k), u, v, Returning(v, v0))
  <2>1. Suffix(<<>>, k) \in Seq(Update) /\ Len(Suffix(<<>>, k)) = 0
    <3>1. k = 1
      BY <1>1, <1>2
    <3>2. Suffix(<<>>, k) \in Seq(Update) /\ Len(Suffix(<<>>, k)) = Len(<<>>) - k + 1
      BY <1>1, <1>2, SuffixFacts
    <3> QED BY <1>1, <3>1, <3>2
  <2>2. v \in Returning(v, v0)
    BY DEF Returning
  <2> QED BY <2>1, <2>2, FateEmpty
<1> QED BY <1>2 DEF Replays

\* The update that was handled last may come back as well: its user is known as
\* it leaves the user known.
LEMMA ReplaysMore ==
  ASSUME NEW s \in Seq(Update), NEW e \in Update, e.kind # "message", NEW u,
         NEW v0 \in Standing, Replays(s, u, v0)
  PROVE  Replays(Append(s, e), u, After(v0, e, u))
<1> DEFINE all == Append(s, e)
           v1 == After(v0, e, u)
           one == <<e>>
<1>1. /\ all \in Seq(Update) /\ Len(all) = Len(s) + 1 /\ Len(s) \in Nat
      /\ \A i \in 1..Len(s) : all[i] = s[i]
      /\ all[Len(s) + 1] = e
  BY AppendProperties, LenProperties
<1>2. one \in Seq(Update) /\ Len(one) = 1 /\ one[1] = e
  OBVIOUS
<1>3. v1 \in Standing
  BY AfterFacts
<1>4. ASSUME NEW v \in Standing, NEW g \in Returning(v, v0)
      PROVE  After(g, e, u) \in Returning(v, v1)
  <2>1. g \in Standing /\ (v = v0 => g = v0) /\ (g = v \/ g.state = v0.state)
        /\ (g.state = "unknown" => g = v)
    BY DEF Returning
  <2>2. After(g, e, u) \in Standing
    BY <2>1, AfterFacts
  <2>3. CASE u \notin e.users
    <3>1. After(g, e, u) = g /\ v1 = v0
      BY <2>1, <2>3, AfterFacts
    <3> QED BY <2>1, <3>1 DEF Returning
  <2>4. CASE u \in e.users /\ e.status \in Gone
    <3>1. After(g, e, u) = Said("away", 0) /\ v1 = Said("away", 0)
      BY <2>1, <2>4, AfterFacts
    <3>2. Said("away", 0).state = "away"
      BY DEF Said
    <3> QED BY <2>2, <3>1, <3>2 DEF Returning
  <2>5. CASE u \in e.users /\ e.status \notin Gone
    <3>1. /\ After(g, e, u) = IF g.state = "here" THEN g ELSE Said("here", e.left)
          /\ v1 = IF v0.state = "here" THEN v0 ELSE Said("here", e.left)
      BY <2>1, <2>5, AfterFacts
    <3>2. Said("here", e.left).state = "here"
      BY DEF Said
    <3>3. After(g, e, u).state = "here" /\ v1.state = "here"
      BY <3>1, <3>2
    <3>4. ASSUME v = v1 PROVE After(g, e, u) = v1
      <4>1. CASE v0.state = "here"
        BY <2>1, <3>1, <3>4, <4>1
      <4>2. CASE v0.state # "here" /\ g = v
        BY <3>1, <3>2, <3>4, <4>2
      <4>3. CASE v0.state # "here" /\ g.state = v0.state
        BY <3>1, <4>3
      <4> QED BY <2>1, <4>1, <4>2, <4>3
    <3> QED BY <2>2, <3>3, <3>4 DEF Returning
  <2> QED BY <2>3, <2>4, <2>5
<1> HIDE DEF all, v1, one
<1>5. ASSUME NEW k \in 1..Len(all) + 1, NEW v \in Standing
      PROVE  Fate(Suffix(all, k), u, v, Returning(v, v1))
  <2>1. /\ Suffix(all, k) \in Seq(Update)
        /\ Len(Suffix(all, k)) = Len(s) + 1 - k + 1
        /\ \A i \in 1..Len(s) + 1 - k + 1 : Suffix(all, k)[i] = all[k + i - 1]
    BY <1>1, SuffixFacts
  <2>2. CASE k = Len(s) + 2
    <3>1. Len(Suffix(all, k)) = 0
      BY <1>1, <2>1, <2>2
    <3>2. v \in Returning(v, v1)
      BY DEF Returning
    <3> QED BY <2>1, <3>1, <3>2, FateEmpty
  <2>3. CASE k <= Len(s) + 1
    <3>1. k \in 1..Len(s) + 1
      BY <1>1, <2>3
    <3>2. /\ Suffix(s, k) \in Seq(Update) /\ Len(Suffix(s, k)) = Len(s) - k + 1
          /\ \A i \in 1..Len(s) - k + 1 : Suffix(s, k)[i] = s[k + i - 1] /\ k + i - 1 \in 1..Len(s)
      BY <3>1, SuffixFacts
    <3>3. Suffix(all, k) = Suffix(s, k) \o one
      <4> DEFINE n == Len(s) - k + 1
                 a == Suffix(s, k)
                 b == Suffix(s, k) \o one
      <4>1. /\ n \in Nat /\ Len(a) = n /\ Len(s) + 1 - k + 1 = n + 1 /\ k + (n + 1) - 1 = Len(s) + 1
            /\ \A i \in 1..n + 1 : i \in 1..n \/ i = n + 1
            /\ \A i \in 1..n : i <= n
            /\ ~(n + 1 <= n) /\ (n + 1) - n = 1
        BY <1>1, <3>1, <3>2
      <4>2. b \in Seq(Update) /\ Len(b) = n + 1
            /\ \A i \in 1..n + 1 : b[i] = IF i <= n THEN a[i] ELSE one[i - n]
        <5>1. b \in Seq(Update) /\ Len(b) = Len(a) + Len(one)
              /\ \A i \in 1..Len(a) + Len(one) : b[i] = IF i <= Len(a) THEN a[i] ELSE one[i - Len(a)]
          <6> HIDE DEF a
          <6> QED BY <1>2, <3>2, ConcatProperties DEF a
        <5>2. Len(a) = n /\ Len(one) = 1
          BY <1>2, <4>1
        <5> HIDE DEF a, b, n
        <5> QED BY <5>1, <5>2
      <4> HIDE DEF n, a, b
      <4>3. \A i \in 1..n : b[i] = a[i] /\ i \in 1..n + 1
        <5>1. n \in Nat /\ \A i \in 1..n : i \in 1..n + 1 /\ i <= n
          BY <4>1
        <5>2. \A i \in 1..n + 1 : b[i] = IF i <= n THEN a[i] ELSE one[i - n]
          BY <4>2
        <5> QED BY <5>1, <5>2
      <4>4. b[n + 1] = e /\ n + 1 \in 1..n + 1
        <5>1. n + 1 \in 1..n + 1 /\ ~(n + 1 <= n) /\ (n + 1) - n = 1
          BY <4>1
        <5>2. b[n + 1] = one[(n + 1) - n]
          <6>1. \A i \in 1..n + 1 : b[i] = IF i <= n THEN a[i] ELSE one[i - n]
            BY <4>2
          <6> QED BY <5>1, <6>1
        <5>3. one[1] = e
          BY <1>2
        <5> QED BY <5>1, <5>2, <5>3
      <4>5. \A i \in 1..n : Suffix(all, k)[i] = b[i]
        <5> SUFFICES ASSUME NEW i \in 1..n PROVE Suffix(all, k)[i] = b[i]
          OBVIOUS
        <5>1. b[i] = a[i]
          BY <4>3
        <5>2. a[i] = s[k + i - 1] /\ k + i - 1 \in 1..Len(s)
          BY <3>2 DEF n, a
        <5>3. Suffix(all, k)[i] = all[k + i - 1]
          BY <2>1, <4>1
        <5>4. all[k + i - 1] = s[k + i - 1]
          BY <1>1, <5>2
        <5> QED BY <5>1, <5>2, <5>3, <5>4
      <4>6. Suffix(all, k)[n + 1] = b[n + 1]
        BY <1>1, <2>1, <4>1, <4>4
      <4>7. \A i \in 1..Len(b) : Suffix(all, k)[i] = b[i]
        BY <4>1, <4>2, <4>5, <4>6
      <4>8. Len(Suffix(all, k)) = Len(b)
        BY <2>1, <4>1, <4>2
      <4>9. Suffix(all, k) = b
        BY <2>1, <4>2, <4>7, <4>8, SeqEqual
      <4> QED BY <4>9 DEF b
    <3>4. Fate(Suffix(s, k), u, v, Returning(v, v0))
      BY <3>1 DEF Replays
    <3>5. ASSUME NEW g \in Returning(v, v0)
          PROVE  Fate(one, u, g, Returning(v, v1))
      <4>1. g \in Standing /\ After(g, e, u) \in Returning(v, v1)
        BY <1>4 DEF Returning
      <4> QED BY <1>2, <4>1, FateOne
    <3>6. Fate(Suffix(s, k) \o one, u, v, Returning(v, v1))
      BY <1>2, <3>2, <3>4, <3>5, FateConcat
    <3> QED BY <3>3, <3>6
  <2> QED BY <1>1, <2>2, <2>3
<1>6. Replays(all, u, v1)
  BY <1>5 DEF Replays
<1> QED BY <1>6 DEF all, v1

\* Less of what was handled may come back.
LEMMA ReplaysLess ==
  ASSUME NEW s \in Seq(Update), s # <<>>, NEW u, NEW v0, Replays(s, u, v0)
  PROVE  Replays(Tail(s), u, v0)
<1> DEFINE t == Tail(s)
<1>1. /\ Len(s) \in Nat \ {0} /\ t \in Seq(Update) /\ Len(t) = Len(s) - 1
      /\ \A i \in 1..Len(t) : t[i] = s[i + 1]
  BY EmptySeq, HeadTailProperties
<1> HIDE DEF t
<1>2. ASSUME NEW k \in 1..Len(t) + 1, NEW v \in Standing
      PROVE  Fate(Suffix(t, k), u, v, Returning(v, v0))
  <2>1. k + 1 \in 1..Len(s) + 1
    BY <1>1
  <2>2. /\ Suffix(t, k) \in Seq(Update) /\ Len(Suffix(t, k)) = Len(t) - k + 1
        /\ \A i \in 1..Len(t) - k + 1 : Suffix(t, k)[i] = t[k + i - 1] /\ k + i - 1 \in 1..Len(t)
    BY <1>1, SuffixFacts
  <2>3. /\ Suffix(s, k + 1) \in Seq(Update) /\ Len(Suffix(s, k + 1)) = Len(s) - (k + 1) + 1
        /\ \A i \in 1..Len(s) - (k + 1) + 1 : Suffix(s, k + 1)[i] = s[(k + 1) + i - 1]
    BY <2>1, SuffixFacts
  <2>4. Len(s) - (k + 1) + 1 = Len(t) - k + 1
    BY <1>1
  <2>5. ASSUME NEW i \in 1..Len(t) - k + 1
        PROVE  Suffix(t, k)[i] = Suffix(s, k + 1)[i]
    <3>1. Suffix(t, k)[i] = s[(k + i - 1) + 1]
      BY <1>1, <2>2
    <3>2. Suffix(s, k + 1)[i] = s[(k + 1) + i - 1]
      BY <2>3, <2>4
    <3>3. (k + i - 1) + 1 = (k + 1) + i - 1
      BY <1>1
    <3> QED BY <3>1, <3>2, <3>3
  <2>6. Suffix(t, k) = Suffix(s, k + 1)
    BY <2>2, <2>3, <2>4, <2>5, SeqEqual
  <2>7. Fate(Suffix(s, k + 1), u, v, Returning(v, v0))
    BY <2>1 DEF Replays
  <2> QED BY <2>6, <2>7
<1>3. Replays(t, u, v0)
  BY <1>2 DEF Replays
<1> QED BY <1>3 DEF t

\* What comes back is about nobody who is unknown, so that a message may make
\* the sender known (Grandfather).
LEMMA ReplaysGreeted ==
  ASSUME NEW s \in Seq(Update), NEW u, NEW v0 \in Standing, v0.state = "unknown", Replays(s, u, v0)
  PROVE  Replays(s, u, Said("here", 0))
<1>1. ASSUME NEW k \in 1..Len(s) + 1, NEW v \in Standing
      PROVE  Fate(Suffix(s, k), u, v, Returning(v, Said("here", 0)))
  <2>1. Fate(Suffix(s, k), u, v, Returning(v, v0))
    BY DEF Replays
  <2>2. \A g \in Returning(v, v0) \cap Standing : g \in Returning(v, Said("here", 0))
    BY DEF Returning
  <2>3. Len(Suffix(s, k)) \in Nat
    BY SuffixFacts, LenProperties
  <2> QED BY <2>1, <2>2, <2>3, FateMonotone
<1> QED BY <1>1 DEF Replays

\* What may come back grows older with the rest (Tick).
LEMMA ReplaysAge ==
  ASSUME NEW s \in Seq(Update), NEW t \in Seq(Update), Len(t) = Len(s),
         \A i \in 1..Len(s) : t[i] = Age(s[i]),
         NEW u, NEW v0 \in Standing, Replays(s, u, v0)
  PROVE  Replays(t, u, Age(v0))
<1>1. ASSUME NEW k \in 1..Len(t) + 1, NEW v \in Standing
      PROVE  Fate(Suffix(t, k), u, v, Returning(v, Age(v0)))
  <2> DEFINE p == IF v = Age(v0) THEN v0 ELSE [v EXCEPT !.left = v.left + 1]
  <2>1. p \in Standing /\ Age(p) = v /\ (v = Age(v0) => p = v0)
    <3>1. CASE v = Age(v0)
      BY <3>1
    <3>2. CASE v # Age(v0)
      <4>1. v.left \in Nat /\ p = [v EXCEPT !.left = v.left + 1]
        BY <3>2 DEF Standing
      <4>2. p \in Standing /\ p.left = v.left + 1 /\ p.state = v.state
        BY <4>1 DEF Standing
      <4>3. Age(p) \in Standing /\ Age(p).state = v.state /\ Age(p).left = v.left
        <5>1. CountDown(v.left + 1) = v.left
          BY <4>1 DEF CountDown
        <5> HIDE DEF p
        <5>2. Age(p) \in Standing /\ Age(p).state = p.state /\ Age(p).left = CountDown(p.left)
          BY <4>2, AgeStanding
        <5> QED BY <4>2, <5>1, <5>2
      <4>4. \A a, b \in Standing : a.state = b.state /\ a.left = b.left => a = b
        <5> SUFFICES ASSUME NEW a \in Standing, NEW b \in Standing, a.state = b.state, a.left = b.left
                     PROVE  a = b
          OBVIOUS
        <5>1. a = Said(a.state, a.left) /\ b = Said(b.state, b.left)
          BY DEF Standing, Said
        <5> QED BY <5>1
      <4> QED BY <3>2, <4>2, <4>3, <4>4
    <3> QED BY <3>1, <3>2
  <2> HIDE DEF p
  <2>2. Fate(Suffix(s, k), u, p, Returning(p, v0))
    BY <2>1 DEF Replays
  <2>3. ASSUME NEW g \in Returning(p, v0)
        PROVE  Age(g) \in Returning(v, Age(v0))
    <3>1. g \in Standing /\ (p = v0 => g = v0) /\ (g = p \/ g.state = v0.state)
          /\ (g.state = "unknown" => g = p)
      BY DEF Returning
    <3>2. /\ Age(g) \in Standing /\ Age(g).state = g.state /\ Age(v0).state = v0.state
      BY <3>1, AgeStanding
    <3> QED BY <2>1, <3>1, <3>2 DEF Returning
  <2>4. /\ Suffix(t, k) \in Seq(Update) /\ Suffix(s, k) \in Seq(Update)
        /\ Len(Suffix(t, k)) = Len(s) - k + 1 /\ Len(Suffix(s, k)) = Len(s) - k + 1
        /\ \A i \in 1..Len(s) - k + 1 : Suffix(t, k)[i] = t[k + i - 1]
        /\ \A i \in 1..Len(s) - k + 1 : Suffix(s, k)[i] = s[k + i - 1] /\ k + i - 1 \in 1..Len(s)
    BY SuffixFacts
  <2>5. \A i \in 1..Len(Suffix(s, k)) : Suffix(t, k)[i] = Age(Suffix(s, k)[i])
    BY <2>4
  <2>6. Fate(Suffix(t, k), u, Age(p), Returning(v, Age(v0)))
    BY <2>2, <2>3, <2>4, <2>5, FateAges
  <2> QED BY <2>1, <2>6
<1> QED BY <1>1 DEF Replays

\* Nobody is known at the start, and nothing is queued.
LEMMA RInvInit ==
  ASSUME Init
  PROVE  RInv
<1>1. TypeOK /\ NoMessages
  BY JInvInit DEF JInv
<1>2. /\ updates = <<>> /\ handled = <<>> /\ \A u \in User : rows[u] = NoRow
      /\ \A u \in User : chat[u] = [present |-> u \in Veterans, left |-> 0,
                                    status |-> IF u \in Veterans THEN "member" ELSE "left"]
  BY DEF Init
<1>p. ASSUME NEW u \in User
      PROVE  /\ chat[u].present <=> u \in Veterans
             /\ chat[u].status = IF u \in Veterans THEN "member" ELSE "left"
             /\ chat[u].left = 0
  <2>1. PICK c : /\ c = [present |-> u \in Veterans, left |-> 0,
                         status |-> IF u \in Veterans THEN "member" ELSE "left"]
                 /\ chat[u] = c
    BY <1>2
  <2>2. c.present <=> u \in Veterans
    <3>1. c = [present |-> u \in Veterans, left |-> 0,
               status |-> IF u \in Veterans THEN "member" ELSE "left"]
      BY <2>1
    <3> QED BY ONLY <3>1, Zenon
  <2>3. c.status = (IF u \in Veterans THEN "member" ELSE "left") /\ c.left = 0
    BY <2>1
  <2> QED BY <2>1, <2>2, <2>3, Zenon
<1>3. Listed /\ Blank
  <2>1. \A u \in User : /\ chat[u].present <=> u \in Veterans
                        /\ chat[u].status = IF u \in Veterans THEN "member" ELSE "left"
    BY <1>p
  <2>2. Listed
    BY <2>1 DEF Listed, Gone
  <2>3. Blank
    BY <1>2 DEF Blank
  <2> QED BY <2>2, <2>3
<1>4. Said("unknown", 0) \in Standing /\ \A u \in User : StandingOf(rows[u]) = Said("unknown", 0)
  BY <1>2 DEF StandingOf, NoRow, Said, Standing
<1>5. \A u \in User : Said("unknown", 0) \in Settled(chat[u])
  <2> TAKE u \in User
  <2>1. /\ chat[u].present <=> u \in Veterans
        /\ chat[u].left = 0
    BY <1>p
  <2>2. Said("unknown", 0).state = "unknown" /\ Said("unknown", 0).left = 0
    BY DEF Said
  <2>3. CASE u \in Veterans
    BY <1>4, <2>1, <2>2, <2>3 DEF Settled
  <2>4. CASE u \notin Veterans
    BY <1>4, <2>1, <2>2, <2>4 DEF Settled
  <2> QED BY <2>3, <2>4
<1>6. <<>> \in Seq(Update) /\ Len(<<>>) = 0
  BY EmptySeq
<1>7. Foretold
  BY <1>2, <1>4, <1>5, <1>6, FateEmpty DEF Foretold
<1>8. Repeats
  BY <1>2, <1>4, ReplaysNothing DEF Repeats
<1> QED BY <1>1, <1>3, <1>7, <1>8 DEF RInv

\* A queue that grows by updates which lead from what the chat said to what it
\* says now is still right (Join, Leave, ChangeStatus, Post).
LEMMA ForetoldGrows ==
  ASSUME RInv, NEW new \in Seq(Update), updates' = updates \o new,
         rows' = rows, handled' = handled,
         \A u \in User : \A g \in Settled(chat[u]) : Fate(new, u, g, Settled(chat'[u]))
  PROVE  Foretold' /\ Repeats' /\ Blank' /\ NoMessages'
<1>1. updates \in Seq(Update)
  BY DEF RInv, TypeOK
<1>2. ASSUME NEW u \in User
      PROVE  Fate(updates', u, StandingOf(rows'[u]), Settled(chat'[u]))
  <2>1. Fate(updates, u, StandingOf(rows[u]), Settled(chat[u]))
    BY DEF RInv, Foretold
  <2> QED BY <1>1, <2>1, FateConcat
<1>3. Foretold'
  BY <1>2 DEF Foretold
<1>4. Repeats' /\ Blank' /\ NoMessages'
  BY DEF RInv, Repeats, Blank, NoMessages
<1> QED BY <1>3, <1>4

\* The oldest update leads every row where it was foretold to (handleMembership,
\* Process), and may come back.
LEMMA ForetoldShrinks ==
  ASSUME RInv, updates # <<>>, Consume, chat' = chat,
         \A u \in User : StandingOf(rows'[u]) = After(StandingOf(rows[u]), Head(updates), u)
  PROVE  Foretold' /\ Repeats' /\ NoMessages'
<1>0. TypeOK /\ NoMessages /\ Foretold /\ Repeats /\ updates \in Seq(Update) /\ handled \in Seq(Update)
  BY DEF RInv, TypeOK
<1>1. /\ Head(updates) = updates[1] /\ Head(updates) \in Update /\ updates' = Tail(updates)
  BY <1>0, ShrunkQueue DEF Consume
<1>2. \A u \in User : StandingOf(rows[u]) \in Standing
  <2>1. \A u \in User : rows[u] \in Rows
    BY <1>0 DEF TypeOK, Rows
  <2> QED BY <2>1, StandingType
<1>3. ASSUME NEW u \in User
      PROVE  Fate(updates', u, StandingOf(rows'[u]), Settled(chat'[u]))
  <2>1. Fate(updates, u, StandingOf(rows[u]), Settled(chat[u]))
    BY <1>0 DEF Foretold
  <2>2. Fate(Tail(updates), u, After(StandingOf(rows[u]), updates[1], u), Settled(chat[u]))
    BY <1>0, <2>1, FateTail
  <2> QED BY <1>1, <2>2
<1>4. Foretold'
  BY <1>3 DEF Foretold
<1>5. ASSUME NEW u \in User
      PROVE  Replays(handled', u, StandingOf(rows'[u]))
  <2> DEFINE e == Head(updates)
             v0 == StandingOf(rows[u])
  <2>1. Replays(handled, u, v0) /\ v0 \in Standing
    BY <1>0, <1>2 DEF Repeats
  <2>2. StandingOf(rows'[u]) = After(v0, e, u)
    OBVIOUS
  <2>3. CASE e.kind = "message"
    <3>1. handled' = handled
      BY <2>3 DEF Consume
    <3>2. After(v0, e, u) = IF u = Sender(e) /\ v0.state = "unknown" THEN Said("here", 0) ELSE v0
      BY <2>3 DEF After
    <3> QED BY <1>0, <2>1, <2>2, <3>1, <3>2, ReplaysGreeted
  <2>4. CASE e.kind # "message"
    <3>1. handled' = Remember(e)
      BY <2>4 DEF Consume
    <3>2. Replays(Append(handled, e), u, After(v0, e, u))
      BY <1>0, <1>1, <2>1, <2>4, ReplaysMore
    <3>3. Append(handled, e) \in Seq(Update) /\ Append(handled, e) # <<>>
      BY <1>0, <1>1, AppendProperties
    <3> HIDE DEF e, v0
    <3>4. Replays(Tail(Append(handled, e)), u, After(v0, e, u))
      BY <3>2, <3>3, ReplaysLess
    <3>5. handled' = Append(handled, e) \/ handled' = Tail(Append(handled, e))
      BY <3>1 DEF Remember
    <3> QED BY <2>2, <3>2, <3>4, <3>5
  <2> QED BY <2>3, <2>4
<1>6. Repeats'
  BY <1>5 DEF Repeats
<1>7. \A i \in 1..Len(handled') :
        \/ \E k \in 1..Len(handled) : handled'[i] = handled[k]
        \/ handled'[i] = Head(updates) /\ Head(updates).kind # "message"
  BY <1>0, <1>1, RememberFacts DEF Consume
<1>8. NoMessages'
  BY <1>0, <1>7 DEF NoMessages
<1> QED BY <1>4, <1>6, <1>8

\* What comes back leads every row back to where it is (Restart).
LEMMA ForetoldReturns ==
  ASSUME RInv, Restart
  PROVE  Foretold' /\ Repeats' /\ NoMessages'
<1>0. /\ TypeOK /\ Foretold /\ Repeats /\ updates \in Seq(Update) /\ handled \in Seq(Update)
      /\ rows' = rows /\ chat' = chat /\ handled' = <<>>
  BY DEF RInv, TypeOK, Restart
<1>1. PICK n \in 0..Len(handled) : updates' = SubSeq(handled, Len(handled) - n + 1, Len(handled)) \o updates
  BY DEF Restart
<1> DEFINE k == Len(handled) - n + 1
<1>2. k \in 1..Len(handled) + 1 /\ updates' = Suffix(handled, k) \o updates
  <2>1. Len(handled) \in Nat
    BY <1>0, LenProperties
  <2> QED BY <1>1, <2>1 DEF Suffix
<1> HIDE DEF k
<1>3. \A u \in User : StandingOf(rows[u]) \in Standing
  <2>1. \A u \in User : rows[u] \in Rows
    BY <1>0 DEF TypeOK, Rows
  <2> QED BY <2>1, StandingType
<1>4. ASSUME NEW u \in User
      PROVE  Fate(updates', u, StandingOf(rows'[u]), Settled(chat'[u]))
  <2> DEFINE v0 == StandingOf(rows[u])
             back == Suffix(handled, k)
  <2>1. Fate(back, u, v0, Returning(v0, v0))
    BY <1>0, <1>2, <1>3 DEF Repeats, Replays
  <2>2. \A g \in Returning(v0, v0) : g = v0
    BY DEF Returning
  <2>3. Fate(updates, u, v0, Settled(chat[u]))
    BY <1>0 DEF Foretold
  <2>4. back \in Seq(Update)
    BY <1>0, <1>2, SuffixFacts
  <2> HIDE DEF v0, back
  <2>5. Fate(back \o updates, u, v0, Settled(chat[u]))
    BY <1>0, <2>1, <2>2, <2>3, <2>4, FateConcat
  <2> QED BY <1>0, <1>2, <2>5 DEF v0, back
<1>5. Foretold'
  BY <1>4 DEF Foretold
<1>6. Repeats'
  BY <1>0, <1>3, ReplaysNothing DEF Repeats
<1>7. NoMessages'
  BY <1>0, EmptySeq DEF NoMessages
<1> QED BY <1>5, <1>6, <1>7

\* Time passes alike in the chat, in the table and in the queue (Tick).
LEMMA ForetoldAges ==
  ASSUME RInv, Tick
  PROVE  Foretold' /\ Repeats' /\ NoMessages' /\ Blank' /\ Listed'
<1>0. /\ TypeOK /\ Foretold /\ Repeats /\ Blank /\ NoMessages /\ Listed
      /\ updates \in Seq(Update) /\ handled \in Seq(Update)
      /\ \A u \in User : rows[u] \in Rows
      /\ chat \in [User -> [present : BOOLEAN, left : Left, status : Present \cup Gone]]
  BY DEF RInv, TypeOK, Rows
<1>1. /\ Len(updates) \in Nat /\ Len(handled) \in Nat
      /\ DOMAIN updates = 1..Len(updates) /\ DOMAIN handled = 1..Len(handled)
      /\ \A i \in 1..Len(updates) : updates[i] \in Update
      /\ \A i \in 1..Len(handled) : handled[i] \in Update
  BY <1>0, LenProperties, ElementOfSeq
<1>2. /\ updates' = [i \in 1..Len(updates) |-> Age(updates[i])]
      /\ handled' = [i \in 1..Len(handled) |-> Age(handled[i])]
      /\ \A u \in User : chat'[u] = Age(chat[u]) /\ rows'[u] = Age(rows[u])
  BY <1>1 DEF Tick
<1>3. /\ updates' \in Seq(Update) /\ Len(updates') = Len(updates)
      /\ handled' \in Seq(Update) /\ Len(handled') = Len(handled)
      /\ \A i \in 1..Len(updates) : updates'[i] = Age(updates[i])
      /\ \A i \in 1..Len(handled) : handled'[i] = Age(handled[i])
  <2>1. /\ updates' \in [1..Len(updates) -> Update]
        /\ handled' \in [1..Len(handled) -> Update]
    BY <1>1, <1>2, AgeType
  <2> QED BY <1>1, <1>2, <2>1
<1>4. \A u \in User : /\ chat'[u].present = chat[u].present
                      /\ chat'[u].status = chat[u].status
                      /\ chat'[u].left = CountDown(chat[u].left)
                      /\ chat[u].left \in Nat
  <2>1. \A u \in User : /\ Age(chat[u]).present = chat[u].present
                        /\ Age(chat[u]).status = chat[u].status
                        /\ Age(chat[u]).left = CountDown(chat[u].left)
                        /\ chat[u].left \in Nat
    BY <1>0, MembershipAssumption DEF Age, Left
  <2> QED BY <1>2, <2>1
<1>5. ASSUME NEW u \in User
      PROVE  /\ StandingOf(rows[u]) \in Standing
             /\ StandingOf(rows'[u]) = Age(StandingOf(rows[u]))
             /\ rows'[u].status = rows[u].status
             /\ rows[u].status = "none" => rows'[u] = NoRow
  <2>1. /\ Age(rows[u]).status = rows[u].status
        /\ Age(rows[u]).left = CountDown(rows[u].left)
        /\ rows[u].status = "none" => Age(rows[u]) = NoRow
    <3>1. /\ Age(rows[u]).status = rows[u].status
          /\ Age(rows[u]).left = CountDown(rows[u].left)
      BY <1>0 DEF Age, Rows
    <3>2. ASSUME rows[u].status = "none" PROVE Age(rows[u]) = NoRow
      <4>1. rows[u] = NoRow
        BY <1>0, <3>2 DEF Blank
      <4>2. Age(NoRow) = NoRow
        BY DEF Age, NoRow, CountDown
      <4> QED BY <4>1, <4>2
    <3> QED BY <3>1, <3>2
  <2>2. /\ \A state, n : Age(Said(state, n)) = Said(state, CountDown(n))
        /\ CountDown(0) = 0
    BY DEF Age, Said, CountDown
  <2>3. Age(StandingOf(rows[u])) = StandingOf(Age(rows[u]))
    BY <2>1, <2>2 DEF StandingOf
  <2> QED BY <1>0, <1>2, <2>1, <2>3, StandingType
<1>6. ASSUME NEW u \in User, NEW g \in Settled(chat[u])
      PROVE  Age(g) \in Settled(chat'[u])
  <2>1. g \in Standing /\ g.left \in Nat
    BY DEF Settled, Standing
  <2>2. Age(g) \in Standing /\ Age(g).state = g.state /\ Age(g).left = CountDown(g.left)
    BY <2>1, AgeStanding
  <2>3. CASE chat[u].present
    <3>1. /\ g.state = "here" \/ (g.state = "unknown" /\ g.left = 0 /\ Veterans # {})
          /\ Binding(chat[u].left) => g.left = chat[u].left
      BY <2>3 DEF Settled
    <3>2. Binding(chat'[u].left) => Binding(chat[u].left)
      BY <1>4 DEF Binding, CountDown
    <3>3. CountDown(0) = 0
      BY DEF CountDown
    <3> QED BY <1>4, <2>2, <2>3, <3>1, <3>2, <3>3 DEF Settled
  <2>4. CASE ~chat[u].present
    <3>1. chat[u].left = 0 /\ g.state # "here"
      BY <2>4 DEF Settled
    <3>2. CountDown(0) = 0
      BY DEF CountDown
    <3> QED BY <1>4, <2>2, <2>4, <3>1, <3>2 DEF Settled
  <2> QED BY <2>3, <2>4
<1>7. ASSUME NEW u \in User
      PROVE  Fate(updates', u, StandingOf(rows'[u]), Settled(chat'[u]))
  <2>1. Fate(updates, u, StandingOf(rows[u]), Settled(chat[u]))
    BY <1>0 DEF Foretold
  <2>2. Fate(updates', u, Age(StandingOf(rows[u])), Settled(chat'[u]))
    BY <1>0, <1>3, <1>6, <2>1, FateAges
  <2> QED BY <1>5, <2>2
<1>8. Foretold'
  BY <1>7 DEF Foretold
<1>9. ASSUME NEW u \in User
      PROVE  Replays(handled', u, StandingOf(rows'[u]))
  <2>1. Replays(handled, u, StandingOf(rows[u]))
    BY <1>0 DEF Repeats
  <2>2. Replays(handled', u, Age(StandingOf(rows[u])))
    BY <1>0, <1>3, <1>5, <2>1, ReplaysAge
  <2> QED BY <1>5, <2>2
<1>10. Repeats'
  BY <1>9 DEF Repeats
<1>11. NoMessages'
  <2>1. \A i \in 1..Len(handled) : handled'[i].kind = handled[i].kind
    BY <1>1, <1>3, AgeType
  <2> QED BY <1>0, <1>3, <2>1 DEF NoMessages
<1>12. Blank'
  BY <1>5 DEF Blank
<1>13. Listed'
  BY <1>0, <1>4 DEF Listed
<1> QED BY <1>8, <1>10, <1>11, <1>12, <1>13

\* Every write succeeds, and administrators restrict nobody: a member who is
\* restricted keeps that status away from the chat, and the bot takes the way
\* back for a change of status (known divergences).
Faultless == MaxLost = 0 /\ "restricted" \notin Statuses

\* A membership update leaves every row as it was foretold (handleMembership).
LEMMA RecordIsForetold ==
  ASSUME TypeOK, Blank, updates # <<>>, Head(updates).kind # "message",
         Record(Head(updates).users)
  PROVE  /\ \A u \in User : StandingOf(rows'[u]) = After(StandingOf(rows[u]), Head(updates), u)
         /\ Blank'
<1>1. Head(updates) \in Update /\ \A u \in User : rows[u] \in Rows
  BY HeadTailProperties DEF TypeOK, Rows
<1>2. \A u \in User : rows'[u] =
        IF u \in Head(updates).users
        THEN RecordMembership(rows[u], Head(updates).status, Head(updates).left) ELSE rows[u]
  BY DEF Record
<1>3. ASSUME NEW u \in User
      PROVE  /\ StandingOf(rows'[u]) = After(StandingOf(rows[u]), Head(updates), u)
             /\ rows'[u].status = "none" => rows'[u] = NoRow
  <2>0. rows[u] \in Rows /\ (rows[u].status = "none" => rows[u] = NoRow)
    BY <1>1 DEF Blank
  <2>1. CASE u \in Head(updates).users
    <3>1. rows'[u] = RecordMembership(rows[u], Head(updates).status, Head(updates).left)
      BY <1>2, <2>1
    <3>2. /\ StandingOf(RecordMembership(rows[u], Head(updates).status, Head(updates).left))
             = After(StandingOf(rows[u]), Head(updates), u)
          /\ RecordMembership(rows[u], Head(updates).status, Head(updates).left).status # "none"
      BY <1>1, <2>0, <2>1, RecordedStanding
    <3> QED BY <3>1, <3>2
  <2>2. CASE u \notin Head(updates).users
    <3>1. rows'[u] = rows[u] /\ StandingOf(rows[u]) \in Standing
      BY <1>1, <1>2, <2>2, StandingType
    <3>2. After(StandingOf(rows[u]), Head(updates), u) = StandingOf(rows[u])
      BY <1>1, <2>2, <3>1, AfterFacts
    <3> QED BY <2>0, <3>1, <3>2
  <2> QED BY <2>1, <2>2
<1> QED BY <1>3 DEF Blank

\* So does a message (Process, Grandfather).
LEMMA GreetingIsForetold ==
  ASSUME TypeOK, Blank, HandleMessage
  PROVE  /\ updates # <<>> /\ Head(updates) = updates[1] /\ Head(updates) \in Update
         /\ Sender(Head(updates)) \in User
         /\ rows'[Sender(Head(updates))] = Grandfather(rows[Sender(Head(updates))])
         /\ \A u \in User : StandingOf(rows'[u]) = After(StandingOf(rows[u]), Head(updates), u)
         /\ Blank'
<1> DEFINE w == Sender(Head(updates))
<1>1. /\ updates # <<>> /\ Consume /\ Head(updates).kind = "message"
      /\ rows' = [rows EXCEPT ![w] = Grandfather(rows[w])]
  BY DEF HandleMessage, Next1, Sender
<1>2. /\ Head(updates) \in Update /\ Head(updates) = updates[1]
      /\ \A u \in User : rows[u] \in Rows /\ rows \in [User -> Rows]
  BY <1>1, ShrunkQueue DEF Consume, TypeOK, Rows
<1>3. w \in User
  <2>1. w \in Head(updates).users
    BY <1>2 DEF Update, Sender
  <2> QED BY <1>2, <2>1 DEF Update
<1> HIDE DEF w
<1>4. /\ rows'[w] = Grandfather(rows[w])
      /\ \A u \in User : u # w => rows'[u] = rows[u]
  BY <1>1, <1>2, <1>3
<1>5. ASSUME NEW u \in User
      PROVE  /\ StandingOf(rows'[u]) = After(StandingOf(rows[u]), Head(updates), u)
             /\ rows'[u].status = "none" => rows'[u] = NoRow
  <2>0. rows[u] \in Rows /\ (rows[u].status = "none" => rows[u] = NoRow)
        /\ StandingOf(rows[u]) \in Standing
    BY <1>2, StandingType DEF Blank
  <2>1. After(StandingOf(rows[u]), Head(updates), u) =
          IF u = w /\ StandingOf(rows[u]).state = "unknown" THEN Said("here", 0) ELSE StandingOf(rows[u])
    BY <1>1, <1>2, <2>0, AfterFacts DEF w
  <2>2. /\ StandingOf(Grandfather(rows[u])) =
              IF StandingOf(rows[u]).state = "unknown" THEN Said("here", 0) ELSE StandingOf(rows[u])
        /\ Grandfather(rows[u]).status # "none"
    BY <2>0, GrandfatherStanding
  <2>3. CASE u = w
    BY <1>4, <2>1, <2>2, <2>3
  <2>4. CASE u # w
    BY <1>4, <2>0, <2>1, <2>4
  <2> QED BY <2>3, <2>4
<1> QED BY <1>1, <1>2, <1>3, <1>4, <1>5 DEF Blank, w

\* Where every write succeeds, every step keeps what is foretold.
LEMMA RInvStep ==
  ASSUME Finite, Faultless, RInv, [Next]_vars
  PROVE  RInv'
<1> USE MembershipAssumption
<1>0. TypeOK /\ NoMessages /\ Listed /\ Blank /\ Foretold /\ Repeats
  BY DEF RInv
<1>t. TypeOK'
  BY <1>0, TypesKept
<1>c. /\ chat \in [User -> [present : BOOLEAN, left : Left, status : Present \cup Gone]]
      /\ \A u \in User : chat[u].status # "restricted"
  BY <1>0 DEF TypeOK, Listed, Faultless, Gone
<1>g. /\ \A c : \A g \in Settled(c) : g \in Standing
      /\ \A n : Said("here", n).state = "here" /\ Said("here", n).left = n
      /\ Said("away", 0).state = "away" /\ Said("away", 0).left = 0
      /\ Said("here", 0) \in Standing /\ Said("away", 0) \in Standing
  BY DEF Settled, Said, Standing
<1>1. ASSUME NEW us \in SUBSET User, Join(us) PROVE RInv'
  <2>1. PICK new : JoinQueues(new, us) /\ updates' = updates \o new
    BY <1>0, <1>1, JoinShape
  <2>2. /\ handled' = handled /\ rows' = rows
        /\ \A u \in us : ~chat[u].present
        /\ \A u \in User : chat'[u] =
             IF u \in us
             THEN [present |-> TRUE, left |-> Window + Skew, status |-> "member"]
             ELSE chat[u]
    BY <1>c, <1>1 DEF Join
  <2>3. /\ new \in Seq(Update) /\ Len(new) \in Nat
        /\ \A i \in 1..Len(new) : /\ new[i].kind # "message" /\ new[i].users \subseteq us
                                  /\ new[i].status \in Present /\ new[i].left = Window + Skew
        /\ \A u \in us : \E i \in 1..Len(new) : u \in new[i].users
    BY <2>1, LenProperties DEF JoinQueues
  <2>4. ASSUME NEW u \in User, NEW g \in Settled(chat[u])
        PROVE  Fate(new, u, g, Settled(chat'[u]))
    <3>1. CASE u \in us
      <4>1. g.state # "here" /\ g \in Standing
        BY <2>2, <3>1 DEF Settled
      <4>2. Window + Skew \in Nat
        OBVIOUS
      <4>3. Fate(new, u, g, {Said("here", Window + Skew)})
        BY <2>3, <3>1, <4>1, <4>2, FateOfJoiners
      <4>4. Said("here", Window + Skew) \in Settled(chat'[u])
        <5>1. chat'[u].present /\ chat'[u].left = Window + Skew
          BY <2>2, <3>1
        <5>2. Said("here", Window + Skew) \in Standing
          BY <4>2 DEF Said, Standing
        <5> QED BY <1>g, <5>1, <5>2 DEF Settled
      <4> QED BY <2>3, <4>3, <4>4, FateMonotone
    <3>2. CASE u \notin us
      <4>1. Fate(new, u, g, {g})
        BY <1>g, <2>3, <3>2, FateOfOthers
      <4>2. chat'[u] = chat[u]
        BY <2>2, <3>2
      <4>3. \A x \in {g} \cap Standing : x \in Settled(chat'[u])
        BY <4>2
      <4> QED BY <2>3, <4>1, <4>3, FateMonotone
    <3> QED BY <3>1, <3>2
  <2>5. Foretold' /\ Repeats' /\ Blank' /\ NoMessages'
    BY <2>1, <2>2, <2>3, <2>4, ForetoldGrows
  <2>6. Listed'
    <3>1. \A u \in User : IF chat'[u].present THEN chat'[u].status \in Statuses \cup {"member"}
                          ELSE chat'[u].status \in Gone
      <4> TAKE u \in User
      <4>1. CASE u \in us
        <5>1. chat'[u].present /\ chat'[u].status = "member"
          BY <2>2, <4>1
        <5> QED BY <5>1
      <4>2. CASE u \notin us
        <5>1. chat'[u] = chat[u]
          BY <2>2, <4>2
        <5> QED BY <1>0, <5>1 DEF Listed
      <4> QED BY <4>1, <4>2
    <3> QED BY <3>1 DEF Listed
  <2> QED BY <1>t, <2>5, <2>6 DEF RInv
\* One update about one member, or from one.
<1>m. ASSUME NEW u \in User, NEW new \in Seq(Update), Len(new) = 1, updates' = updates \o new,
             new[1].users = {u}, rows' = rows, handled' = handled, Listed',
             \A x \in User \ {u} : chat'[x] = chat[x],
             \A g \in Settled(chat[u]) :
               /\ After(g, new[1], u) \in Settled(chat'[u])
               /\ new[1].kind = "message" /\ new[1].left > 0 => g.left = new[1].left
      PROVE  RInv'
  <2>1. new[1] \in Update
    BY <1>m, ElementOfSeq
  <2>2. Sender(new[1]) = u
    BY <1>m DEF Sender
  <2>3. ASSUME NEW x \in User, NEW g \in Settled(chat[x])
        PROVE  Fate(new, x, g, Settled(chat'[x]))
    <3>1. g \in Standing
      BY <1>g
    <3>2. CASE x = u
      BY <1>m, <3>1, <3>2, FateOne
    <3>3. CASE x # u
      <4>1. After(g, new[1], x) = g
        BY <1>m, <2>1, <2>2, <3>1, <3>3, AfterFacts
      <4>2. g \in Settled(chat'[x])
        BY <1>m, <3>3
      <4>3. Sender(new[1]) # x
        BY <2>2, <3>3
      <4> QED BY <1>m, <3>1, <4>1, <4>2, <4>3, FateOne
    <3> QED BY <3>2, <3>3
  <2>4. Foretold' /\ Repeats' /\ Blank' /\ NoMessages'
    BY <1>m, <2>3, ForetoldGrows
  <2> QED BY <1>m, <1>t, <2>4 DEF RInv
<1>2. ASSUME NEW u \in User, Leave(u) PROVE RInv'
  <2>1. PICK status \in Gone :
          /\ chat' = [chat EXCEPT ![u] = [present |-> FALSE, left |-> 0, status |-> status]]
          /\ updates' = updates \o <<ChatMember(u, status, Window + Skew)>>
    BY <1>2, <1>c DEF Leave, Enqueue
  <2> DEFINE new == <<ChatMember(u, status, Window + Skew)>>
  <2>2. /\ new \in Seq(Update) /\ Len(new) = 1
        /\ new[1].kind = "chat_member" /\ new[1].users = {u} /\ new[1].status = status
    <3>1. Window + Skew \in Left
      BY DEF Left
    <3> QED BY <3>1 DEF ChatMember, Update
  <2>3. /\ ~chat'[u].present /\ chat'[u].left = 0 /\ chat'[u].status = status
        /\ \A x \in User \ {u} : chat'[x] = chat[x]
    BY <1>c, <2>1
  <2>4. rows' = rows /\ handled' = handled /\ updates' = updates \o new
    BY <1>2, <2>1 DEF Leave
  <2> HIDE DEF new
  <2>5. Listed'
    <3>1. \A x \in User : IF chat'[x].present THEN chat'[x].status \in Statuses \cup {"member"}
                          ELSE chat'[x].status \in Gone
      BY <1>0, <2>3 DEF Listed
    <3> QED BY <3>1 DEF Listed
  <2>6. ASSUME NEW g \in Settled(chat[u])
        PROVE  /\ After(g, new[1], u) \in Settled(chat'[u])
               /\ new[1].kind = "message" /\ new[1].left > 0 => g.left = new[1].left
    <3>1. new[1] \in Update /\ g \in Standing
      <4>1. new[1] \in Update
        BY <2>2, ElementOfSeq
      <4>2. g \in Standing
        BY <1>g
      <4> QED BY <4>1, <4>2
    <3>2. After(g, new[1], u) = Said("away", 0)
      BY <2>2, <3>1, AfterFacts
    <3> QED BY <1>g, <2>2, <2>3, <3>2 DEF Settled
  <2> QED BY <1>m, <2>2, <2>3, <2>4, <2>5, <2>6
<1>3. ASSUME NEW u \in User, ChangeStatus(u) PROVE RInv'
  <2>1. PICK status \in (Statuses \cup {"member"}) \ {chat[u].status} :
          /\ chat' = [chat EXCEPT ![u].status = status]
          /\ updates' = updates \o <<ChatMember(u, status, Window + Skew)>>
    BY <1>3 DEF ChangeStatus, Enqueue
  <2> DEFINE new == <<ChatMember(u, status, Window + Skew)>>
  <2>2. /\ new \in Seq(Update) /\ Len(new) = 1
        /\ new[1].kind = "chat_member" /\ new[1].users = {u} /\ new[1].status = status
        /\ status \in Present /\ status \notin Gone /\ status # "restricted"
    <3>1. Window + Skew \in Left
      BY DEF Left
    <3>2. status \in {"member", "administrator"}
      BY DEF Faultless
    <3> QED BY <3>1, <3>2 DEF ChatMember, Update, Present, Gone
  <2>3. /\ chat[u].present /\ chat'[u].present /\ chat'[u].left = chat[u].left
        /\ chat'[u].status = status
        /\ \A x \in User \ {u} : chat'[x] = chat[x]
    BY <1>c, <1>3, <2>1 DEF ChangeStatus
  <2>4. rows' = rows /\ handled' = handled /\ updates' = updates \o new
    BY <1>3, <2>1 DEF ChangeStatus
  <2>5. Statuses # {}
    <3>1. chat[u].status \in Statuses \cup {"member"}
      BY <1>0, <2>3 DEF Listed
    <3> QED BY <3>1
  <2> HIDE DEF new
  <2>6. Listed'
    <3>1. \A x \in User : IF chat'[x].present THEN chat'[x].status \in Statuses \cup {"member"}
                          ELSE chat'[x].status \in Gone
      BY <1>0, <2>1, <2>3 DEF Listed
    <3> QED BY <3>1 DEF Listed
  <2>7. ASSUME NEW g \in Settled(chat[u])
        PROVE  /\ After(g, new[1], u) \in Settled(chat'[u])
               /\ new[1].kind = "message" /\ new[1].left > 0 => g.left = new[1].left
    <3>1. new[1] \in Update /\ g \in Standing
      <4>1. new[1] \in Update
        BY <2>2, ElementOfSeq
      <4>2. g \in Standing
        BY <1>g
      <4> QED BY <4>1, <4>2
    <3>2. After(g, new[1], u) = IF g.state = "here" THEN g ELSE Said("here", new[1].left)
      BY <2>2, <3>1, AfterFacts
    <3>3. /\ g.state = "here" \/ (g.state = "unknown" /\ g.left = 0 /\ Veterans # {})
          /\ Binding(chat[u].left) => g.left = chat[u].left
      BY <2>3 DEF Settled
    <3>4. CASE g.state = "here"
      BY <2>2, <2>3, <3>1, <3>2, <3>3, <3>4 DEF Settled
    <3>5. CASE g.state # "here"
      <4>1. ~Binding(chat[u].left)
        <5>1. chat[u].left \in Nat
          BY <1>c DEF Left
        <5>2. Veterans # {} /\ g.left = 0 /\ (chat[u].left > 0 => g.left = chat[u].left)
          BY <3>3, <3>5 DEF Binding
        <5>3. ~(chat[u].left > 0)
          BY <5>1, <5>2
        <5> QED BY <2>5, <5>2, <5>3 DEF Binding
      <4>2. After(g, new[1], u) \in Standing
        BY <3>1, AfterFacts
      <4> QED BY <1>g, <2>2, <2>3, <3>2, <3>5, <4>1, <4>2 DEF Settled
    <3> QED BY <3>4, <3>5
  <2> QED BY <1>m, <2>2, <2>3, <2>4, <2>6, <2>7
<1>4. ASSUME NEW u \in User, Post(u) PROVE RInv'
  <2> DEFINE new == <<Message(u, chat[u].left)>>
  <2>1. /\ chat[u].present /\ chat' = chat /\ updates' = updates \o new
        /\ handled' = handled /\ rows' = rows
    BY <1>4 DEF Post, Enqueue
  <2>2. /\ new \in Seq(Update) /\ Len(new) = 1 /\ new[1].kind = "message"
        /\ new[1].users = {u} /\ new[1].left = chat[u].left
    BY <1>c DEF Message, Update, Present
  <2> HIDE DEF new
  <2>3. Listed'
    BY <1>0, <2>1 DEF Listed
  <2>4. ASSUME NEW g \in Settled(chat[u])
        PROVE  /\ After(g, new[1], u) \in Settled(chat'[u])
               /\ new[1].kind = "message" /\ new[1].left > 0 => g.left = new[1].left
    <3>1. new[1] \in Update /\ g \in Standing
      <4>1. new[1] \in Update
        <5>1. new \in Seq(Update) /\ 1 \in 1..Len(new)
          BY <2>2
        <5> QED BY ONLY <5>1, ElementOfSeq
      <4> QED BY <1>g, <4>1
    <3>2. Sender(new[1]) = u
      BY <2>2 DEF Sender
    <3>3. After(g, new[1], u) = IF g.state = "unknown" THEN Said("here", 0) ELSE g
      BY <2>2, <3>1, <3>2, AfterFacts
    <3>4. /\ g.state = "here" \/ (g.state = "unknown" /\ g.left = 0 /\ Veterans # {})
          /\ Binding(chat[u].left) => g.left = chat[u].left
      BY <2>1 DEF Settled
    <3>5. new[1].left > 0 => g.left = new[1].left
      BY <2>2, <3>4 DEF Binding
    <3>6. CASE g.state = "unknown"
      <4>1. Binding(chat[u].left) => chat[u].left = 0
        BY <3>4, <3>6
      <4> QED BY <1>g, <2>1, <3>3, <3>4, <3>5, <3>6, <4>1 DEF Settled
    <3>7. CASE g.state # "unknown"
      BY <2>1, <3>3, <3>5, <3>7
    <3> QED BY <3>6, <3>7
  <2> QED BY <1>m, <2>1, <2>2, <2>3, <2>4
<1>5. ASSUME HandleMembership PROVE RInv'
  <2>1. /\ updates # <<>> /\ Head(updates).kind # "message" /\ Consume /\ chat' = chat
        /\ Record(Head(updates).users)
    BY <1>5 DEF HandleMembership, Next1
  <2>2. /\ \A u \in User : StandingOf(rows'[u]) = After(StandingOf(rows[u]), Head(updates), u)
        /\ Blank'
    BY <1>0, <2>1, RecordIsForetold
  <2>3. Foretold' /\ Repeats' /\ NoMessages'
    BY <2>1, <2>2, ForetoldShrinks
  <2>4. Listed'
    BY <1>0, <2>1 DEF Listed
  <2> QED BY <1>t, <2>2, <2>3, <2>4 DEF RInv
<1>6. ASSUME HandleMessage PROVE RInv'
  <2>1. Consume /\ chat' = chat
    BY <1>6 DEF HandleMessage
  <2>2. /\ updates # <<>>
        /\ \A u \in User : StandingOf(rows'[u]) = After(StandingOf(rows[u]), Head(updates), u)
        /\ Blank'
    BY <1>0, <1>6, GreetingIsForetold
  <2>3. Foretold' /\ Repeats' /\ NoMessages'
    BY <2>1, <2>2, ForetoldShrinks
  <2>4. Listed'
    BY <1>0, <2>1 DEF Listed
  <2> QED BY <1>t, <2>2, <2>3, <2>4 DEF RInv
<1>7. ASSUME HandleFails PROVE RInv'
  <2>1. lost < MaxLost /\ lost \in 0..MaxLost
    BY <1>0, <1>7 DEF HandleFails, TypeOK
  <2> QED BY <2>1 DEF Faultless
<1>8. ASSUME Restart PROVE RInv'
  <2>1. Foretold' /\ Repeats' /\ NoMessages'
    BY <1>8, ForetoldReturns
  <2>2. Listed' /\ Blank'
    BY <1>0, <1>8 DEF Restart, Listed, Blank
  <2> QED BY <1>t, <2>1, <2>2 DEF RInv
<1>9. ASSUME Tick PROVE RInv'
  BY <1>9, <1>t, ForetoldAges DEF RInv
<1>10. CASE UNCHANGED vars
  BY <1>0, <1>t, <1>10 DEF vars, RInv, NoMessages, Listed, Blank, Foretold, Repeats
<1> QED BY <1>1, <1>2, <1>3, <1>4, <1>5, <1>6, <1>7, <1>8, <1>9, <1>10 DEF Next

\* What is foretold judges a newcomer as one, once the bot's clock has come to
\* the join (NewcomerPlan).
LEMMA NewcomerStep ==
  ASSUME Finite, RInv, NewcomerCaught, [Next]_vars
  PROVE  NewcomerCaught'
<1>0. TypeOK /\ Blank /\ Foretold /\ updates \in Seq(Update)
  BY DEF RInv, TypeOK
<1>1. CASE HandleMessage
  <2> DEFINE e == Head(updates)
             u == Sender(e)
  <2>1. /\ updates # <<>> /\ e = updates[1] /\ e \in Update /\ u \in User
        /\ rows'[u] = Grandfather(rows[u]) /\ e.kind = "message"
        /\ verdict'.newcomer = (e.left > 0) /\ verdict'.ahead = (e.left > Window)
        /\ verdict'.deleted = NewcomerPlan(rows'[u].left)
    <3>1. e.kind = "message"
          /\ verdict'.newcomer = (e.left > 0) /\ verdict'.ahead = (e.left > Window)
          /\ verdict'.deleted = NewcomerPlan(rows'[u].left)
      BY <1>1 DEF HandleMessage, Next1, Sender
    <3> QED BY <1>0, <1>1, <3>1, GreetingIsForetold
  <2> HIDE DEF e, u
  <2>2. SUFFICES ASSUME e.left > 0, ~(e.left > Window) PROVE NewcomerPlan(rows'[u].left)
    BY <2>1 DEF NewcomerCaught
  <2>3. StandingOf(rows[u]).left = e.left
    <3>1. Fate(updates, u, StandingOf(rows[u]), Settled(chat[u]))
      BY <1>0, <2>1 DEF Foretold
    <3>2. u = Sender(updates[1])
      BY <2>1 DEF u
    <3> QED BY <1>0, <2>1, <2>2, <3>1, <3>2, FateTail
  <2>4. rows[u].status # "none" /\ rows[u].left = e.left
    <3>1. e.left # 0
      BY <2>1, <2>2, MembershipAssumption DEF Update, Left
    <3> QED BY <2>3, <3>1 DEF StandingOf, Said
  <2>5. rows'[u].left = e.left
    BY <2>1, <2>4 DEF Grandfather, NoRow
  <2>6. e.left \in 0..Window
    BY <2>1, <2>2, MembershipAssumption DEF Update, Left
  <2> QED BY <2>2, <2>5, <2>6, MembershipAssumption DEF NewcomerPlan
<1>2. CASE UNCHANGED vars
  BY <1>2 DEF vars, NewcomerCaught
<1>3. CASE Next /\ ~HandleMessage
  <2>1. verdict' = NoVerdict
    BY <1>3 DEF Next, Join, Leave, ChangeStatus, Post, HandleMembership, HandleFails, Restart, Tick
  <2> QED BY <2>1 DEF NewcomerCaught, NoVerdict
<1> QED BY <1>1, <1>2, <1>3

\* Where everything about a member has been handled, the row is what the chat
\* says (RowsCatchUp).
LEMMA ForetoldCatchesUp ==
  ASSUME RInv, Veterans = {} \/ Statuses = {}
  PROVE  RowsCatchUp
<1>0. TypeOK /\ Blank /\ Foretold /\ updates \in Seq(Update)
  BY DEF RInv, TypeOK
<1>1. SUFFICES ASSUME NEW u \in User,
                      \A i \in DOMAIN updates : updates[i].kind = "message" \/ u \notin updates[i].users
               PROVE  \/ rows[u] = NoRow /\ chat[u].left = 0
                      \/ /\ chat[u].present <=> rows[u].status \notin Gone
                         /\ chat[u].present => rows[u].left = chat[u].left
  BY DEF RowsCatchUp
<1> DEFINE v == StandingOf(rows[u])
<1>2. PICK g \in Settled(chat[u]) : g = v \/ (v.state = "unknown" /\ g = Said("here", 0))
  <2>1. Fate(updates, u, v, Settled(chat[u]))
    BY <1>0 DEF Foretold
  <2>2. \A i \in 1..Len(updates) : updates[i].kind = "message" \/ u \notin updates[i].users
    BY <1>0, <1>1, LenProperties
  <2> HIDE DEF v
  <2> QED BY <1>0, <2>1, <2>2, FateOfIdle
<1>3. /\ chat[u].present => /\ g.state # "away" /\ g.left = chat[u].left
      /\ ~chat[u].present => chat[u].left = 0 /\ g.state # "here"
  BY DEF Settled, Binding
<1>4. CASE rows[u].status = "none"
  <2>1. rows[u] = NoRow /\ v = Said("unknown", 0)
    BY <1>0, <1>4 DEF Blank, StandingOf
  <2>2. g.left = 0
    BY <1>2, <2>1 DEF Said
  <2> QED BY <1>3, <2>1, <2>2
<1>5. CASE rows[u].status \in Gone
  <2>1. v = Said("away", 0)
    BY <1>5 DEF StandingOf, Gone
  <2>2. g.state = "away"
    BY <1>2, <2>1 DEF Said
  <2> QED BY <1>3, <1>5, <2>2
<1>6. CASE rows[u].status # "none" /\ rows[u].status \notin Gone
  <2>1. v = Said("here", rows[u].left)
    BY <1>6 DEF StandingOf
  <2>2. g.state = "here" /\ g.left = rows[u].left
    BY <1>2, <2>1 DEF Said
  <2> QED BY <1>3, <1>6, <2>2
<1> QED BY <1>4, <1>5, <1>6

\* For any users, windows, restarts and repeated updates, whoever joins, leaves,
\* comes back or is promoted: a link posted within the window of its sender is
\* deleted (NewcomerPlan), as long as every write succeeds, nobody is restricted
\* and the bot's clock has come to the join.
THEOREM NewcomersAreCaught ==
  ASSUME Finite, Faultless
  PROVE  Spec => []NewcomerCaught
<1>1. Init => RInv /\ NewcomerCaught
  BY RInvInit DEF Init, NewcomerCaught, NoVerdict
<1>2. RInv /\ NewcomerCaught /\ [Next]_vars => RInv' /\ NewcomerCaught'
  BY RInvStep, NewcomerStep
<1> QED BY <1>1, <1>2, PTL DEF Spec

\* For any users, windows, skews, restarts and repeated updates: once the updates
\* about a member are handled, the row says whether the member is there and how
\* much of the window is left (RecordMembership), as long as every write succeeds,
\* nobody is restricted, and nobody is older than the bot or no status changes.
THEOREM RowsFollowTheChat ==
  ASSUME Finite, Faultless, Veterans = {} \/ Statuses = {}
  PROVE  Spec => []RowsCatchUp
<1>1. Init => RInv
  BY RInvInit
<1>2. RInv /\ [Next]_vars => RInv'
  BY RInvStep
<1>3. RInv => RowsCatchUp
  BY ForetoldCatchesUp
<1> QED BY <1>1, <1>2, <1>3, PTL DEF Spec
=============================================================================
