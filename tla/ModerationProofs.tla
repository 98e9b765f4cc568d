-------------------------- MODULE ModerationProofs ---------------------------
(***************************************************************************)
(* Moderation for every set of messages, contents and resolvers, any       *)
(* durations and bounds.  Types and OneLivePerRule hold for any number of  *)
(* consumers; the rest needs the single one that the deployment runs.      *)
(*                                                                         *)
(* TInv adds to the types what a consumer at its stage has in hand (Fits)  *)
(* and which rules can have answered a content at all (RulesFit).  Looked  *)
(* says which of those rules the lookups made so far have ruled out, until *)
(* none is left at "create".  Claimed says that a consumer at work owns    *)
(* the row of its update.  Fresh says that before the first restart each   *)
(* version is given out once, and Clean that a message which its own       *)
(* update has not deleted is accounted for without that update.            *)
(***************************************************************************)
EXTENDS Moderation, WellFoundedInduction, SequenceTheorems, TLAPS

\* The rules that may answer a content.
May(rule, c) ==
  \/ rule = "newcomer-sandbox"
  \/ rule = "link-preview" /\ c.only
  \/ \E i \in DOMAIN c.urls : c.urls[i] # "plain" /\ c.urls[i] = rule

\* What a consumer needs to know at its stage.
Wrapper(c, i) == i \in DOMAIN c.urls /\ c.urls[i] # "plain"

Fits(h, ids) ==
  /\ h.at # "idle" => h.update \in Update
  /\ h.at \in {"links", "resolve"} => h.url >= 1
  /\ h.at = "resolve" => Wrapper(h.update.content, h.url)
  /\ h.at = "preview" => h.update.content.only
  /\ h.at = "create" =>
       h.rule \in Rule /\ h.kind \in Kind /\ May(h.rule, h.update.content)
  /\ h.at \in {"deliver", "suppress", "record"} => h.action # 0
  /\ \A i \in h.dest : Wrapper(h.update.content, i)
  /\ h.action \in ids \cup {0}

RulesFit == \A a \in DOMAIN actions : May(actions[a].rule, actions[a].fingerprint)

TInv == TypeOK /\ RulesFit /\ \A k \in Consumer : Fits(handler[k], DOMAIN actions)

\* Nothing but the sandbox answers c at the moment.
Unanswered(c) ==
  \A a \in DOMAIN actions :
    actions[a].fingerprint = Fingerprint(c) /\ actions[a].rule # "newcomer-sandbox" => actions[a].left = 0

\* What the lookups of one consumer have ruled out so far.
Looked(h) ==
  LET c == h.update.content IN
  /\ h.at \in {"links", "resolve"} =>
       \A i \in 1..(h.url - 1) : Wrapper(c, i) => Live(c.urls[i], c) = {}
  /\ h.at = "resolve" => Live(c.urls[h.url], c) = {}
  /\ h.at = "preview" => Unanswered(c)
  /\ h.at = "create" /\ h.rule # "newcomer-sandbox" => Unanswered(c)

Claimed ==
  \A k \in Consumer : handler[k].at # "idle" => Row(handler[k].update).state = "processing"

\* Before the first restart Telegram gives out every version once.
Fresh ==
  restarts = 0 =>
    /\ \A m \in Message, v \in Version :
         v > message[m].version => processed[m][v].state = "none"
    /\ \A i \in DOMAIN updates :
         Row(updates[i]).state = "none" /\ updates[i].version <= message[updates[i].message].version
    /\ \A i, j \in DOMAIN updates :
         updates[i].message = updates[j].message /\ updates[i].version = updates[j].version
           => i = j

Accounted(m) == \E a \in DOMAIN actions : actions[a].source = m \/ <<a, m>> \in suppressed

Excused(m, v) == processed[m][v].state \in {"failed", "processing"}

\* A message that the consumer in work has not deleted is accounted for without it.
Clean(h) ==
  restarts = 0 /\ h.at \notin {"idle", "record", "fail"} /\ message[h.update.message].gone =>
    \/ Accounted(h.update.message)
    \/ \E v \in Version \ {h.update.version} : Excused(h.update.message, v)

-----------------------------------------------------------------------------
(* Facts about the data.                                                   *)

LEMMA MinIsIn ==
  ASSUME NEW S, S \subseteq Nat, S # {}
  PROVE  Min(S) \in S /\ \A y \in S : Min(S) <= y
<1> DEFINE R == {ss \in Nat \X Nat : ss[1] < ss[2]}
<1>1. IsWellFoundedOn(R, Nat)
  BY NatLessThanWellFounded, Zenon DEF OpToRel
<1>2. \A y, z \in Nat : y < z => <<y, z>> \in R
  OBVIOUS
<1> HIDE DEF R
<1>3. PICK x \in S : \A y \in S : ~(<<y, x>> \in R)
  BY <1>1, WFMin
<1>4. ASSUME NEW y \in S PROVE x <= y
  <2>1. x \in Nat /\ y \in Nat
    OBVIOUS
  <2>2. ~(<<y, x>> \in R)
    BY <1>3
  <2>3. ~(y < x)
    BY <2>1, <2>2, <1>2
  <2> QED BY <2>1, <2>3
<1> QED BY <1>4 DEF Min

LEMMA ContentType ==
  ASSUME NEW c \in Content \cup {NoContent}
  PROVE  /\ Len(c.urls) \in Nat /\ DOMAIN c.urls = 1..Len(c.urls)
         /\ \A i \in DOMAIN c.urls : c.urls[i] \in Resolver \cup {"plain"}
         /\ c.only \in BOOLEAN
<1>1. c.urls \in Seq(Resolver \cup {"plain"}) /\ c.only \in BOOLEAN
  <2>1. CASE c \in Content
    BY <2>1, ModerationAssumption
  <2>2. CASE c = NoContent
    BY <2>2 DEF NoContent
  <2> QED BY <2>1, <2>2
<1> QED BY <1>1

\* A rule may answer a content if it may answer what the content is known by.
LEMMA FingerprintKeeps ==
  ASSUME NEW c \in Content \cup {NoContent}
  PROVE  \A rule : May(rule, Fingerprint(c)) <=> May(rule, c)
<1>1. Fingerprint(c).urls = c.urls /\ Fingerprint(c).only = c.only
  <2>1. CASE c \in Content
    BY <2>1, ModerationAssumption DEF Fingerprint
  <2>2. CASE c = NoContent
    BY <2>2 DEF NoContent, Fingerprint
  <2> QED BY <2>1, <2>2
<1> QED BY <1>1 DEF May

\* The wrappers ahead of a consumer, and the first of them.
LEMMA AheadIsOf ==
  ASSUME TypeOK, NEW k \in Consumer, handler[k].url >= 1
  PROVE  /\ Ahead(k) \subseteq Nat
         /\ \A i : i \in Ahead(k) <=> i >= handler[k].url /\ Wrapper(The(k), i)
<1>1. The(k) \in Content \cup {NoContent} /\ handler[k].url \in Nat
  BY DEF TypeOK, Doing, Update, NoUpdate, The
<1>2. Len(The(k).urls) \in Nat /\ DOMAIN The(k).urls = 1..Len(The(k).urls)
  BY <1>1, ContentType
<1> QED BY <1>1, <1>2 DEF Ahead, Wrapper

LEMMA FirstAhead ==
  ASSUME TypeOK, NEW k \in Consumer, handler[k].url >= 1, Ahead(k) # {}
  PROVE  /\ Min(Ahead(k)) >= handler[k].url /\ Wrapper(The(k), Min(Ahead(k)))
         /\ \A i : i >= handler[k].url /\ Wrapper(The(k), i) => Min(Ahead(k)) <= i
<1> QED BY AheadIsOf, MinIsIn

-----------------------------------------------------------------------------
(* Types.                                                                  *)

\* What one consumer does leaves the others as they are.
LEMMA OneMoves ==
  ASSUME TInv, NEW k \in Consumer, NEW h \in Doing, Fits(h, DOMAIN actions'),
         handler' = [handler EXCEPT ![k] = h], DOMAIN actions \subseteq DOMAIN actions'
  PROVE  /\ handler' \in [Consumer -> Doing]
         /\ \A j \in Consumer :
              /\ Fits(handler'[j], DOMAIN actions')
              /\ handler'[j].dest \subseteq DOMAIN handler'[j].update.content.urls
              /\ handler'[j].action \in DOMAIN actions' \cup {0}
<1>1. handler \in [Consumer -> Doing] /\ \A j \in Consumer : Fits(handler[j], DOMAIN actions)
  BY DEF TInv, TypeOK
<1>2. \A j \in Consumer : handler'[j] = IF j = k THEN h ELSE handler[j]
  BY <1>1
<1>3. \A j \in Consumer : Fits(handler'[j], DOMAIN actions')
  <2> SUFFICES ASSUME NEW j \in Consumer PROVE Fits(handler'[j], DOMAIN actions')
    OBVIOUS
  <2>1. CASE j = k
    BY <1>2, <2>1
  <2>2. CASE j # k
    <3>1. handler'[j] = handler[j] /\ Fits(handler[j], DOMAIN actions)
      BY <1>1, <1>2, <2>2
    <3> QED BY <3>1 DEF Fits
  <2> QED BY <2>1, <2>2
<1>4. \A g : Fits(g, DOMAIN actions') =>
              /\ g.dest \subseteq DOMAIN g.update.content.urls
              /\ g.action \in DOMAIN actions' \cup {0}
  BY DEF Fits, Wrapper
<1>5. handler' \in [Consumer -> Doing]
  BY <1>1
<1> QED BY <1>3, <1>4, <1>5

LEMMA RowWritten ==
  ASSUME TypeOK, NEW u \in Update, NEW state \in Terminal \cup {"processing"},
         WriteRow(u, state)
  PROVE  /\ processed' \in [Message -> [Version -> Claim]]
         /\ \A m \in Message, v \in Version :
              processed'[m][v].state = IF m = u.message /\ v = u.version THEN state
                                       ELSE processed[m][v].state
<1>1. processed \in [Message -> [Version -> Claim]] /\ u.message \in Message /\ u.version \in Version
  BY DEF TypeOK, Update
<1> DEFINE row == [state |-> state, wait |-> ClaimWait]
<1>2. row \in Claim /\ row.state = state
  BY ModerationAssumption DEF Claim
<1> HIDE DEF row
<1>3. processed' = [processed EXCEPT ![u.message] = [processed[u.message] EXCEPT ![u.version] = row]]
  BY DEF WriteRow, row
<1> QED BY <1>1, <1>2, <1>3
-----------------------------------------------------------------------------
(* The decision.                                                           *)

\* A consumer in work goes on with its update at another stage.
Goes(k, h) ==
  /\ h \in Doing /\ Fits(h, DOMAIN actions)
  /\ handler' = [handler EXCEPT ![k] = h]
  /\ h.update = handler[k].update
  /\ Looked(handler[k]) => Looked(h)

LEMMA InWork ==
  ASSUME TInv, NEW k \in Consumer
  PROVE  /\ handler[k] \in Doing /\ Fits(handler[k], DOMAIN actions)
         /\ The(k) \in Content \cup {NoContent}
         /\ handler[k].dest \subseteq Nat
         /\ handler[k].at # "idle" => handler[k].update \in Update /\ The(k) \in Content
BY DEF TInv, TypeOK, Doing, The, Update, NoUpdate, Fits

LEMMA PlanGoes ==
  ASSUME TInv, NEW k \in Consumer, handler[k].at # "idle",
         NEW rule \in Rule, NEW kind \in Kind, May(rule, The(k)), Plan(k, rule, kind),
         Looked(handler[k]) /\ rule # "newcomer-sandbox" => Unanswered(The(k))
  PROVE  \E h : Goes(k, h) /\ h.at = "create"
<1> DEFINE g == handler[k]
           h == [g EXCEPT !.at = "create", !.rule = rule, !.kind = kind]
<1>1. g \in Doing /\ Fits(g, DOMAIN actions) /\ g.update.content = The(k)
  BY InWork DEF The
<1>2. /\ h \in Doing /\ h.at = "create" /\ h.update = g.update /\ h.rule = rule
      /\ h.kind = kind /\ h.dest = g.dest /\ h.action = g.action
  BY <1>1 DEF Doing, Stage
<1> HIDE DEF g, h
<1>3. Fits(h, DOMAIN actions)
  BY <1>1, <1>2 DEF Fits, g
<1>4. Looked(g) => Looked(h)
  BY <1>1, <1>2 DEF Looked, g
<1>5. handler' = [handler EXCEPT ![k] = h]
  BY DEF Plan, g, h
<1> QED BY <1>2, <1>3, <1>4, <1>5 DEF Goes, g

LEMMA GotoGoes ==
  ASSUME TInv, NEW k \in Consumer, handler[k].at # "idle",
         NEW at \in {"complete", "fail", "preview", "record"}, Goto(k, at),
         at = "record" => handler[k].at = "suppress",
         at = "preview" =>
           The(k).only /\ (Looked(handler[k]) => Unanswered(The(k)))
  PROVE  \E h : Goes(k, h) /\ h.at = at
<1> DEFINE g == handler[k]
           h == [g EXCEPT !.at = at]
<1>1. g \in Doing /\ Fits(g, DOMAIN actions) /\ g.update.content = The(k)
  BY InWork DEF The
<1>2. /\ h \in Doing /\ h.at = at /\ h.update = g.update /\ h.rule = g.rule
      /\ h.kind = g.kind /\ h.dest = g.dest /\ h.action = g.action
  BY <1>1 DEF Doing, Stage
<1> HIDE DEF g, h
<1>3. Fits(h, DOMAIN actions)
  BY <1>1, <1>2 DEF Fits, g
<1>4. Looked(g) => Looked(h)
  BY <1>1, <1>2 DEF Looked, g
<1>5. handler' = [handler EXCEPT ![k] = h]
  BY DEF Goto, g, h
<1> QED BY <1>2, <1>3, <1>4, <1>5 DEF Goes, g

\* A live action of the content takes the consumer to its suppression.
LEMMA UnlessGoes ==
  ASSUME TInv, NEW k \in Consumer, handler[k].at # "idle", NEW rule, NEW a \in Live(rule, The(k)),
         handler' = [handler EXCEPT ![k] = [@ EXCEPT !.at = "suppress", !.action = a]]
  PROVE  \E h : Goes(k, h) /\ h.at = "suppress"
<1> DEFINE g == handler[k]
           h == [g EXCEPT !.at = "suppress", !.action = a]
<1>1. g \in Doing /\ Fits(g, DOMAIN actions) /\ g.update.content = The(k)
  BY InWork DEF The
<1>2. a \in DOMAIN actions /\ a \in Nat /\ a # 0
  BY DEF Live, TInv, TypeOK
<1>3. /\ h \in Doing /\ h.at = "suppress" /\ h.update = g.update /\ h.rule = g.rule
      /\ h.kind = g.kind /\ h.dest = g.dest /\ h.action = a
  BY <1>1, <1>2 DEF Doing, Stage
<1> HIDE DEF g, h
<1>4. Fits(h, DOMAIN actions)
  BY <1>1, <1>2, <1>3 DEF Fits, g
<1>5. Looked(g) => Looked(h)
  BY <1>3 DEF Looked, g
<1>6. handler' = [handler EXCEPT ![k] = h]
  BY DEF g, h
<1> QED BY <1>3, <1>4, <1>5, <1>6 DEF Goes, g
\* When every wrapper was looked up, no rule but the sandbox's answers.
LEMMA AllLookedUp ==
  ASSUME TInv, NEW k \in Consumer, handler[k].at = "links", Looked(handler[k]),
         Ahead(k) = {}, The(k).only => Live("link-preview", The(k)) = {}
  PROVE  Unanswered(The(k))
<1> SUFFICES ASSUME NEW a \in DOMAIN actions, actions[a].fingerprint = Fingerprint(The(k)),
                    actions[a].rule # "newcomer-sandbox"
             PROVE  actions[a].left = 0
  BY DEF Unanswered
<1>1. actions[a] \in Canonical /\ May(actions[a].rule, The(k))
  BY InWork, FingerprintKeeps DEF TInv, TypeOK, RulesFit
<1>2. handler[k].url \in Nat /\ handler[k].url >= 1
  BY InWork DEF Doing, Fits
<1>3. a \notin Live(actions[a].rule, The(k))
  <2>1. CASE actions[a].rule = "link-preview" /\ The(k).only
    BY <2>1
  <2>2. ASSUME NEW i \in DOMAIN The(k).urls, The(k).urls[i] # "plain",
               The(k).urls[i] = actions[a].rule
        PROVE  a \notin Live(actions[a].rule, The(k))
    <3>1. i \in Nat /\ i >= 1 /\ Wrapper(The(k), i)
      BY <2>2, InWork, ContentType DEF Wrapper
    <3>2. ~(i >= handler[k].url)
      BY <1>2, <3>1, AheadIsOf DEF TInv
    <3>3. i \in 1..(handler[k].url - 1)
      BY <1>2, <3>1, <3>2
    <3>4. Live(The(k).urls[i], The(k)) = {}
      BY <3>1, <3>3 DEF Looked, The
    <3> QED BY <2>2, <3>4
  <2> QED BY <1>1, <2>1, <2>2 DEF May
<1>4. ~(actions[a].left > 0)
  BY <1>3 DEF Live
<1> QED BY <1>1, <1>4, ModerationAssumption DEF Canonical

LEMMA LookUpGoes ==
  ASSUME TInv, NEW k \in Consumer, handler[k].at = "links", Ahead(k) # {}, LookUp(k),
         Live(The(k).urls[Min(Ahead(k))], The(k)) = {}
  PROVE  \E h : Goes(k, h) /\ h.at = "resolve"
<1> DEFINE g == handler[k]
           first == Min(Ahead(k))
           h == [g EXCEPT !.at = "resolve", !.url = first]
<1>1. g \in Doing /\ Fits(g, DOMAIN actions) /\ g.update.content = The(k)
  BY InWork DEF The
<1>2. g.url \in Nat /\ g.url >= 1 /\ g.at = "links"
  BY <1>1 DEF Doing, Fits
<1>3. /\ first \in Nat /\ first >= g.url /\ Wrapper(The(k), first)
      /\ \A i : i >= g.url /\ Wrapper(The(k), i) => first <= i
  BY <1>2, AheadIsOf, FirstAhead, MinIsIn DEF TInv
<1>4. Live(The(k).urls[first], The(k)) = {}
  OBVIOUS
<1> HIDE DEF first
<1>5. /\ h \in Doing /\ h.at = "resolve" /\ h.update = g.update /\ h.rule = g.rule
      /\ h.kind = g.kind /\ h.dest = g.dest /\ h.action = g.action /\ h.url = first
  BY <1>1, <1>3 DEF Doing, Stage
<1>6. handler' = [handler EXCEPT ![k] = h]
  BY DEF LookUp, first
<1> HIDE DEF g, h
<1>7. Fits(h, DOMAIN actions)
  BY <1>1, <1>2, <1>3, <1>5 DEF Fits
<1>8. ASSUME Looked(g) PROVE Looked(h)
  <2>1. ASSUME NEW i \in 1..(first - 1), Wrapper(The(k), i)
        PROVE  Live(The(k).urls[i], The(k)) = {}
    <3>1. i \in Nat /\ i >= 1 /\ ~(first <= i)
      BY <1>3, <2>1
    <3>2. ~(i >= g.url)
      BY <1>3, <2>1, <3>1
    <3>3. i \in 1..(g.url - 1)
      BY <1>2, <3>1, <3>2
    <3> QED BY <1>1, <1>2, <1>8, <2>1, <3>3 DEF Looked
  <2> QED BY <1>1, <1>4, <1>5, <2>1 DEF Looked
<1> QED BY <1>5, <1>6, <1>7, <1>8 DEF Goes, g

LEMMA ReplaceGoes ==
  ASSUME TInv, NEW k \in Consumer, handler[k].at # "idle", handler[k].dest # {}, Replace(k),
         Looked(handler[k]) => Unanswered(The(k))
  PROVE  \E h : Goes(k, h) /\ h.at = "create"
<1> DEFINE rule == The(k).urls[Min(handler[k].dest)]
<1>1. Min(handler[k].dest) \in handler[k].dest
  BY InWork, MinIsIn
<1>2. Wrapper(The(k), Min(handler[k].dest))
  BY <1>1, InWork DEF Fits, The
<1>3. rule \in Rule /\ May(rule, The(k))
  BY <1>2, InWork, ContentType DEF Wrapper, Rule, May
<1>4. Plan(k, rule, "replace")
  BY DEF Replace
<1> HIDE DEF rule
<1> QED BY <1>3, <1>4, PlanGoes DEF Kind

LEMMA LinksGoes ==
  ASSUME TInv, NEW k \in Consumer, Links(k)
  PROVE  \E h : Goes(k, h) /\ h.at \in {"resolve", "suppress", "preview", "create", "complete"}
<1>1. handler[k].at = "links" /\ The(k).only \in BOOLEAN
  BY InWork, ContentType DEF Links, At
<1>2. CASE Ahead(k) # {}
  <2>1. Unless(k, The(k).urls[Min(Ahead(k))], LookUp(k))
    BY <1>2 DEF Links
  <2> QED BY <1>1, <1>2, <2>1, UnlessGoes, LookUpGoes DEF Unless
<1>3. CASE Ahead(k) = {} /\ The(k).only
  <2>1. Unless(k, "link-preview", Goto(k, "preview"))
    BY <1>3 DEF Links
  <2>2. CASE Live("link-preview", The(k)) = {} /\ Goto(k, "preview")
    BY <1>1, <1>3, <2>2, AllLookedUp, GotoGoes
  <2> QED BY <1>1, <2>1, <2>2, UnlessGoes DEF Unless
<1>4. CASE Ahead(k) = {} /\ ~The(k).only
  <2>1. IF handler[k].dest = {} THEN Goto(k, "complete") ELSE Replace(k)
    BY <1>1, <1>4 DEF Links
  <2>2. Looked(handler[k]) => Unanswered(The(k))
    BY <1>1, <1>4, AllLookedUp
  <2> QED BY <1>1, <2>1, <2>2, GotoGoes, ReplaceGoes
<1> QED BY <1>1, <1>2, <1>3, <1>4

LEMMA SandboxGoes ==
  ASSUME TInv, NEW k \in Consumer, Sandbox(k)
  PROVE  \E h : Goes(k, h) /\ h.at \in {"create", "links"}
<1>1. handler[k].at = "sandbox"
  BY DEF Sandbox, At
<1>2. CASE Plan(k, "newcomer-sandbox", "delete")
  BY <1>1, <1>2, PlanGoes DEF Rule, Kind, May
<1>3. CASE handler' = [handler EXCEPT ![k] = [@ EXCEPT !.at = "links", !.url = 1]]
  <2> DEFINE g == handler[k]
             h == [g EXCEPT !.at = "links", !.url = 1]
  <2>1. g \in Doing /\ Fits(g, DOMAIN actions)
    BY InWork
  <2>2. /\ h \in Doing /\ h.at = "links" /\ h.update = g.update /\ h.rule = g.rule
        /\ h.kind = g.kind /\ h.dest = g.dest /\ h.action = g.action /\ h.url = 1
    BY <2>1 DEF Doing, Stage
  <2>3. handler' = [handler EXCEPT ![k] = h]
    BY <1>3
  <2> HIDE DEF g, h
  <2>4. Fits(h, DOMAIN actions)
    BY <1>1, <2>1, <2>2 DEF Fits, g
  <2>5. Looked(h)
    BY <2>2 DEF Looked
  <2> QED BY <2>2, <2>3, <2>4, <2>5 DEF Goes, g
<1> QED BY <1>2, <1>3 DEF Sandbox

LEMMA ResolveGoes ==
  ASSUME TInv, NEW k \in Consumer, Resolve(k)
  PROVE  \E h : Goes(k, h) /\ h.at \in {"complete", "links"}
<1>1. handler[k].at = "resolve"
  BY DEF Resolve, At
<1>2. ASSUME NEW found \in {{}, {handler[k].url}},
             handler' = [handler EXCEPT ![k] = [@ EXCEPT !.at = "links", !.url = handler[k].url + 1,
                                                 !.dest = handler[k].dest \cup found]]
      PROVE  \E h : Goes(k, h) /\ h.at = "links"
  <2> DEFINE g == handler[k]
             u == g.url + 1
             d == g.dest \cup found
             h == [g EXCEPT !.at = "links", !.url = u, !.dest = d]
  <2>1. g \in Doing /\ Fits(g, DOMAIN actions)
    BY InWork
  <2>2. g.url \in Nat /\ g.url >= 1 /\ Wrapper(g.update.content, g.url) /\ g.dest \subseteq Nat
    BY <1>1, <2>1 DEF Fits, Doing
  <2>3. u \in Nat /\ d \in SUBSET Nat
    BY <2>2
  <2>4. handler' = [handler EXCEPT ![k] = h]
    BY <1>2
  <2> HIDE DEF u, d
  <2>5. /\ h \in Doing /\ h.at = "links" /\ h.update = g.update /\ h.rule = g.rule
        /\ h.kind = g.kind /\ h.dest = d /\ h.action = g.action /\ h.url = u
    BY <2>1, <2>3 DEF Doing, Stage
  <2> HIDE DEF h
  <2>6. Fits(h, DOMAIN actions)
    BY <1>1, <1>2, <2>1, <2>2, <2>5 DEF Fits, u, d
  <2>7. ASSUME Looked(g) PROVE Looked(h)
    <3>1. \A i \in 1..(h.url - 1) : i \in 1..(g.url - 1) \/ i = g.url
      BY <2>2, <2>5 DEF u
    <3> QED BY <1>1, <2>5, <2>7, <3>1 DEF Looked
  <2> QED BY <2>5, <2>4, <2>6, <2>7 DEF Goes
<1> QED BY <1>1, <1>2, GotoGoes DEF Resolve

LEMMA PreviewGoes ==
  ASSUME TInv, NEW k \in Consumer, Preview(k)
  PROVE  \E h : Goes(k, h) /\ h.at \in {"create", "complete"}
<1>1. handler[k].at = "preview" /\ The(k).only
  BY InWork DEF Preview, At, Fits, The
<1>2. Looked(handler[k]) => Unanswered(The(k))
  BY <1>1 DEF Looked, The
<1>3. ASSUME NEW kind \in Kind, Plan(k, "link-preview", kind)
      PROVE  \E h : Goes(k, h) /\ h.at = "create"
  <2>1. May("link-preview", The(k)) /\ "link-preview" \in Rule
    BY <1>1 DEF May, Rule
  <2> QED BY <1>1, <1>2, <1>3, <2>1, PlanGoes
<1>4. \/ Plan(k, "link-preview", "delete") \/ Plan(k, "link-preview", "reply")
      \/ handler[k].dest # {} /\ Replace(k)
      \/ Goto(k, "complete")
  BY DEF Preview
<1> QED BY <1>1, <1>2, <1>3, <1>4, ReplaceGoes, GotoGoes DEF Kind

LEMMA DecideGoes ==
  ASSUME TInv, NEW k \in Consumer, Decide(k)
  PROVE  /\ \E h : Goes(k, h) /\ h.at \notin {"idle", "fail", "record"}
         /\ handler[k].at \in {"sandbox", "links", "resolve", "preview"}
         /\ UNCHANGED <<message, updates, processed, actions, suppressed, sandboxed,
                        restarts, faults>>
<1>1. /\ handler[k].at \in {"sandbox", "links", "resolve", "preview"}
      /\ UNCHANGED <<Stored, Bounds>>
  BY DEF Decide, Sandbox, Links, Resolve, Preview, At
<1>2. \E h : Goes(k, h) /\ h.at \notin {"idle", "fail", "record"}
  BY SandboxGoes, LinksGoes, ResolveGoes, PreviewGoes DEF Decide
<1> QED BY <1>1, <1>2 DEF Stored, Bounds
-----------------------------------------------------------------------------
(* The other steps, as far as the types go.                                *)

LEMMA IdleFits ==
  ASSUME NEW u \in Update \cup {NoUpdate}, NEW ids
  PROVE  /\ [Idle EXCEPT !.update = u] \in Doing
         /\ Fits([Idle EXCEPT !.update = u], ids)
         /\ [Idle EXCEPT !.update = u].at = "idle"
         /\ [Idle EXCEPT !.update = u].update = u
BY DEF Idle, Doing, Stage, Fits

LEMMA TakenFits ==
  ASSUME NEW u \in Update, NEW ids
  PROVE  /\ [Idle EXCEPT !.at = "sandbox", !.update = u] \in Doing
         /\ Fits([Idle EXCEPT !.at = "sandbox", !.update = u], ids)
         /\ [Idle EXCEPT !.at = "sandbox", !.update = u].at = "sandbox"
         /\ [Idle EXCEPT !.at = "sandbox", !.update = u].update = u
BY DEF Idle, Doing, Stage, Fits

\* What no step but an insert does to the actions.
SameActions ==
  /\ actions' \in Seq(Canonical) /\ DOMAIN actions' = DOMAIN actions
  /\ \A a \in DOMAIN actions :
       /\ actions'[a].rule = actions[a].rule /\ actions'[a].fingerprint = actions[a].fingerprint
       /\ actions'[a].source = actions[a].source /\ actions'[a].left <= actions[a].left

\* A message goes only as the source of a or the message of u.
Removes(S) ==
  /\ message' \in [Message -> Posted]
  /\ \A m \in Message : /\ message'[m].version = message[m].version
                        /\ message'[m].gone => message[m].gone \/ m \in S

LEMMA ActionType ==
  ASSUME TInv, NEW a \in DOMAIN actions
  PROVE  /\ actions[a] \in Canonical /\ actions[a].left \in Nat
         /\ actions[a].source \in Message /\ a \in Nat /\ a # 0
<1>1. actions \in Seq(Canonical)
  BY DEF TInv, TypeOK
<1>2. actions[a] \in Canonical /\ a \in Nat /\ a # 0
  BY <1>1
<1> QED BY <1>2, ModerationAssumption DEF Canonical

LEMMA UnchangedActions ==
  ASSUME TInv, actions' = actions PROVE SameActions
<1>1. \A a \in DOMAIN actions : actions[a].left <= actions[a].left
  BY ActionType
<1> QED BY <1>1 DEF SameActions, TInv, TypeOK

LEMMA UnchangedMessage ==
  ASSUME TInv, message' = message, NEW S PROVE Removes(S)
BY DEF Removes, TInv, TypeOK

LEMMA StateChanges ==
  ASSUME TInv, NEW a \in DOMAIN actions, NEW state \in {"answered", "dead"},
         actions' = [actions EXCEPT ![a].state = state]
  PROVE  SameActions
<1> DEFINE b == [actions[a] EXCEPT !.state = state]
<1>1. actions \in Seq(Canonical) /\ actions[a] \in Canonical
  BY DEF TInv, TypeOK
<1>2. /\ b \in Canonical /\ b.rule = actions[a].rule /\ b.fingerprint = actions[a].fingerprint
      /\ b.source = actions[a].source /\ b.left = actions[a].left
  BY <1>1 DEF Canonical
<1>3. actions' = [actions EXCEPT ![a] = b]
  OBVIOUS
<1> HIDE DEF b
<1>4. /\ actions' \in Seq(Canonical) /\ DOMAIN actions' = DOMAIN actions
      /\ \A c \in DOMAIN actions : actions'[c] = IF c = a THEN b ELSE actions[c]
  BY <1>1, <1>2, <1>3
<1>5. \A c \in DOMAIN actions : actions[c].left <= actions[c].left
  BY ActionType
<1> QED BY <1>2, <1>4, <1>5 DEF SameActions

LEMMA GoneMessage ==
  ASSUME TInv, NEW m \in Message, message' = [message EXCEPT ![m].gone = TRUE]
  PROVE  Removes({m}) /\ message'[m].gone
<1> DEFINE p == [message[m] EXCEPT !.gone = TRUE]
<1>1. message \in [Message -> Posted] /\ message[m] \in Posted
  BY DEF TInv, TypeOK
<1>2. p \in Posted /\ p.version = message[m].version /\ p.gone
  BY <1>1 DEF Posted
<1>3. message' = [message EXCEPT ![m] = p]
  OBVIOUS
<1> HIDE DEF p
<1> QED BY <1>1, <1>2, <1>3 DEF Removes

\* An action is answered or given up.
LEMMA Delivered ==
  ASSUME TInv, NEW a \in DOMAIN actions, Answer(a) \/ GiveUp(a)
  PROVE  SameActions /\ Removes({actions[a].source})
<1>1. PICK state \in {"answered", "dead"} : actions' = [actions EXCEPT ![a].state = state]
  BY DEF Answer, GiveUp
<1>2. SameActions
  BY <1>1, StateChanges
<1>3. CASE message' = message
  BY <1>2, <1>3, UnchangedMessage
<1>4. CASE message' = [message EXCEPT ![actions[a].source].gone = TRUE]
  BY <1>2, <1>4, ActionType, GoneMessage
<1> QED BY <1>3, <1>4 DEF Answer, GiveUp

LEMMA TypesStay ==
  ASSUME TInv, message' \in [Message -> Posted], updates' \in Seq(Update),
         processed' \in [Message -> [Version -> Claim]], SameActions,
         suppressed' \subseteq (DOMAIN actions) \X Message,
         \/ handler' = handler
         \/ \E k \in Consumer, h \in Doing :
              Fits(h, DOMAIN actions) /\ handler' = [handler EXCEPT ![k] = h],
         sandboxed' \in BOOLEAN, restarts' \in 0..MaxRestarts, faults' \in 0..MaxFaults
  PROVE  TInv'
<1>1. DOMAIN actions' = DOMAIN actions
  BY DEF SameActions
<1>2. /\ handler' \in [Consumer -> Doing]
      /\ \A j \in Consumer :
           /\ Fits(handler'[j], DOMAIN actions')
           /\ handler'[j].dest \subseteq DOMAIN handler'[j].update.content.urls
           /\ handler'[j].action \in DOMAIN actions' \cup {0}
  <2>1. CASE handler' = handler
    BY <1>1, <2>1 DEF TInv, TypeOK, The
  <2>2. CASE handler' # handler
    BY <1>1, <2>2, OneMoves
  <2> QED BY <2>1, <2>2
<1>3. RulesFit'
  BY DEF TInv, RulesFit, SameActions
<1>4. TypeOK'
  BY <1>1, <1>2 DEF TypeOK, SameActions, The
<1> QED BY <1>2, <1>3, <1>4 DEF TInv
\* What the types say of the variables a step leaves alone.
LEMMA StayTyped ==
  ASSUME TInv
  PROVE  /\ message \in [Message -> Posted] /\ updates \in Seq(Update)
         /\ processed \in [Message -> [Version -> Claim]]
         /\ suppressed \subseteq (DOMAIN actions) \X Message
         /\ sandboxed \in BOOLEAN /\ restarts \in 0..MaxRestarts /\ faults \in 0..MaxFaults
BY DEF TInv, TypeOK

LEMMA FaultCounts ==
  ASSUME TInv, faults < MaxFaults PROVE faults + 1 \in 0..MaxFaults
BY ModerationAssumption DEF TInv, TypeOK

LEMMA RestartCounts ==
  ASSUME TInv, restarts < MaxRestarts PROVE restarts + 1 \in 1..MaxRestarts
BY ModerationAssumption DEF TInv, TypeOK

\* Only the handler moves: a decision, the lookup before an insert, a failing
\* store call.
Thinks(k) ==
  /\ \E h : /\ Goes(k, h) /\ h.at \notin {"idle", "record"}
            /\ h.at # "fail" => handler[k].at \notin {"record", "fail"}
  /\ handler[k].at # "idle"
  /\ UNCHANGED <<message, updates, processed, actions, suppressed, restarts>>
  /\ sandboxed' = sandboxed /\ faults' \in 0..MaxFaults

\* The handler goes to stage `at' and nothing but messages of S, and the state
\* of actions, may change.
Removing(k, at, S) ==
  /\ \E h : Goes(k, h) /\ h.at = at
  /\ SameActions /\ Removes(S)
  /\ UNCHANGED <<updates, processed, suppressed, restarts>>
  /\ sandboxed' = sandboxed /\ faults' \in 0..MaxFaults

\* The update is dropped, for the next one or for nothing.
Drops(k) ==
  /\ \E u \in Update \cup {NoUpdate} :
       handler' = [handler EXCEPT ![k] = [Idle EXCEPT !.update = u]]
  /\ updates' \in {updates, Tail(updates)} /\ (updates' # updates => updates # <<>>)
  /\ UNCHANGED <<message, processed, actions, suppressed, restarts>>
  /\ sandboxed' = sandboxed /\ faults' \in 0..MaxFaults

LEMMA ThinksTypes ==
  ASSUME TInv, NEW k \in Consumer, Thinks(k) PROVE TInv'
<1>1. PICK h : Goes(k, h)
  BY DEF Thinks
<1> QED BY <1>1, StayTyped, UnchangedActions, TypesStay DEF Thinks, Goes

LEMMA RemovingTypes ==
  ASSUME TInv, NEW k \in Consumer, NEW at, NEW S, Removing(k, at, S) PROVE TInv'
<1>1. PICK h : Goes(k, h)
  BY DEF Removing
<1> QED BY <1>1, StayTyped, TypesStay DEF Removing, Goes, Removes

LEMMA TailTypes ==
  ASSUME TInv, updates # <<>>
  PROVE  /\ Head(updates) \in Update /\ Tail(updates) \in Seq(Update)
         /\ Len(updates) \in Nat \ {0} /\ Head(updates) = updates[1]
         /\ DOMAIN updates = 1..Len(updates)
         /\ DOMAIN Tail(updates) = 1..(Len(updates) - 1)
         /\ \A i \in 1..(Len(updates) - 1) :
              Tail(updates)[i] = updates[i + 1] /\ i + 1 \in DOMAIN updates
BY DEF TInv, TypeOK

LEMMA DropsTypes ==
  ASSUME TInv, NEW k \in Consumer, Drops(k) PROVE TInv'
<1>1. PICK u \in Update \cup {NoUpdate} :
        handler' = [handler EXCEPT ![k] = [Idle EXCEPT !.update = u]]
  BY DEF Drops
<1> DEFINE h == [Idle EXCEPT !.update = u]
<1>2. h \in Doing /\ Fits(h, DOMAIN actions) /\ handler' = [handler EXCEPT ![k] = h]
  BY <1>1, IdleFits
<1> HIDE DEF h
<1>3. updates' \in Seq(Update)
  BY StayTyped, TailTypes DEF Drops
<1> QED BY <1>2, <1>3, StayTyped, UnchangedActions, TypesStay DEF Drops

LEMMA FaultsSplit ==
  ASSUME TInv, NEW k \in Consumer, Faults(k)
  PROVE  \/ Thinks(k)
         \/ Drops(k)
         \/ handler[k].at = "suppress" /\ Removing(k, "fail", {handler[k].update.message})
<1>1. faults' \in 0..MaxFaults /\ sandboxed' = sandboxed /\ UNCHANGED <<processed, actions, suppressed, restarts>>
  BY FaultCounts DEF Faults
<1>2. CASE /\ At(k, "idle") /\ updates # <<>> /\ updates' = Tail(updates)
           /\ handler' = [handler EXCEPT ![k] = [Idle EXCEPT !.update = Head(updates)]]
           /\ UNCHANGED message
  BY <1>1, <1>2, TailTypes DEF Drops
<1>3. CASE /\ At(k, "suppress") /\ Goto(k, "fail")
           /\ Remove(k) \/ UNCHANGED message
           /\ UNCHANGED updates
  <2>1. handler[k].at = "suppress" /\ handler[k].update.message \in Message
    BY <1>3, InWork DEF At, Update
  <2>2. \E h : Goes(k, h) /\ h.at = "fail"
    BY <1>3, <2>1, GotoGoes
  <2>3. Removes({handler[k].update.message})
    BY <1>3, <2>1, GoneMessage, UnchangedMessage DEF Remove
  <2> QED BY <1>1, <1>3, <2>1, <2>2, <2>3, UnchangedActions DEF Removing
<1>4. CASE /\ handler[k].at \in {"sandbox", "links", "create", "deliver", "record"}
           /\ Goto(k, "fail") /\ UNCHANGED <<updates, message>>
  <2>1. \E h : Goes(k, h) /\ h.at = "fail"
    BY <1>4, GotoGoes
  <2> QED BY <1>1, <1>4, <2>1 DEF Thinks
<1>5. CASE /\ handler[k].at \in {"complete", "fail"}
           /\ handler' = [handler EXCEPT ![k] = [Idle EXCEPT !.update = handler[k].update]]
           /\ UNCHANGED <<updates, message>>
  <2>1. handler[k].update \in Update \cup {NoUpdate}
    BY InWork DEF Doing
  <2> QED BY <1>1, <1>5, <2>1 DEF Drops
<1> QED BY <1>2, <1>3, <1>4, <1>5 DEF Faults

LEMMA DecideThinks ==
  ASSUME TInv, NEW k \in Consumer, Decide(k) PROVE Thinks(k)
<1>1. PICK h : Goes(k, h) /\ h.at \notin {"idle", "fail", "record"}
  BY DecideGoes
<1>2. /\ handler[k].at \in {"sandbox", "links", "resolve", "preview"}
      /\ UNCHANGED <<message, updates, processed, actions, suppressed, sandboxed, restarts, faults>>
  BY DecideGoes
<1>3. faults' \in 0..MaxFaults /\ sandboxed' = sandboxed
  BY <1>2, StayTyped
<1> QED BY <1>1, <1>2, <1>3 DEF Thinks

LEMMA CreateSplits ==
  ASSUME TInv, NEW k \in Consumer, CreateCanonical(k)
  PROVE  Thinks(k) \/ (Live(handler[k].rule, The(k)) = {} /\ Insert(k))
<1>1. handler[k].at = "create"
  BY DEF CreateCanonical, At
<1>2. ASSUME Unless(k, handler[k].rule, FALSE), UNCHANGED actions PROVE Thinks(k)
  <2>1. PICK h : Goes(k, h) /\ h.at = "suppress"
    BY <1>1, <1>2, UnlessGoes DEF Unless
  <2>2. UNCHANGED <<message, updates, processed, actions, suppressed, restarts>>
    BY <1>2 DEF CreateCanonical, Bounds
  <2>3. faults' \in 0..MaxFaults /\ sandboxed' = sandboxed
    BY StayTyped DEF CreateCanonical, Bounds
  <2> QED BY <1>1, <2>1, <2>2, <2>3 DEF Thinks
<1> QED BY <1>2 DEF CreateCanonical
LEMMA Inserted ==
  ASSUME TInv, NEW k \in Consumer, handler[k].at = "create", Insert(k),
         UNCHANGED <<message, updates, processed, suppressed, Bounds>>
  PROVE  /\ TInv'
         /\ DOMAIN actions' = DOMAIN actions \cup {Len(actions) + 1}
         /\ \A a \in DOMAIN actions : actions'[a] = actions[a]
         /\ actions'[Len(actions) + 1] = NewAction(k)
         /\ Len(actions) + 1 \notin DOMAIN actions
<1> DEFINE g == handler[k]
           n == Len(actions) + 1
           h == [g EXCEPT !.at = "deliver", !.action = n]
           new == NewAction(k)
<1>1. g \in Doing /\ Fits(g, DOMAIN actions) /\ g.at = "create" /\ g.update.content = The(k)
  BY InWork DEF The
<1>2. /\ g.update \in Update /\ g.rule \in Rule /\ g.kind \in Kind
      /\ May(g.rule, g.update.content)
  BY <1>1 DEF Fits
<1>3. /\ new \in Canonical /\ new.rule = g.rule /\ new.fingerprint = Fingerprint(g.update.content)
  <2>1. g.update.content \in Content
    BY <1>2 DEF Update
  <2>2. PICK f : f = Fingerprint(g.update.content)
    OBVIOUS
  <2>3. f \in {Fingerprint(c) : c \in Content}
    BY <2>1, <2>2
  <2>4. new = [rule |-> g.rule, fingerprint |-> f, kind |-> g.kind,
               source |-> g.update.message, version |-> g.update.version,
               left |-> TTL, state |-> "pending"]
    BY <1>1, <2>2 DEF NewAction
  <2> HIDE DEF new
  <2>5. new \in Canonical
    BY <1>2, <2>3, <2>4, ModerationAssumption DEF Canonical, Update
  <2> QED BY <2>2, <2>4, <2>5
<1>4. actions \in Seq(Canonical)
  BY DEF TInv, TypeOK
<1>5. actions' = Append(actions, new)
  BY DEF Insert
<1> HIDE DEF new
<1>6. /\ actions' \in Seq(Canonical) /\ n \in Nat /\ n # 0 /\ n \notin DOMAIN actions
      /\ DOMAIN actions' = DOMAIN actions \cup {n} /\ actions'[n] = new
      /\ \A a \in DOMAIN actions : actions'[a] = actions[a]
  BY <1>3, <1>4, <1>5
<1>7. handler' = [handler EXCEPT ![k] = h]
  BY DEF Insert
<1> HIDE DEF n
<1>8. /\ h \in Doing /\ h.at = "deliver" /\ h.update = g.update /\ h.rule = g.rule
      /\ h.kind = g.kind /\ h.dest = g.dest /\ h.action = n
  BY <1>1, <1>6 DEF Doing, Stage
<1> HIDE DEF g, h
<1>9. Fits(h, DOMAIN actions')
  BY <1>1, <1>2, <1>6, <1>8 DEF Fits
<1>10. /\ handler' \in [Consumer -> Doing]
       /\ \A j \in Consumer :
            /\ Fits(handler'[j], DOMAIN actions')
            /\ handler'[j].dest \subseteq DOMAIN handler'[j].update.content.urls
            /\ handler'[j].action \in DOMAIN actions' \cup {0}
  BY <1>6, <1>7, <1>8, <1>9, OneMoves
<1>11. RulesFit'
  <2>1. \A a \in DOMAIN actions : May(actions'[a].rule, actions'[a].fingerprint)
    BY <1>6 DEF TInv, RulesFit
  <2>2. May(actions'[n].rule, actions'[n].fingerprint)
    BY <1>2, <1>3, <1>6, FingerprintKeeps DEF Update
  <2> QED BY <1>6, <2>1, <2>2 DEF RulesFit
<1>12. TypeOK'
  <2>1. /\ message' \in [Message -> Posted] /\ updates' \in Seq(Update)
        /\ processed' \in [Message -> [Version -> Claim]]
        /\ sandboxed' \in BOOLEAN /\ restarts' \in 0..MaxRestarts /\ faults' \in 0..MaxFaults
    BY StayTyped DEF Bounds
  <2>2. suppressed' \subseteq (DOMAIN actions') \X Message
    BY <1>6, StayTyped
  <2> QED BY <1>6, <1>10, <2>1, <2>2 DEF TypeOK, The
<1> QED BY <1>6, <1>10, <1>11, <1>12 DEF TInv, n, new

LEMMA DeliverRemoves ==
  ASSUME TInv, NEW k \in Consumer, Deliver(k)
  PROVE  /\ handler[k].action \in DOMAIN actions
         /\ Removing(k, "complete", {actions[handler[k].action].source})
<1>1. handler[k].at = "deliver" /\ Goto(k, "complete") /\ handler[k].action \in DOMAIN actions
  BY InWork DEF Deliver, At, Fits
<1>2. PICK h : Goes(k, h) /\ h.at = "complete"
  BY <1>1, GotoGoes
<1>3. SameActions /\ Removes({actions[handler[k].action].source})
  BY <1>1, Delivered, UnchangedActions, UnchangedMessage DEF Deliver
<1>4. UNCHANGED <<updates, processed, suppressed, sandboxed, restarts, faults>>
  BY DEF Deliver, Bounds
<1> QED BY <1>1, <1>2, <1>3, <1>4, StayTyped DEF Removing

LEMMA SuppressRemoves ==
  ASSUME TInv, NEW k \in Consumer, Suppress(k)
  PROVE  /\ handler[k].at = "suppress"
         /\ \/ Removing(k, "record", {handler[k].update.message})
            \/ /\ Removing(k, "complete", {})
               /\ ~message[handler[k].update.message].gone
<1>1. handler[k].at = "suppress" /\ handler[k].update.message \in Message
  BY InWork DEF Suppress, At, Update
<1>2. UNCHANGED <<updates, processed, actions, suppressed, sandboxed, restarts, faults>>
  BY DEF Suppress, Bounds
<1>3. SameActions
  BY <1>2, UnchangedActions
<1>4. CASE Remove(k) /\ Goto(k, "record")
  <2>1. Removes({handler[k].update.message})
    BY <1>1, <1>4, GoneMessage DEF Remove
  <2>2. PICK h : Goes(k, h) /\ h.at = "record"
    BY <1>1, <1>4, GotoGoes
  <2> QED BY <1>1, <1>2, <1>3, <2>1, <2>2, StayTyped DEF Removing
<1>5. CASE /\ ~message[handler[k].update.message].gone
           /\ Goto(k, "complete") /\ UNCHANGED message
  <2>1. Removes({})
    BY <1>5, UnchangedMessage
  <2>2. PICK h : Goes(k, h) /\ h.at = "complete"
    BY <1>1, <1>5, GotoGoes
  <2> QED BY <1>1, <1>2, <1>3, <1>5, <2>1, <2>2, StayTyped DEF Removing
<1> QED BY <1>4, <1>5 DEF Suppress

LEMMA RecordTypes ==
  ASSUME TInv, NEW k \in Consumer, RecordSuppressed(k)
  PROVE  /\ TInv' /\ handler[k].at = "record" /\ handler[k].action \in DOMAIN actions
         /\ \E h : Goes(k, h) /\ h.at = "complete"
<1>1. /\ handler[k].at = "record" /\ handler[k].action \in DOMAIN actions
      /\ handler[k].update.message \in Message
  BY InWork DEF RecordSuppressed, At, Fits, Update
<1>2. PICK h : Goes(k, h) /\ h.at = "complete"
  BY <1>1, GotoGoes DEF RecordSuppressed
<1>3. suppressed' \subseteq (DOMAIN actions) \X Message
  BY <1>1, StayTyped DEF RecordSuppressed
<1>4. UNCHANGED <<message, updates, processed, actions, sandboxed, restarts, faults>>
  BY DEF RecordSuppressed, Bounds
<1>5. SameActions
  BY <1>4, UnchangedActions
<1>6. TInv'
  BY <1>2, <1>3, <1>4, <1>5, StayTyped, TypesStay DEF Goes
<1> QED BY <1>1, <1>2, <1>6

LEMMA EndTypes ==
  ASSUME TInv, NEW k \in Consumer, NEW state \in Terminal, handler[k].at # "idle", End(k, state)
  PROVE  TInv'
<1> DEFINE u == handler[k].update
           h == [Idle EXCEPT !.update = u]
<1>1. u \in Update
  BY InWork
<1>2. h \in Doing /\ Fits(h, DOMAIN actions) /\ handler' = [handler EXCEPT ![k] = h]
  BY <1>1, IdleFits DEF End
<1>3. processed' \in [Message -> [Version -> Claim]]
  BY <1>1, RowWritten DEF End, TInv
<1>4. UNCHANGED <<message, updates, actions, suppressed, sandboxed, restarts, faults>>
  BY DEF End, Bounds
<1> HIDE DEF h
<1> QED BY <1>2, <1>3, <1>4, StayTyped, UnchangedActions, TypesStay

LEMMA TakeTypes ==
  ASSUME TInv, NEW k \in Consumer, Take(k)
  PROVE  TInv'
<1> DEFINE u == Head(updates)
<1>1. /\ u \in Update /\ updates' \in Seq(Update)
      /\ UNCHANGED <<message, actions, suppressed, sandboxed, restarts, faults>>
  BY TailTypes DEF Take
<1>2. \E h \in Doing : Fits(h, DOMAIN actions) /\ handler' = [handler EXCEPT ![k] = h]
  BY <1>1, IdleFits, TakenFits DEF Take
<1>3. processed' \in [Message -> [Version -> Claim]]
  <2>1. processed' = processed \/ WriteRow(u, "processing")
    BY DEF Take
  <2> QED BY <1>1, <2>1, StayTyped, RowWritten DEF TInv
<1> QED BY <1>1, <1>2, <1>3, StayTyped, UnchangedActions, TypesStay

LEMMA RestartTypes ==
  ASSUME TInv, NEW k \in Consumer, Restart(k)
  PROVE  TInv'
<1>1. Idle \in Doing /\ Fits(Idle, DOMAIN actions)
  BY DEF Idle, Doing, Stage, Fits
<1>2. handler[k].update \in Update
  BY InWork DEF Restart, Doing
<1>3. updates' \in Seq(Update)
  <2>1. updates \in Seq(Update) /\ <<handler[k].update>> \in Seq(Update)
    BY <1>2, StayTyped
  <2>2. <<handler[k].update>> \o updates \in Seq(Update)
    BY <2>1, ConcatProperties
  <2> QED BY <2>1, <2>2 DEF Restart
<1>4. restarts' \in 0..MaxRestarts
  BY RestartCounts DEF Restart
<1>5. handler' = [handler EXCEPT ![k] = Idle]
      /\ UNCHANGED <<message, processed, actions, suppressed, sandboxed, faults>>
  BY DEF Restart
<1> QED BY <1>1, <1>3, <1>4, <1>5, StayTyped, UnchangedActions, TypesStay
LEMMA WriteTypes ==
  ASSUME TInv, NEW m \in Message, Write(m)
  PROVE  /\ TInv'
         /\ \E c \in Content :
              /\ message[m].version + 1 \in Version
              /\ updates' = Append(updates, [message |-> m, version |-> message[m].version + 1,
                                             content |-> c])
         /\ message'[m].version = message[m].version + 1 /\ ~message'[m].gone
         /\ \A n \in Message \ {m} : message'[n] = message[n]
<1>1. PICK c \in Content :
        /\ message[m].version < MaxVersion
        /\ message' = [message EXCEPT ![m] = [version |-> @.version + 1, content |-> c,
                                              gone |-> FALSE]]
        /\ updates' = Append(updates, [message |-> m, version |-> message[m].version + 1,
                                       content |-> c])
        /\ UNCHANGED <<processed, actions, suppressed, handler, sandboxed, restarts, faults>>
  BY DEF Write
<1> DEFINE v == message[m].version + 1
           p == [version |-> v, content |-> c, gone |-> FALSE]
           u == [message |-> m, version |-> v, content |-> c]
<1>2. message \in [Message -> Posted] /\ message[m].version \in 0..MaxVersion
  BY StayTyped DEF Posted
<1>3. v \in 1..MaxVersion
  BY <1>1, <1>2, ModerationAssumption
<1>4. p \in Posted /\ u \in Update
  BY <1>1, <1>3 DEF Posted, Update, Version
<1>5. message' = [message EXCEPT ![m] = p] /\ updates' = Append(updates, u)
  BY <1>1
<1> HIDE DEF v
<1>6. p.version = v /\ ~p.gone
  OBVIOUS
<1> HIDE DEF p, u
<1>7. message' \in [Message -> Posted] /\ updates' \in Seq(Update)
  BY <1>2, <1>4, <1>5, StayTyped
<1>8. TInv'
  BY <1>1, <1>7, StayTyped, UnchangedActions, TypesStay
<1>9. message'[m] = p /\ \A n \in Message \ {m} : message'[n] = message[n]
  BY <1>2, <1>5
<1> QED BY <1>1, <1>3, <1>5, <1>6, <1>8, <1>9 DEF v, u, Version

LEMMA TickTypes ==
  ASSUME TInv, Tick
  PROVE  /\ TInv' /\ SameActions
         /\ \A m \in Message, v \in Version : processed'[m][v].state = processed[m][v].state
         /\ UNCHANGED <<message, updates, suppressed, handler, restarts>>
<1>1. actions \in Seq(Canonical) /\ processed \in [Message -> [Version -> Claim]]
  BY DEF TInv, TypeOK
<1>2. \A n \in Nat : CountDown(n) \in Nat /\ CountDown(n) <= n
  BY DEF CountDown
<1>3. ASSUME NEW r \in Canonical
      PROVE  LET s == [r EXCEPT !.left = CountDown(@)] IN
             /\ s \in Canonical /\ s.rule = r.rule /\ s.fingerprint = r.fingerprint
             /\ s.source = r.source /\ s.left <= r.left
  <2> DEFINE n == CountDown(r.left)
             s == [r EXCEPT !.left = n]
  <2>1. r.left \in 0..TTL
    BY DEF Canonical
  <2>2. n \in 0..TTL /\ n <= r.left
    BY <1>2, <2>1, ModerationAssumption
  <2> HIDE DEF n
  <2>3. /\ s \in Canonical /\ s.rule = r.rule /\ s.fingerprint = r.fingerprint
        /\ s.source = r.source /\ s.left = n
    BY <2>2 DEF Canonical
  <2> QED BY <2>2, <2>3 DEF n
<1>4. ASSUME NEW r \in Claim
      PROVE  LET s == [r EXCEPT !.wait = CountDown(@)] IN s \in Claim /\ s.state = r.state
  <2> DEFINE n == CountDown(r.wait)
             s == [r EXCEPT !.wait = n]
  <2>1. r.wait \in 0..ClaimWait
    BY DEF Claim
  <2>2. n \in 0..ClaimWait
    BY <1>2, <2>1, ModerationAssumption
  <2> HIDE DEF n
  <2>3. s \in Claim /\ s.state = r.state
    BY <2>2 DEF Claim
  <2> QED BY <2>3 DEF n
<1>5. /\ actions' = [a \in DOMAIN actions |-> [actions[a] EXCEPT !.left = CountDown(@)]]
      /\ processed' = [m \in Message |-> [v \in Version |->
                         [processed[m][v] EXCEPT !.wait = CountDown(@)]]]
      /\ UNCHANGED <<message, updates, suppressed, handler, sandboxed, restarts, faults>>
  BY DEF Tick, Bounds
<1>6. /\ Len(actions) \in Nat /\ DOMAIN actions = 1..Len(actions)
      /\ \A a \in DOMAIN actions : actions[a] \in Canonical
  BY <1>1
<1>7. SameActions
  <2>1. \A a \in DOMAIN actions : actions'[a] = [actions[a] EXCEPT !.left = CountDown(@)]
    BY <1>5
  <2>2. \A a \in DOMAIN actions :
          /\ actions'[a] \in Canonical
          /\ actions'[a].rule = actions[a].rule /\ actions'[a].fingerprint = actions[a].fingerprint
          /\ actions'[a].source = actions[a].source /\ actions'[a].left <= actions[a].left
    BY <1>3, <1>6, <2>1
  <2>3. actions' \in [1..Len(actions) -> Canonical]
    BY <1>5, <1>6, <2>2
  <2>4. actions' \in Seq(Canonical)
    BY <1>6, <2>3
  <2>5. DOMAIN actions' = DOMAIN actions
    BY <1>5
  <2> QED BY <2>2, <2>4, <2>5 DEF SameActions
<1>8. /\ processed' \in [Message -> [Version -> Claim]]
      /\ \A m \in Message, v \in Version : processed'[m][v].state = processed[m][v].state
  <2>1. \A m \in Message, v \in Version :
          processed'[m][v] = [processed[m][v] EXCEPT !.wait = CountDown(@)]
    BY <1>5
  <2>2. \A m \in Message, v \in Version :
          processed'[m][v] \in Claim /\ processed'[m][v].state = processed[m][v].state
    <3> SUFFICES ASSUME NEW m \in Message, NEW v \in Version
                 PROVE  /\ processed'[m][v] \in Claim
                        /\ processed'[m][v].state = processed[m][v].state
      OBVIOUS
    <3>1. processed[m][v] \in Claim
      BY <1>1
    <3> QED BY <1>4, <2>1, <3>1
  <2> QED BY <1>5, <2>2
<1>9. TInv'
  BY <1>5, <1>7, <1>8, StayTyped, TypesStay
<1> QED BY <1>5, <1>7, <1>8, <1>9

\* The worker's step on an action.
LEMMA OutboxTypes ==
  ASSUME TInv, NEW a \in DOMAIN actions, Outbox(a)
  PROVE  /\ TInv' /\ SameActions /\ Removes({actions[a].source})
         /\ UNCHANGED <<updates, processed, suppressed, handler, restarts>>
<1>1. SameActions /\ Removes({actions[a].source})
  BY Delivered DEF Outbox
<1>2. UNCHANGED <<updates, processed, suppressed, handler, sandboxed, restarts, faults>>
  BY DEF Outbox
<1>3. message' \in [Message -> Posted]
  BY <1>1 DEF Removes
<1>4. TInv'
  BY <1>1, <1>2, <1>3, StayTyped, TypesStay
<1> QED BY <1>1, <1>2, <1>4
LEMMA SandboxTypes ==
  ASSUME TInv, SandboxTurns
  PROVE  TInv' /\ UNCHANGED <<message, updates, processed, actions, suppressed, handler, restarts>>
<1>1. /\ UNCHANGED <<message, updates, processed, actions, suppressed, handler, restarts, faults>>
      /\ sandboxed' \in BOOLEAN
  BY ModerationAssumption DEF SandboxTurns
<1> QED BY <1>1, StayTyped, UnchangedActions, TypesStay

\* Every step but an insert keeps the actions.
LEMMA NextSplits ==
  ASSUME TInv, Next
  PROVE  /\ TInv'
         /\ \/ SameActions
            \/ \E k \in Consumer :
                 /\ handler[k].at = "create" /\ Live(handler[k].rule, The(k)) = {} /\ Insert(k)
                 /\ UNCHANGED <<message, updates, processed, suppressed, Bounds>>
<1>1. ASSUME NEW m \in Message, Write(m) PROVE TInv' /\ SameActions
  BY <1>1, WriteTypes, UnchangedActions DEF Write
<1>2. CASE SandboxTurns
  BY <1>2, SandboxTypes, UnchangedActions
<1>3. ASSUME NEW k \in Consumer, Thinks(k) PROVE TInv' /\ SameActions
  BY <1>3, ThinksTypes, UnchangedActions DEF Thinks
<1>4. ASSUME NEW k \in Consumer, Drops(k) PROVE TInv' /\ SameActions
  BY <1>4, DropsTypes, UnchangedActions DEF Drops
<1>5. ASSUME NEW k \in Consumer, NEW at, NEW S, Removing(k, at, S) PROVE TInv' /\ SameActions
  BY <1>5, RemovingTypes DEF Removing
<1>6. ASSUME NEW k \in Consumer, Take(k) PROVE TInv' /\ SameActions
  BY <1>6, TakeTypes, UnchangedActions DEF Take
<1>7. ASSUME NEW k \in Consumer, Decide(k) PROVE TInv' /\ SameActions
  BY <1>3, <1>7, DecideThinks
<1>8. ASSUME NEW k \in Consumer, CreateCanonical(k)
      PROVE  TInv' /\ (\/ SameActions
                       \/ /\ handler[k].at = "create" /\ Live(handler[k].rule, The(k)) = {}
                          /\ Insert(k)
                          /\ UNCHANGED <<message, updates, processed, suppressed, Bounds>>)
  <2>1. /\ handler[k].at = "create"
        /\ UNCHANGED <<message, updates, processed, suppressed, Bounds>>
    BY <1>8 DEF CreateCanonical, At
  <2>2. CASE Thinks(k)
    BY <1>3, <2>2
  <2>3. CASE Live(handler[k].rule, The(k)) = {} /\ Insert(k)
    BY <2>1, <2>3, Inserted
  <2> QED BY <1>8, <2>2, <2>3, CreateSplits
<1>9. ASSUME NEW k \in Consumer, Deliver(k) \/ Suppress(k) PROVE TInv' /\ SameActions
  BY <1>5, <1>9, DeliverRemoves, SuppressRemoves
<1>10. ASSUME NEW k \in Consumer, RecordSuppressed(k) PROVE TInv' /\ SameActions
  BY <1>10, RecordTypes, UnchangedActions DEF RecordSuppressed
<1>11. ASSUME NEW k \in Consumer, Finish(k) PROVE TInv' /\ SameActions
  <2>1. PICK state \in Terminal : handler[k].at # "idle" /\ End(k, state)
    BY <1>11 DEF Finish, CompleteUpdate, FailUpdate, At, Terminal
  <2> QED BY <2>1, EndTypes, UnchangedActions DEF End
<1>12. ASSUME NEW k \in Consumer, Faults(k) PROVE TInv' /\ SameActions
  BY <1>3, <1>4, <1>5, <1>12, FaultsSplit
<1>13. ASSUME NEW k \in Consumer, Restart(k) PROVE TInv' /\ SameActions
  BY <1>13, RestartTypes, UnchangedActions DEF Restart
<1>14. ASSUME NEW a \in DOMAIN actions, Outbox(a) PROVE TInv' /\ SameActions
  BY <1>14, OutboxTypes
<1>15. CASE Tick
  BY <1>15, TickTypes
<1> QED BY <1>1, <1>2, <1>6, <1>7, <1>8, <1>9, <1>10, <1>11, <1>12, <1>13, <1>14, <1>15
        DEF Next, Act

LEMMA InitTypes == Init => TInv
<1> SUFFICES ASSUME Init PROVE TInv
  OBVIOUS
<1>1. /\ handler = [k \in Consumer |-> Idle]
      /\ Idle \in Doing /\ Fits(Idle, {}) /\ Idle.dest = {} /\ Idle.action = 0
  BY DEF Init, Idle, Doing, Stage, Fits
<1>2. actions = <<>> /\ actions \in Seq(Canonical) /\ DOMAIN actions = {}
  BY DEF Init
<1>3. message \in [Message -> Posted]
  <2>1. [version |-> 0, content |-> NoContent, gone |-> FALSE] \in Posted
    BY ModerationAssumption DEF Posted
  <2> QED BY <2>1 DEF Init
<1>4. processed \in [Message -> [Version -> Claim]]
  <2>1. [state |-> "none", wait |-> 0] \in Claim
    BY ModerationAssumption DEF Claim
  <2> QED BY <2>1 DEF Init
<1>5. /\ updates \in Seq(Update) /\ suppressed \subseteq (DOMAIN actions) \X Message
      /\ sandboxed \in BOOLEAN /\ restarts \in 0..MaxRestarts /\ faults \in 0..MaxFaults
  BY ModerationAssumption DEF Init
<1>6. TypeOK
  BY <1>1, <1>2, <1>3, <1>4, <1>5 DEF TypeOK
<1> QED BY <1>1, <1>2, <1>6 DEF TInv, RulesFit

LEMMA TypesInvariant == Spec => []TInv
<1>1. TInv /\ [Next]_vars => TInv'
  <2>1. TInv /\ UNCHANGED vars => TInv'
    BY DEF vars, TInv, TypeOK, RulesFit, The
  <2> QED BY <2>1, NextSplits
<1> QED BY <1>1, InitTypes, PTL DEF Spec

\* The rows of processed_updates, canonical_actions and suppressed_reposts stay what
\* their code reads them as, for any number of consumers, restarts and faults.
THEOREM ModerationTypeCorrect == Spec => []TypeOK
<1>1. TInv => TypeOK
  BY DEF TInv
<1> QED BY <1>1, TypesInvariant, PTL

\* The unique key of canonical_actions and the re-read in CreateCanonical let no two
\* consumers, however many there are, answer one content under one rule twice
\* while the first action suppresses reposts.
THEOREM OneActionPerRule == Spec => []OneLivePerRule
<1>1. Init => OneLivePerRule
  BY DEF Init, OneLivePerRule
<1>2. TInv /\ OneLivePerRule /\ [Next]_vars => OneLivePerRule'
  <2> SUFFICES ASSUME TInv, OneLivePerRule, Next PROVE OneLivePerRule'
    BY DEF vars, OneLivePerRule
  <2>1. CASE SameActions
    <3> SUFFICES ASSUME NEW a \in DOMAIN actions, NEW b \in DOMAIN actions,
                        actions'[a].left > 0, actions'[b].left > 0,
                        actions'[a].rule = actions'[b].rule,
                        actions'[a].fingerprint = actions'[b].fingerprint
                 PROVE  a = b
      BY <2>1 DEF OneLivePerRule, SameActions
    <3>1. /\ actions[a].rule = actions[b].rule /\ actions[a].fingerprint = actions[b].fingerprint
          /\ actions'[a].left <= actions[a].left /\ actions'[b].left <= actions[b].left
      BY <2>1 DEF SameActions
    <3>2. /\ actions[a].left \in Nat /\ actions[b].left \in Nat
          /\ actions'[a].left \in Nat /\ actions'[b].left \in Nat
      <4>1. actions' \in Seq(Canonical) /\ DOMAIN actions' = DOMAIN actions
        BY <2>1 DEF SameActions
      <4>2. actions'[a] \in Canonical /\ actions'[b] \in Canonical
        BY <4>1
      <4> QED BY <4>2, ActionType, ModerationAssumption DEF Canonical
    <3> QED BY <3>1, <3>2 DEF OneLivePerRule
  <2>2. ASSUME NEW k \in Consumer, handler[k].at = "create",
               Live(handler[k].rule, The(k)) = {}, Insert(k),
               UNCHANGED <<message, updates, processed, suppressed, Bounds>>
        PROVE  OneLivePerRule'
    <3>1. /\ DOMAIN actions' = DOMAIN actions \cup {Len(actions) + 1}
          /\ \A a \in DOMAIN actions : actions'[a] = actions[a]
          /\ actions'[Len(actions) + 1].rule = handler[k].rule
          /\ actions'[Len(actions) + 1].fingerprint = Fingerprint(The(k))
      <4>1. NewAction(k).rule = handler[k].rule /\ NewAction(k).fingerprint = Fingerprint(The(k))
        BY DEF NewAction
      <4> QED BY <2>2, <4>1, Inserted
    <3>2. \A a \in DOMAIN actions :
            ~(/\ actions[a].rule = handler[k].rule /\ actions[a].fingerprint = Fingerprint(The(k))
              /\ actions[a].left > 0)
      BY <2>2 DEF Live
    <3> QED BY <3>1, <3>2 DEF OneLivePerRule
  <2> QED BY <2>1, <2>2, NextSplits
<1> QED BY <1>1, <1>2, TypesInvariant, PTL DEF Spec
-----------------------------------------------------------------------------
(* One consumer: what it does, step by step.                               *)

Single == \A j, k \in Consumer : j = k

Inserts(k) ==
  /\ handler[k].at = "create" /\ Live(handler[k].rule, The(k)) = {} /\ Insert(k)
  /\ UNCHANGED <<message, updates, processed, suppressed, Bounds>>

Delivers(k) ==
  /\ handler[k].at = "deliver" /\ handler[k].action \in DOMAIN actions
  /\ Removing(k, "complete", {actions[handler[k].action].source})

Suppresses(k) ==
  /\ handler[k].at = "suppress"
  /\ \/ \E at \in {"record", "fail"} : Removing(k, at, {handler[k].update.message})
     \/ Removing(k, "complete", {}) /\ ~message[handler[k].update.message].gone

Records(k) ==
  /\ handler[k].at = "record" /\ handler[k].action \in DOMAIN actions
  /\ \E h : Goes(k, h) /\ h.at = "complete"
  /\ RecordSuppressed(k)

Claims(k) ==
  LET u == Head(updates) IN
  /\ handler[k].at = "idle" /\ updates # <<>> /\ updates' = Tail(updates)
  /\ ClaimUpdate(Row(u)) /\ WriteRow(u, "processing")
  /\ handler' = [handler EXCEPT ![k] = [Idle EXCEPT !.at = "sandbox", !.update = u]]
  /\ UNCHANGED <<message, actions, suppressed, sandboxed, restarts, faults>>

Ends(k) ==
  \/ handler[k].at = "complete" /\ End(k, "complete")
  \/ handler[k].at = "fail" /\ End(k, "failed")

LEMMA ConsumerKinds ==
  ASSUME TInv, NEW k \in Consumer,
         Take(k) \/ Decide(k) \/ Act(k) \/ Finish(k) \/ Faults(k) \/ Restart(k)
  PROVE  \/ Thinks(k) \/ Drops(k) \/ Inserts(k) \/ Delivers(k)
         \/ Suppresses(k) \/ Records(k) \/ Claims(k) \/ Ends(k) \/ Restart(k)
<1>1. CASE Take(k)
  <2>1. Head(updates) \in Update
    BY <1>1, TailTypes DEF Take
  <2>2. CASE ClaimUpdate(Row(Head(updates)))
    BY <1>1, <2>2 DEF Take, Claims
  <2>3. CASE ~ClaimUpdate(Row(Head(updates)))
    <3>1. faults' \in 0..MaxFaults
      BY <1>1, StayTyped DEF Take
    <3> QED BY <1>1, <2>1, <2>3, <3>1 DEF Take, Drops
  <2> QED BY <2>2, <2>3
<1>2. CASE Decide(k)
  BY <1>2, DecideThinks
<1>3. CASE CreateCanonical(k)
  BY <1>3, CreateSplits DEF Inserts, CreateCanonical, At
<1>4. CASE Deliver(k)
  BY <1>4, DeliverRemoves DEF Delivers, Deliver, At
<1>5. CASE Suppress(k)
  BY <1>5, SuppressRemoves DEF Suppresses
<1>6. CASE RecordSuppressed(k)
  BY <1>6, RecordTypes DEF Records
<1>7. CASE Finish(k)
  BY <1>7 DEF Finish, CompleteUpdate, FailUpdate, At, Ends
<1>8. CASE Faults(k)
  BY <1>8, FaultsSplit DEF Suppresses
<1> QED BY <1>1, <1>2, <1>3, <1>4, <1>5, <1>6, <1>7, <1>8 DEF Act

LEMMA NextKinds ==
  ASSUME TInv, Next
  PROVE  \/ \E m \in Message : Write(m)
         \/ SandboxTurns
         \/ \E a \in DOMAIN actions : Outbox(a)
         \/ Tick
         \/ \E k \in Consumer :
              \/ Thinks(k) \/ Drops(k) \/ Inserts(k) \/ Delivers(k)
              \/ Suppresses(k) \/ Records(k) \/ Claims(k) \/ Ends(k) \/ Restart(k)
BY ConsumerKinds DEF Next

-----------------------------------------------------------------------------
(* A content is answered once.                                             *)

LookInv == OneLivePerContent /\ \A k \in Consumer : Looked(handler[k])

\* What was ruled out stays so while no action is inserted.
LEMMA LookedStays ==
  ASSUME TInv, SameActions, NEW k \in Consumer, NEW h, Looked(h), handler'[k] = h
  PROVE  Looked(handler[k])'
<1>1. actions' \in Seq(Canonical) /\ DOMAIN actions' = DOMAIN actions
  BY DEF SameActions
<1>2. \A a \in DOMAIN actions :
        /\ actions[a].left \in Nat /\ actions'[a].left \in Nat
        /\ actions'[a].left <= actions[a].left
        /\ actions'[a].rule = actions[a].rule /\ actions'[a].fingerprint = actions[a].fingerprint
  <2> SUFFICES ASSUME NEW a \in DOMAIN actions
               PROVE  actions[a].left \in Nat /\ actions'[a].left \in Nat
    BY DEF SameActions
  <2>1. actions'[a] \in Canonical
    BY <1>1
  <2> QED BY <2>1, ActionType, ModerationAssumption DEF Canonical
<1>3. \A rule, c : Live(rule, c)' \subseteq Live(rule, c)
  BY <1>1, <1>2 DEF Live
<1>4. \A c : Unanswered(c) => Unanswered(c)'
  BY <1>1, <1>2 DEF Unanswered
<1> QED BY <1>3, <1>4 DEF Looked

HandlerMoves ==
  \A k \in Consumer : \/ handler'[k] = handler[k]
                      \/ Goes(k, handler'[k])
                      \/ handler'[k].at \in {"idle", "sandbox"}

LEMMA GoesMoves ==
  ASSUME TInv, NEW k \in Consumer, NEW h, Goes(k, h)
  PROVE  HandlerMoves /\ handler'[k] = h
<1>1. handler \in [Consumer -> Doing] /\ handler' = [handler EXCEPT ![k] = h]
  BY DEF TInv, TypeOK, Goes
<1>2. handler'[k] = h /\ \A j \in Consumer \ {k} : handler'[j] = handler[j]
  BY <1>1
<1> QED BY <1>2 DEF HandlerMoves

LEMMA ResetMoves ==
  ASSUME TInv, NEW k \in Consumer, NEW h \in Doing, h.at \in {"idle", "sandbox"},
         handler' = [handler EXCEPT ![k] = h]
  PROVE  HandlerMoves /\ handler'[k] = h
<1>1. handler \in [Consumer -> Doing]
  BY DEF TInv, TypeOK
<1>2. handler'[k] = h /\ \A j \in Consumer \ {k} : handler'[j] = handler[j]
  BY <1>1
<1> QED BY <1>2 DEF HandlerMoves

\* Every step inserts an action, or keeps them and moves handlers by what they know.
LEMMA StepMoves ==
  ASSUME TInv, Next
  PROVE  \/ SameActions /\ HandlerMoves
         \/ \E k \in Consumer : Inserts(k)
<1>1. CASE handler' = handler
  BY <1>1, NextSplits DEF HandlerMoves, Inserts
<1>2. ASSUME NEW k \in Consumer, Thinks(k) \/ Delivers(k) \/ Suppresses(k) \/ Records(k)
      PROVE  HandlerMoves
  <2>1. PICK h : Goes(k, h)
    BY <1>2 DEF Thinks, Delivers, Suppresses, Records, Removing
  <2> QED BY <2>1, GoesMoves
<1>3. ASSUME NEW k \in Consumer, Drops(k) PROVE HandlerMoves
  <2>1. PICK u \in Update \cup {NoUpdate} :
          handler' = [handler EXCEPT ![k] = [Idle EXCEPT !.update = u]]
    BY <1>3 DEF Drops
  <2> DEFINE h == [Idle EXCEPT !.update = u]
  <2>2. h \in Doing /\ h.at = "idle" /\ handler' = [handler EXCEPT ![k] = h]
    BY <2>1, IdleFits
  <2> HIDE DEF h
  <2> QED BY <2>2, ResetMoves
<1>4. ASSUME NEW k \in Consumer, Claims(k) PROVE HandlerMoves
  <2>1. Head(updates) \in Update
    BY <1>4, TailTypes DEF Claims
  <2> DEFINE h == [Idle EXCEPT !.at = "sandbox", !.update = Head(updates)]
  <2>2. h \in Doing /\ h.at = "sandbox" /\ handler' = [handler EXCEPT ![k] = h]
    BY <1>4, <2>1, TakenFits DEF Claims
  <2> HIDE DEF h
  <2> QED BY <2>2, ResetMoves
<1>5. ASSUME NEW k \in Consumer, Ends(k) PROVE HandlerMoves
  <2>1. handler[k].update \in Update \cup {NoUpdate}
    BY InWork DEF Doing
  <2>2. handler' = [handler EXCEPT ![k] = [Idle EXCEPT !.update = handler[k].update]]
    BY <1>5 DEF Ends, End
  <2> DEFINE h == [Idle EXCEPT !.update = handler[k].update]
  <2>3. h \in Doing /\ h.at = "idle" /\ handler' = [handler EXCEPT ![k] = h]
    BY <2>1, <2>2, IdleFits
  <2> HIDE DEF h
  <2> QED BY <2>3, ResetMoves
<1>6. ASSUME NEW k \in Consumer, Restart(k) PROVE HandlerMoves
  <2> DEFINE h == Idle
  <2>1. h \in Doing /\ h.at = "idle" /\ handler' = [handler EXCEPT ![k] = h]
    BY <1>6 DEF Idle, Restart, Doing, Stage
  <2> HIDE DEF h
  <2> QED BY <2>1, ResetMoves
<1>7. CASE \/ \E m \in Message : Write(m)
           \/ SandboxTurns
           \/ \E a \in DOMAIN actions : Outbox(a)
           \/ Tick
  <2>1. handler' = handler
    BY <1>7 DEF Write, SandboxTurns, Outbox, Tick
  <2> QED BY <1>1, <2>1
<1> QED BY <1>2, <1>3, <1>4, <1>5, <1>6, <1>7, NextKinds, NextSplits DEF Inserts

LEMMA LookedInvariant ==
  ASSUME Single
  PROVE  TInv /\ LookInv /\ [Next]_vars => LookInv'
<1> SUFFICES ASSUME TInv, LookInv, Next PROVE LookInv'
  BY DEF vars, LookInv, OneLivePerContent, Looked, Live, Unanswered, The, Fingerprint
<1>1. CASE SameActions /\ HandlerMoves
  <2>1. OneLivePerContent'
    <3> SUFFICES ASSUME NEW a \in DOMAIN actions, NEW b \in DOMAIN actions,
                        actions'[a].left > 0, actions'[b].left > 0,
                        actions'[a].rule # "newcomer-sandbox",
                        actions'[b].rule # "newcomer-sandbox",
                        actions'[a].fingerprint = actions'[b].fingerprint
                 PROVE  a = b
      BY <1>1 DEF OneLivePerContent, SameActions
    <3>1. /\ actions[a].rule = actions'[a].rule /\ actions[b].rule = actions'[b].rule
          /\ actions[a].fingerprint = actions[b].fingerprint
          /\ actions'[a].left <= actions[a].left /\ actions'[b].left <= actions[b].left
      BY <1>1 DEF SameActions
    <3>2. /\ actions[a].left \in Nat /\ actions[b].left \in Nat
          /\ actions'[a].left \in Nat /\ actions'[b].left \in Nat
      <4>1. actions' \in Seq(Canonical) /\ DOMAIN actions' = DOMAIN actions
        BY <1>1 DEF SameActions
      <4>2. actions'[a] \in Canonical /\ actions'[b] \in Canonical
        BY <4>1
      <4> QED BY <4>2, ActionType, ModerationAssumption DEF Canonical
    <3> QED BY <3>1, <3>2 DEF LookInv, OneLivePerContent
  <2>2. ASSUME NEW k \in Consumer PROVE Looked(handler[k])'
    <3>1. CASE handler'[k] = handler[k] \/ Goes(k, handler'[k])
      <4>1. PICK h : h = handler'[k]
        OBVIOUS
      <4>2. Looked(h)
        BY <3>1, <4>1 DEF LookInv, Goes
      <4> QED BY <1>1, <4>1, <4>2, LookedStays
    <3>2. CASE handler'[k].at \in {"idle", "sandbox"}
      BY <3>2 DEF Looked
    <3> QED BY <1>1, <3>1, <3>2 DEF HandlerMoves
  <2> QED BY <2>1, <2>2 DEF LookInv
<1>2. ASSUME NEW k \in Consumer, Inserts(k) PROVE LookInv'
  <2>1. /\ DOMAIN actions' = DOMAIN actions \cup {Len(actions) + 1}
        /\ \A a \in DOMAIN actions : actions'[a] = actions[a]
        /\ actions'[Len(actions) + 1] = NewAction(k)
    BY <1>2, Inserted DEF Inserts
  <2>2. NewAction(k).rule = handler[k].rule /\ NewAction(k).fingerprint = Fingerprint(The(k))
    BY DEF NewAction
  <2>3. handler[k].rule # "newcomer-sandbox" => Unanswered(The(k))
    BY <1>2 DEF LookInv, Looked, Inserts, The
  <2>4. handler[k].rule # "newcomer-sandbox" =>
          \A a \in DOMAIN actions :
            ~(/\ actions[a].fingerprint = Fingerprint(The(k)) /\ actions[a].rule # "newcomer-sandbox"
              /\ actions[a].left > 0)
    BY <2>3 DEF Unanswered
  <2>5. OneLivePerContent'
    BY <2>1, <2>2, <2>4 DEF LookInv, OneLivePerContent
  <2>6. handler'[k].at = "deliver"
    BY <1>2, InWork DEF Inserts, Insert, TInv, TypeOK, Doing
  <2>7. \A j \in Consumer : Looked(handler[j])'
    BY <2>6 DEF Single, Looked
  <2> QED BY <2>5, <2>7 DEF LookInv
<1> QED BY <1>1, <1>2, StepMoves

\* With the one process that the deployment runs, a content that was answered is
\* answered no second time while the first action suppresses reposts, however its
\* URLs resolve or its preview loads: moderateLinks has looked up every rule that
\* could answer it before CreateCanonical.
THEOREM OneActionPerContent ==
  ASSUME Single
  PROVE  Spec => []OneLivePerContent
<1>1. Init => LookInv
  <2>1. Idle.at = "idle"
    BY DEF Idle
  <2> QED BY <2>1 DEF Init, LookInv, OneLivePerContent, Looked
<1>2. LookInv => OneLivePerContent
  BY DEF LookInv
<1> QED BY <1>1, <1>2, LookedInvariant, TypesInvariant, PTL DEF Spec
-----------------------------------------------------------------------------
(* A version is judged once.                                               *)

\* Only the two writes of a claim change the state of a row.
RowsKept ==
  \A m \in Message, v \in Version : processed'[m][v].state = processed[m][v].state

\* How one consumer's stage and update go on.
Follows(k) ==
  /\ handler[k].at # "idle" /\ handler'[k].update = handler[k].update

LEMMA GoesFollows ==
  ASSUME TInv, NEW k \in Consumer,
         Thinks(k) \/ Delivers(k) \/ Suppresses(k) \/ Records(k) \/ Inserts(k)
  PROVE  Follows(k) /\ processed' = processed
<1>1. processed' = processed /\ handler[k].at # "idle"
  BY DEF Thinks, Delivers, Suppresses, Records, Inserts, Removing, RecordSuppressed
<1>2. CASE Inserts(k)
  BY <1>1, <1>2, InWork DEF Follows, Inserts, Insert, TInv, TypeOK, Doing
<1>3. ASSUME NEW h, Goes(k, h) PROVE Follows(k)
  <2>1. handler'[k] = h
    BY <1>3, GoesMoves
  <2> QED BY <1>1, <1>3, <2>1 DEF Goes, Follows
<1>4. \/ Inserts(k)
      \/ \E h : Goes(k, h)
  BY DEF Thinks, Delivers, Suppresses, Records, Removing
<1> QED BY <1>1, <1>2, <1>3, <1>4

LEMMA StopsIdle ==
  ASSUME TInv, NEW k \in Consumer, Drops(k) \/ Ends(k) \/ Restart(k)
  PROVE  handler'[k].at = "idle"
<1>0. handler \in [Consumer -> Doing] /\ handler[k].update \in Update \cup {NoUpdate}
  BY InWork DEF TInv, TypeOK, Doing
<1>1. CASE Restart(k)
  <2>1. handler' = [handler EXCEPT ![k] = Idle]
    BY <1>1 DEF Restart
  <2> QED BY <1>0, <2>1 DEF Idle
<1>2. CASE Drops(k) \/ Ends(k)
  <2>1. PICK u \in Update \cup {NoUpdate} :
          handler' = [handler EXCEPT ![k] = [Idle EXCEPT !.update = u]]
    BY <1>0, <1>2 DEF Drops, Ends, End
  <2>2. [Idle EXCEPT !.update = u].at = "idle"
    BY IdleFits
  <2> QED BY <1>0, <2>1, <2>2
<1> QED BY <1>1, <1>2

LEMMA ClaimWrites ==
  ASSUME TInv, NEW k \in Consumer, Claims(k)
  PROVE  LET u == Head(updates) IN
         /\ u \in Update /\ handler'[k].update = u /\ handler'[k].at = "sandbox"
         /\ Row(u).state \notin Terminal
         /\ \A m \in Message, v \in Version :
              processed'[m][v].state = IF m = u.message /\ v = u.version THEN "processing"
                                       ELSE processed[m][v].state
<1> DEFINE u == Head(updates)
<1>1. u \in Update /\ WriteRow(u, "processing")
  BY TailTypes DEF Claims
<1>2. handler \in [Consumer -> Doing]
  BY DEF TInv, TypeOK
<1>3. handler' = [handler EXCEPT ![k] = [Idle EXCEPT !.at = "sandbox", !.update = u]]
  BY DEF Claims
<1>4. handler'[k].update = u /\ handler'[k].at = "sandbox"
  BY <1>1, <1>2, <1>3, TakenFits
<1>5. Row(u).state \notin Terminal
  BY DEF Claims, ClaimUpdate, Terminal
<1>6. TypeOK
  BY DEF TInv
<1> HIDE DEF u
<1>7. \A m \in Message, v \in Version :
        processed'[m][v].state = IF m = u.message /\ v = u.version THEN "processing"
                                 ELSE processed[m][v].state
  BY <1>1, <1>6, RowWritten
<1> QED BY <1>1, <1>4, <1>5, <1>7 DEF u

LEMMA EndWrites ==
  ASSUME TInv, NEW k \in Consumer, Ends(k)
  PROVE  LET u == handler[k].update IN
         /\ u \in Update /\ handler[k].at \in {"complete", "fail"}
         /\ \A m \in Message, v \in Version :
              processed'[m][v].state =
                IF m = u.message /\ v = u.version
                THEN (IF handler[k].at = "complete" THEN "complete" ELSE "failed")
                ELSE processed[m][v].state
<1> DEFINE u == handler[k].update
           state == IF handler[k].at = "complete" THEN "complete" ELSE "failed"
<1>1. handler[k].at \in {"complete", "fail"} /\ WriteRow(u, state) /\ state \in Terminal
  BY DEF Ends, End, Terminal
<1>2. u \in Update
  BY <1>1, InWork
<1>3. TypeOK
  BY DEF TInv
<1> HIDE DEF u, state
<1>4. \A m \in Message, v \in Version :
        processed'[m][v].state = IF m = u.message /\ v = u.version THEN state
                                 ELSE processed[m][v].state
  BY <1>1, <1>2, <1>3, RowWritten
<1> QED BY <1>1, <1>2, <1>4 DEF u, state

LEMMA WorldKeepsRows ==
  ASSUME TInv,
         \/ \E m \in Message : Write(m)
         \/ SandboxTurns
         \/ \E a \in DOMAIN actions : Outbox(a)
         \/ Tick
  PROVE  handler' = handler /\ RowsKept
<1>1. CASE Tick
  BY <1>1, TickTypes DEF RowsKept
<1>2. CASE ~Tick
  BY <1>2 DEF Write, SandboxTurns, Outbox, RowsKept
<1> QED BY <1>1, <1>2

LEMMA ClaimedInvariant ==
  ASSUME Single
  PROVE  TInv /\ Claimed /\ [Next]_vars => Claimed'
<1> SUFFICES ASSUME TInv, Claimed, Next PROVE Claimed'
  BY DEF vars, Claimed, Row
<1>1. TInv'
  BY NextSplits
<1>2. CASE handler' = handler /\ RowsKept
  <2> SUFFICES ASSUME NEW k \in Consumer, handler[k].at # "idle"
               PROVE  Row(handler[k].update)'.state = "processing"
    BY <1>2 DEF Claimed
  <2>1. handler[k].update \in Update /\ Row(handler[k].update).state = "processing"
    BY InWork DEF Claimed
  <2> QED BY <1>2, <2>1 DEF RowsKept, Row, Update
<1>3. ASSUME NEW k \in Consumer, Follows(k), processed' = processed PROVE Claimed'
  BY <1>3 DEF Single, Follows, Claimed, Row
<1>4. ASSUME NEW k \in Consumer, Drops(k) \/ Ends(k) \/ Restart(k) PROVE Claimed'
  BY <1>4, StopsIdle DEF Single, Claimed
<1>5. ASSUME NEW k \in Consumer, Claims(k) PROVE Claimed'
  <2>1. PICK u : u = Head(updates)
    OBVIOUS
  <2>2. u \in Update /\ handler'[k].update = u /\ processed'[u.message][u.version].state = "processing"
    BY <1>5, <2>1, ClaimWrites DEF Update
  <2> QED BY <2>2 DEF Single, Claimed, Row
<1> QED BY <1>2, <1>3, <1>4, <1>5, NextKinds, WorldKeepsRows, GoesFollows

LEMMA InitClaimed == Init => Claimed
<1>1. Idle.at = "idle"
  BY DEF Idle
<1> QED BY <1>1 DEF Init, Claimed

\* With one consumer a message version whose judgement was recorded is never judged
\* again: ClaimUpdate takes over unfinished claims only, whatever Telegram repeats
\* after restarts, and CompleteUpdate and FailUpdate write the row claimed.
THEOREM VersionsAreJudgedOnce ==
  ASSUME Single
  PROVE  Spec => JudgedOnce
<1>1. TInv /\ Claimed /\ [Next]_vars =>
        [\A m \in Message, v \in Version :
           processed[m][v].state \in Terminal => processed'[m][v].state = processed[m][v].state]_vars
  <2> SUFFICES ASSUME TInv, Claimed, Next, NEW m \in Message, NEW v \in Version,
                      processed[m][v].state \in Terminal
               PROVE  processed'[m][v].state = processed[m][v].state
    OBVIOUS
  <2>1. CASE RowsKept
    BY <2>1 DEF RowsKept
  <2>2. ASSUME NEW k \in Consumer, Claims(k)
        PROVE  processed'[m][v].state = processed[m][v].state
    BY <2>2, ClaimWrites DEF Row
  <2>3. ASSUME NEW k \in Consumer, Ends(k)
        PROVE  processed'[m][v].state = processed[m][v].state
    <3>1. handler[k].at # "idle" /\ "processing" \notin Terminal
      BY <2>3, EndWrites DEF Terminal
    <3>2. Row(handler[k].update).state = "processing"
      BY <3>1 DEF Claimed
    <3> QED BY <2>3, <3>1, <3>2, EndWrites DEF Row
  <2>4. ASSUME NEW k \in Consumer, Drops(k) \/ Restart(k) PROVE RowsKept
    BY <2>4 DEF Drops, Restart, RowsKept
  <2>5. ASSUME NEW k \in Consumer,
               Thinks(k) \/ Delivers(k) \/ Suppresses(k) \/ Records(k) \/ Inserts(k)
        PROVE  RowsKept
    BY <2>5, GoesFollows DEF RowsKept
  <2> QED BY <2>1, <2>2, <2>3, <2>4, <2>5, NextKinds, WorldKeepsRows
<1> QED BY <1>1, InitClaimed, ClaimedInvariant, TypesInvariant, PTL DEF Spec, JudgedOnce
-----------------------------------------------------------------------------
(* Deletions are accounted for.                                            *)

LEMMA RestartsKept ==
  ASSUME TInv, Next
  PROVE  \/ \E k \in Consumer : Restart(k)
         \/ restarts' = restarts
BY NextKinds, TickTypes, OutboxTypes
   DEF Write, SandboxTurns, Thinks, Drops, Inserts, Bounds, Delivers, Suppresses,
       Removing, Records, RecordSuppressed, Claims, Ends, End

LEMMA RestartsCounted ==
  ASSUME TInv, NEW k \in Consumer, Restart(k) PROVE restarts' # 0
BY DEF Restart, TInv, TypeOK

\* The queue only gets shorter, and no row of what is left in it changes.
LEMMA FreshKept ==
  ASSUME TInv, Fresh, restarts = 0,
         \A m \in Message : message'[m].version = message[m].version,
         updates' = updates \/ (updates # <<>> /\ updates' = Tail(updates)),
         \A m \in Message, v \in Version :
           \/ processed'[m][v].state = processed[m][v].state
           \/ /\ ~(v > message[m].version)
              /\ \A i \in DOMAIN updates' : ~(updates'[i].message = m /\ updates'[i].version = v)
  PROVE  Fresh'
<1> DEFINE d == IF updates' = updates THEN 0 ELSE 1
<1>1. updates \in Seq(Update) /\ DOMAIN updates = 1..Len(updates) /\ Len(updates) \in Nat
  BY StayTyped
<1>2. /\ d \in {0, 1}
      /\ updates' \in Seq(Update)
      /\ \A i \in DOMAIN updates' : i \in Nat /\ i + d \in DOMAIN updates /\ updates'[i] = updates[i + d]
  <2>1. CASE updates' = updates
    BY <1>1, <2>1
  <2>2. CASE updates' # updates
    <3>1. d = 1 /\ updates # <<>> /\ updates' = Tail(updates)
      BY <2>2
    <3>2. /\ Tail(updates) \in Seq(Update)
          /\ DOMAIN Tail(updates) = 1..(Len(updates) - 1)
          /\ \A i \in 1..(Len(updates) - 1) :
               Tail(updates)[i] = updates[i + 1] /\ i + 1 \in DOMAIN updates
      BY <3>1, TailTypes
    <3>3. \A i \in 1..(Len(updates) - 1) : i \in Nat
      BY <1>1
    <3> HIDE DEF d
    <3> QED BY <3>1, <3>2, <3>3
  <2> QED BY <2>1, <2>2
<1> HIDE DEF d
<1>3. \A m \in Message, v \in Version :
        v > message'[m].version => processed'[m][v].state = "none"
  BY DEF Fresh
<1>4. ASSUME NEW i \in DOMAIN updates'
      PROVE  /\ processed'[updates'[i].message][updates'[i].version].state = "none"
             /\ updates'[i].version <= message'[updates'[i].message].version
  <2>1. updates'[i] \in Update
    BY <1>2
  <2>2. /\ updates'[i].message \in Message /\ updates'[i].version \in Version
        /\ Row(updates'[i]).state = "none"
        /\ updates'[i].version <= message[updates'[i].message].version
    BY <1>2, <2>1 DEF Fresh, Update
  <2> QED BY <2>2 DEF Row
<1>5. ASSUME NEW i \in DOMAIN updates', NEW j \in DOMAIN updates',
             updates'[i].message = updates'[j].message, updates'[i].version = updates'[j].version
      PROVE  i = j
  <2>1. i + d = j + d
    BY <1>2, <1>5 DEF Fresh
  <2> QED BY <1>2, <2>1
<1> QED BY <1>3, <1>4, <1>5 DEF Fresh, Row

LEMMA WriteFresh ==
  ASSUME TInv, Fresh, restarts = 0, NEW m \in Message, Write(m)
  PROVE  Fresh'
<1>1. PICK c \in Content :
        /\ message[m].version + 1 \in Version
        /\ updates' = Append(updates, [message |-> m, version |-> message[m].version + 1,
                                       content |-> c])
  BY WriteTypes
<1> DEFINE v == message[m].version + 1
           u == [message |-> m, version |-> v, content |-> c]
           n == Len(updates)
<1>2. /\ updates \in Seq(Update) /\ n \in Nat /\ DOMAIN updates = 1..n
      /\ message \in [Message -> Posted]
  BY StayTyped
<1>3. /\ \A l \in Message : message[l].version \in Nat
      /\ v \in Version /\ v > message[m].version /\ v \in Nat
  BY <1>1, <1>2, ModerationAssumption DEF Posted
<1>4. u \in Update /\ u.message = m /\ u.version = v
  BY <1>3 DEF Update
<1>5. message'[m].version = v /\ \A l \in Message \ {m} : message'[l] = message[l]
  BY WriteTypes
<1>6. processed' = processed
  BY DEF Write
<1>7. updates' = Append(updates, u)
  BY <1>1
<1> HIDE DEF u, v, n
<1>8. /\ DOMAIN updates' = 1..(n + 1) /\ updates'[n + 1] = u
      /\ \A i \in 1..n : updates'[i] = updates[i]
  BY <1>2, <1>4, <1>7 DEF n
<1>9. \A i \in 1..n : /\ updates[i] \in Update /\ Row(updates[i]).state = "none"
                      /\ updates[i].version <= message[updates[i].message].version
  <2>1. \A i \in 1..n : updates[i] \in Update
    BY <1>2
  <2>2. \A i \in DOMAIN updates :
          /\ Row(updates[i]).state = "none"
          /\ updates[i].version <= message[updates[i].message].version
    BY DEF Fresh
  <2> QED BY <1>2, <2>1, <2>2
<1>10. \A l \in Message : message[l].version <= message'[l].version
  BY <1>3, <1>5
<1>11. \A l \in Message, w \in Version :
         w > message'[l].version => processed'[l][w].state = "none"
  <2> SUFFICES ASSUME NEW l \in Message, NEW w \in Version, w > message'[l].version
               PROVE  w > message[l].version
    BY <1>6 DEF Fresh
  <2>1. w \in Nat /\ v \in Nat
    BY <1>3 DEF Version
  <2> QED BY <1>3, <1>5, <2>1
<1>12. ASSUME NEW i \in 1..(n + 1)
       PROVE  /\ processed'[updates'[i].message][updates'[i].version].state = "none"
              /\ updates'[i].version <= message'[updates'[i].message].version
  <2>1. CASE i = n + 1
    BY <1>3, <1>4, <1>5, <1>6, <1>8, <2>1 DEF Fresh, Version
  <2>2. CASE i # n + 1
    <3>1. i \in 1..n
      BY <1>2, <2>2
    <3>2. /\ updates[i].message \in Message /\ updates[i].version \in Nat
          /\ processed[updates[i].message][updates[i].version].state = "none"
          /\ updates[i].version <= message[updates[i].message].version
      BY <1>9, <3>1 DEF Update, Version, Row
    <3>3. message'[updates[i].message].version \in Nat
      BY <1>3, <1>5, <3>2 DEF Version
    <3> QED BY <1>3, <1>6, <1>8, <1>10, <3>1, <3>2, <3>3
  <2> QED BY <2>1, <2>2
<1>13. \A i \in 1..n : ~(updates[i].message = m /\ updates[i].version = v)
  BY <1>3, <1>9 DEF Version
<1>14. ASSUME NEW i \in 1..(n + 1), NEW j \in 1..(n + 1),
              updates'[i].message = updates'[j].message, updates'[i].version = updates'[j].version
       PROVE  i = j
  <2>1. CASE i \in 1..n /\ j \in 1..n
    BY <1>2, <1>8, <1>14, <2>1 DEF Fresh
  <2>2. CASE ~(i \in 1..n /\ j \in 1..n)
    BY <1>2, <1>4, <1>8, <1>13, <1>14, <2>2
  <2> QED BY <2>1, <2>2
<1> QED BY <1>8, <1>11, <1>12, <1>14 DEF Fresh, Row

LEMMA FreshInvariant ==
  ASSUME TInv, Claimed, Fresh, Next PROVE Fresh'
<1>1. CASE restarts' # 0
  BY <1>1 DEF Fresh
<1>2. CASE restarts' = 0
  <2>1. restarts = 0 /\ \A k \in Consumer : ~Restart(k)
    BY <1>2, RestartsKept, RestartsCounted
  <2>2. ASSUME NEW k \in Consumer,
               Thinks(k) \/ Drops(k) \/ Inserts(k) \/ Delivers(k) \/ Suppresses(k) \/ Records(k)
        PROVE  Fresh'
    <3>1. \A m \in Message : message'[m].version = message[m].version
      BY <2>2 DEF Thinks, Drops, Inserts, Delivers, Suppresses, Removing, Removes, Records,
                  RecordSuppressed
    <3>2. updates' = updates \/ (updates # <<>> /\ updates' = Tail(updates))
      BY <2>2 DEF Thinks, Drops, Inserts, Delivers, Suppresses, Removing, Records,
                  RecordSuppressed
    <3>3. processed' = processed
      BY <2>2, GoesFollows DEF Drops
    <3> QED BY <2>1, <3>1, <3>2, <3>3, FreshKept
  <2>3. ASSUME NEW k \in Consumer, Claims(k) PROVE Fresh'
    <3>1. PICK u : u = Head(updates)
      OBVIOUS
    <3>2. /\ u = updates[1] /\ 1 \in DOMAIN updates /\ updates # <<>>
          /\ updates' = Tail(updates) /\ message' = message
      BY <2>3, <3>1, TailTypes DEF Claims
    <3>3. /\ u \in Update
          /\ \A m \in Message, v \in Version :
               processed'[m][v].state = IF m = u.message /\ v = u.version THEN "processing"
                                        ELSE processed[m][v].state
      BY <2>3, <3>1, ClaimWrites
    <3>4. u.version \in Nat /\ message[u.message].version \in Nat
          /\ ~(u.version > message[u.message].version)
      <4>1. u.version <= message[u.message].version
        BY <2>1, <3>2 DEF Fresh
      <4>2. u.version \in Nat /\ message[u.message].version \in Nat
        BY <3>3, StayTyped, ModerationAssumption DEF Update, Version, Posted
      <4> QED BY <4>1, <4>2
    <3>5. ASSUME NEW i \in DOMAIN updates'
          PROVE  ~(updates'[i].message = u.message /\ updates'[i].version = u.version)
      <4>1. i + 1 \in DOMAIN updates /\ updates'[i] = updates[i + 1] /\ i + 1 # 1
        BY <3>2, TailTypes
      <4> QED BY <2>1, <3>2, <4>1 DEF Fresh
    <3>6. \A m \in Message, v \in Version :
            \/ processed'[m][v].state = processed[m][v].state
            \/ /\ ~(v > message[m].version)
               /\ \A i \in DOMAIN updates' :
                    ~(updates'[i].message = m /\ updates'[i].version = v)
      BY <3>3, <3>4, <3>5
    <3> QED BY <2>1, <3>2, <3>6, FreshKept
  <2>4. ASSUME NEW k \in Consumer, Ends(k) PROVE Fresh'
    <3>1. PICK u : u = handler[k].update
      OBVIOUS
    <3>2. /\ u \in Update /\ processed[u.message][u.version].state = "processing"
          /\ \A m \in Message, v \in Version :
               ~(m = u.message /\ v = u.version)
                 => processed'[m][v].state = processed[m][v].state
      BY <2>4, <3>1, EndWrites DEF Claimed, Row
    <3>3. UNCHANGED <<message, updates>>
      BY <2>4 DEF Ends, End
    <3>4. ~(u.version > message[u.message].version)
      BY <2>1, <3>2 DEF Fresh, Update
    <3>5. \A i \in DOMAIN updates : ~(updates[i].message = u.message /\ updates[i].version = u.version)
      BY <2>1, <3>2 DEF Fresh, Row
    <3>6. \A m \in Message, v \in Version :
            \/ processed'[m][v].state = processed[m][v].state
            \/ /\ ~(v > message[m].version)
               /\ \A i \in DOMAIN updates' :
                    ~(updates'[i].message = m /\ updates'[i].version = v)
      BY <3>2, <3>3, <3>4, <3>5
    <3> QED BY <2>1, <3>3, <3>6, FreshKept
  <2>5. ASSUME NEW m \in Message, Write(m) PROVE Fresh'
    BY <2>1, <2>5, WriteFresh
  <2>6. CASE SandboxTurns \/ Tick \/ \E a \in DOMAIN actions : Outbox(a)
    <3>1. RowsKept
      BY <2>6, WorldKeepsRows
    <3>2. \A m \in Message : message'[m].version = message[m].version
      BY <2>6, OutboxTypes DEF SandboxTurns, Tick, Removes
    <3>3. updates' = updates
      BY <2>6 DEF SandboxTurns, Tick, Outbox
    <3> QED BY <2>1, <3>1, <3>2, <3>3, FreshKept DEF RowsKept
  <2> QED BY <2>1, <2>2, <2>3, <2>4, <2>5, <2>6, NextKinds
<1> QED BY <1>1, <1>2
LEMMA AccountedStays ==
  ASSUME TInv, Next, NEW m \in Message, Accounted(m)
  PROVE  Accounted(m)'
<1>1. suppressed \subseteq suppressed'
  BY NextKinds, TickTypes, OutboxTypes
     DEF Write, SandboxTurns, Thinks, Drops, Inserts, Delivers, Suppresses, Removing, Records,
         RecordSuppressed, Claims, Ends, End, Restart
<1>2. PICK a \in DOMAIN actions : actions[a].source = m \/ <<a, m>> \in suppressed
  BY DEF Accounted
<1>3. a \in DOMAIN actions' /\ actions'[a].source = actions[a].source
  <2>1. CASE SameActions
    BY <2>1 DEF SameActions
  <2>2. ASSUME NEW k \in Consumer, Inserts(k)
        PROVE  a \in DOMAIN actions' /\ actions'[a].source = actions[a].source
    BY <2>2, Inserted DEF Inserts
  <2> QED BY <2>1, <2>2, NextSplits DEF Inserts
<1> QED BY <1>1, <1>2, <1>3 DEF Accounted

\* A message is accounted for without the update of h.
Others(h) ==
  \/ Accounted(h.update.message)
  \/ \E v \in Version \ {h.update.version} : Excused(h.update.message, v)

AInv == Claimed /\ Fresh /\ DeletionsAccounted /\ \A k \in Consumer : Clean(handler[k])

LEMMA AccountFor ==
  ASSUME DeletionsAccounted, restarts = 0, NEW m \in Message, message[m].gone
  PROVE  Accounted(m) \/ \E v \in Version : Excused(m, v)
BY DEF DeletionsAccounted, Accounted, Excused

\* When no row is written, and the messages that go are accounted for.
LEMMA RowsKeptAccounts ==
  ASSUME TInv, AInv, Next, restarts = 0, RowsKept, NEW S,
         \A m \in Message : message'[m].gone => message[m].gone \/ m \in S,
         \A m \in Message : m \in S => Accounted(m)' \/ \E v \in Version : Excused(m, v)
  PROVE  DeletionsAccounted'
<1> SUFFICES ASSUME NEW m \in Message, message'[m].gone
             PROVE  Accounted(m)' \/ \E v \in Version : Excused(m, v)'
  BY DEF DeletionsAccounted, Accounted, Excused
<1>1. Accounted(m)' \/ Accounted(m) \/ \E v \in Version : Excused(m, v)
  BY AccountFor DEF AInv
<1>2. \A v \in Version : Excused(m, v) => Excused(m, v)'
  BY DEF RowsKept, Excused
<1> QED BY <1>1, <1>2, AccountedStays

LEMMA NoneGoes ==
  ASSUME TInv, AInv, Next, restarts = 0, RowsKept,
         \A m \in Message : message'[m].gone => message[m].gone
  PROVE  DeletionsAccounted'
<1>1. PICK S : S = {}
  OBVIOUS
<1>2. /\ \A m \in Message : message'[m].gone => message[m].gone \/ m \in S
      /\ \A m \in Message : m \in S => Accounted(m)' \/ \E v \in Version : Excused(m, v)
  BY <1>1
<1> QED BY <1>2, RowsKeptAccounts

\* A consumer whose message went for other reasons only.
LEMMA CleanStays ==
  ASSUME TInv, AInv, Next, restarts = 0, RowsKept, NEW k \in Consumer,
         handler[k].at \notin {"idle", "record", "fail"},
         handler'[k].update = handler[k].update,
         \A m : m = handler[k].update.message /\ message'[m].gone
                 => message[m].gone \/ Accounted(m)'
  PROVE  Clean(handler[k])'
<1>1. PICK u : u = handler[k].update
  OBVIOUS
<1>2. u \in Update /\ u.message \in Message
  BY <1>1, InWork DEF Update
<1>3. message[u.message].gone => Others(handler[k])
  BY <1>1 DEF AInv, Clean, Others
<1>4. Accounted(u.message) => Accounted(u.message)'
  BY <1>2, AccountedStays
<1>5. \A v \in Version : Excused(u.message, v) => Excused(u.message, v)'
  BY <1>2 DEF RowsKept, Excused
<1>6. message'[u.message].gone =>
        \/ Accounted(u.message)'
        \/ \E v \in Version \ {u.version} : Excused(u.message, v)'
  BY <1>1, <1>3, <1>4, <1>5 DEF Others
<1>7. handler'[k].update = u
  BY <1>1
<1> QED BY <1>6, <1>7 DEF Clean, Accounted, Excused
LEMMA WorldAccounts ==
  ASSUME TInv, AInv, Next, restarts = 0,
         \/ \E m \in Message : Write(m)
         \/ SandboxTurns
         \/ \E a \in DOMAIN actions : Outbox(a)
         \/ Tick
  PROVE  DeletionsAccounted' /\ \A k \in Consumer : Clean(handler[k])'
<1>1. handler' = handler /\ RowsKept
  BY WorldKeepsRows
<1>2. \A m \in Message : message'[m].gone => message[m].gone \/ Accounted(m)'
  <2>1. ASSUME NEW m \in Message, Write(m)
        PROVE  \A n \in Message : message'[n].gone => message[n].gone
    BY <2>1, WriteTypes
  <2>2. ASSUME NEW a \in DOMAIN actions, Outbox(a), NEW m \in Message, message'[m].gone,
               ~message[m].gone
        PROVE  Accounted(m)'
    <3>1. actions[a].source = m
      BY <2>2, OutboxTypes DEF Removes
    <3> QED BY <2>2, <3>1, AccountedStays DEF Accounted
  <2>3. CASE SandboxTurns \/ Tick
    BY <2>3 DEF SandboxTurns, Tick
  <2> QED BY <2>1, <2>2, <2>3
<1>3. DeletionsAccounted'
  <2> DEFINE S == {m \in Message : message'[m].gone /\ ~message[m].gone}
  <2>1. PICK T : T = S
    OBVIOUS
  <2>2. /\ \A m \in Message : message'[m].gone => message[m].gone \/ m \in T
        /\ \A m \in Message : m \in T => Accounted(m)'
    BY <1>2, <2>1
  <2> QED BY <1>1, <2>2, RowsKeptAccounts
<1>4. ASSUME NEW k \in Consumer PROVE Clean(handler[k])'
  <2>1. CASE handler[k].at \in {"idle", "record", "fail"}
    BY <1>1, <2>1 DEF Clean
  <2>2. CASE handler[k].at \notin {"idle", "record", "fail"}
    <3>1. handler[k].update.message \in Message
      BY <2>2, InWork DEF Update
    <3> QED BY <1>1, <1>2, <2>2, <3>1, CleanStays
  <2> QED BY <2>1, <2>2
<1> QED BY <1>3, <1>4

\* A consumer at work deletes what it answers, or its own message.
LEMMA WorkAccounts ==
  ASSUME TInv, AInv, Next, restarts = 0, NEW k \in Consumer,
         Thinks(k) \/ Inserts(k) \/ Delivers(k) \/ Suppresses(k) \/ Records(k)
  PROVE  DeletionsAccounted' /\ Clean(handler[k])'
<1>1. RowsKept /\ Follows(k) /\ processed' = processed
  BY GoesFollows DEF RowsKept
<1>2. PICK u : u = handler[k].update
  OBVIOUS
<1>3. /\ u \in Update /\ u.message \in Message /\ u.version \in Version
      /\ handler[k].at # "idle" /\ handler'[k].update = u
      /\ Excused(u.message, u.version)
  BY <1>1, <1>2, InWork DEF Follows, Update, AInv, Claimed, Excused, Row
<1>4. CASE Thinks(k) \/ Inserts(k)
  <2>1. message' = message
    BY <1>4 DEF Thinks, Inserts
  <2>2. DeletionsAccounted'
    BY <1>1, <2>1, NoneGoes
  <2>3. CASE handler[k].at \in {"record", "fail"}
    <3>1. PICK h : Goes(k, h) /\ h.at = "fail"
      BY <1>4, <2>3 DEF Thinks, Inserts
    <3> QED BY <2>2, <3>1, GoesMoves DEF Clean
  <2>4. CASE handler[k].at \notin {"record", "fail"}
    BY <1>1, <1>2, <1>3, <2>1, <2>2, <2>4, CleanStays
  <2> QED BY <2>3, <2>4
<1>5. CASE Delivers(k)
  <2>1. PICK a \in DOMAIN actions : /\ handler[k].at = "deliver"
                                    /\ Removes({actions[a].source})
    BY <1>5 DEF Delivers, Removing
  <2>2. PICK s : s = actions[a].source
    OBVIOUS
  <2>3. s \in Message /\ Accounted(s)'
    BY <2>1, <2>2, ActionType, AccountedStays DEF Accounted
  <2>4. \A m \in Message : message'[m].gone => message[m].gone \/ m \in {s}
    BY <2>1, <2>2 DEF Removes
  <2>5. DeletionsAccounted'
    <3>1. PICK S : S = {s}
      OBVIOUS
    <3>2. /\ \A m \in Message : message'[m].gone => message[m].gone \/ m \in S
          /\ \A m \in Message : m \in S =>
               Accounted(m)' \/ \E v \in Version : Excused(m, v)
      BY <2>3, <2>4, <3>1
    <3> QED BY <1>1, <3>2, RowsKeptAccounts
  <2> QED BY <1>1, <1>2, <1>3, <2>1, <2>3, <2>4, <2>5, CleanStays
<1>6. ASSUME NEW at \in {"record", "fail"}, Removing(k, at, {u.message})
      PROVE  DeletionsAccounted' /\ Clean(handler[k])'
  <2>1. \A m \in Message : message'[m].gone => message[m].gone \/ m \in {u.message}
    BY <1>6 DEF Removing, Removes
  <2>2. DeletionsAccounted'
    BY <1>1, <1>3, <2>1, RowsKeptAccounts
  <2>3. PICK h : Goes(k, h) /\ h.at = at
    BY <1>6 DEF Removing
  <2> QED BY <2>2, <2>3, GoesMoves DEF Clean
<1>7. CASE Removing(k, "complete", {}) /\ ~message[u.message].gone
  <2>1. \A m \in Message : message'[m].gone => message[m].gone
    BY <1>7 DEF Removing, Removes
  <2>2. DeletionsAccounted'
    BY <1>1, <2>1, NoneGoes
  <2> QED BY <1>3, <1>7, <2>1, <2>2 DEF Clean
<1>8. CASE Records(k)
  <2>1. PICK a \in DOMAIN actions : suppressed' = suppressed \cup {<<a, u.message>>}
    BY <1>2, <1>8 DEF Records, RecordSuppressed
  <2>2. message' = message /\ actions' = actions
    BY <1>8 DEF Records, RecordSuppressed
  <2>3. Accounted(u.message)'
    BY <2>1, <2>2 DEF Accounted
  <2>4. DeletionsAccounted'
    BY <1>1, <2>2, NoneGoes
  <2> QED BY <1>3, <2>3, <2>4 DEF Clean, Accounted
<1> QED BY <1>2, <1>4, <1>5, <1>6, <1>7, <1>8 DEF Suppresses

LEMMA ClaimAccounts ==
  ASSUME TInv, AInv, Next, restarts = 0, NEW k \in Consumer, Claims(k)
  PROVE  DeletionsAccounted' /\ Clean(handler[k])'
<1>1. PICK u : u = Head(updates)
  OBVIOUS
<1>2. /\ u \in Update /\ u.message \in Message /\ handler'[k].update = u
      /\ \A m \in Message, v \in Version :
           processed'[m][v].state = IF m = u.message /\ v = u.version THEN "processing"
                                    ELSE processed[m][v].state
  BY <1>1, ClaimWrites DEF Update
<1>3. processed[u.message][u.version].state = "none"
  BY <1>1, TailTypes DEF Claims, AInv, Fresh, Row
<1>4. \A m \in Message, v \in Version : Excused(m, v) => Excused(m, v)'
  BY <1>2 DEF Excused
<1>5. message' = message
  BY DEF Claims
<1>6. \A m \in Message : message[m].gone =>
        Accounted(m)' \/ \E v \in Version : Excused(m, v) /\ Excused(m, v)'
  <2> SUFFICES ASSUME NEW m \in Message, message[m].gone
               PROVE  Accounted(m)' \/ \E v \in Version : Excused(m, v) /\ Excused(m, v)'
    OBVIOUS
  <2>1. Accounted(m) \/ \E v \in Version : Excused(m, v)
    BY AccountFor DEF AInv
  <2> QED BY <1>4, <2>1, AccountedStays
<1>7. DeletionsAccounted'
  <2>1. \A m \in Message : message'[m].gone =>
          Accounted(m)' \/ \E v \in Version : Excused(m, v)'
    BY <1>5, <1>6
  <2> QED BY <2>1 DEF DeletionsAccounted, Accounted, Excused
<1>8. message'[u.message].gone =>
        Accounted(u.message)' \/ \E v \in Version \ {u.version} : Excused(u.message, v)'
  <2>1. ~Excused(u.message, u.version)
    BY <1>3 DEF Excused
  <2> QED BY <1>2, <1>5, <1>6, <2>1
<1>9. Clean(handler[k])'
  BY <1>2, <1>8 DEF Clean, Accounted, Excused
<1> QED BY <1>7, <1>9

LEMMA EndAccounts ==
  ASSUME TInv, AInv, Next, restarts = 0, NEW k \in Consumer, Ends(k)
  PROVE  DeletionsAccounted' /\ Clean(handler[k])'
<1>1. PICK u : u = handler[k].update
  OBVIOUS
<1>2. /\ u \in Update /\ u.message \in Message /\ u.version \in Version
      /\ handler[k].at \in {"complete", "fail"}
      /\ \A m \in Message, v \in Version :
           processed'[m][v].state =
             IF m = u.message /\ v = u.version
             THEN (IF handler[k].at = "complete" THEN "complete" ELSE "failed")
             ELSE processed[m][v].state
  BY <1>1, EndWrites DEF Update
<1>3. message' = message
  BY DEF Ends, End
<1>4. Clean(handler[k])'
  BY StopsIdle DEF Clean
<1>5. \A m \in Message, v \in Version :
        Excused(m, v) /\ ~(m = u.message /\ v = u.version) => Excused(m, v)'
  BY <1>2 DEF Excused
<1>6. ASSUME NEW m \in Message, message[m].gone
      PROVE  Accounted(m)' \/ \E v \in Version : Excused(m, v)'
  <2>1. CASE m # u.message
    <3>1. Accounted(m) \/ \E v \in Version : Excused(m, v)
      BY <1>6, AccountFor DEF AInv
    <3> QED BY <1>5, <2>1, <3>1, AccountedStays
  <2>2. CASE m = u.message /\ handler[k].at = "fail"
    BY <1>2, <2>2 DEF Excused
  <2>3. CASE m = u.message /\ handler[k].at = "complete"
    <3>1. Accounted(m) \/ \E v \in Version \ {u.version} : Excused(m, v)
      BY <1>1, <1>6, <2>3 DEF AInv, Clean
    <3> QED BY <1>5, <3>1, AccountedStays
  <2> QED BY <1>2, <2>1, <2>2, <2>3
<1>7. DeletionsAccounted'
  BY <1>3, <1>6 DEF DeletionsAccounted, Accounted, Excused
<1> QED BY <1>4, <1>7

LEMMA AccountsInvariant ==
  ASSUME Single
  PROVE  TInv /\ AInv /\ [Next]_vars => AInv'
<1>0. AInv /\ UNCHANGED vars => AInv'
  <2> SUFFICES ASSUME AInv, UNCHANGED vars PROVE AInv'
    OBVIOUS
  <2>1. Claimed' /\ Fresh'
    BY DEF vars, AInv, Claimed, Fresh, Row
  <2>2. DeletionsAccounted'
    BY DEF vars, AInv, DeletionsAccounted
  <2>3. \A k \in Consumer : Clean(handler[k])'
    BY DEF vars, AInv, Clean, Accounted, Excused
  <2> QED BY <2>1, <2>2, <2>3 DEF AInv
<1> SUFFICES ASSUME TInv, AInv, Next PROVE AInv'
  BY <1>0
<1>1. Claimed' /\ Fresh'
  BY ClaimedInvariant, FreshInvariant DEF AInv
<1>2. CASE restarts' # 0
  BY <1>1, <1>2 DEF AInv, DeletionsAccounted, Clean
<1>3. CASE restarts' = 0
  <2>1. restarts = 0 /\ \A k \in Consumer : ~Restart(k)
    BY <1>3, RestartsKept, RestartsCounted
  <2>2. ASSUME NEW k \in Consumer, DeletionsAccounted', Clean(handler[k])' PROVE AInv'
    <3>1. \A j \in Consumer : Clean(handler[j])'
      BY <2>2 DEF Single
    <3> QED BY <1>1, <2>2, <3>1 DEF AInv
  <2>3. ASSUME NEW k \in Consumer, Drops(k) PROVE DeletionsAccounted' /\ Clean(handler[k])'
    <3>1. RowsKept /\ message' = message
      BY <2>3 DEF Drops, RowsKept
    <3>2. DeletionsAccounted'
      BY <2>1, <3>1, NoneGoes
    <3> QED BY <2>3, <3>2, StopsIdle DEF Clean
  <2>4. CASE \/ \E m \in Message : Write(m)
             \/ SandboxTurns
             \/ \E a \in DOMAIN actions : Outbox(a)
             \/ Tick
    BY <1>1, <2>1, <2>4, WorldAccounts DEF AInv
  <2> QED BY <2>1, <2>2, <2>3, <2>4, NextKinds, WorkAccounts, ClaimAccounts, EndAccounts
<1> QED BY <1>2, <1>3

\* Before the first restart, with one consumer, a message that is gone is the source of
\* an action, a recorded repost, or of an update without a result: suppressDuplicate
\* writes suppressed_reposts before CompleteUpdate, and its error returns fail the update.
THEOREM DeletionsAreAccounted ==
  ASSUME Single
  PROVE  Spec => []DeletionsAccounted
<1>1. Init => AInv
  <2>1. Idle.at = "idle"
    BY DEF Idle
  <2> QED BY <2>1, InitClaimed DEF Init, AInv, Fresh, Row, DeletionsAccounted, Clean
<1>2. AInv => DeletionsAccounted
  BY DEF AInv
<1> QED BY <1>1, <1>2, AccountsInvariant, TypesInvariant, PTL DEF Spec
=============================================================================
