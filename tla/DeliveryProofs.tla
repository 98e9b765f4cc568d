--------------------------- MODULE DeliveryProofs ---------------------------
(***************************************************************************)
(* Outbox implements Delivery, for every set of actions and workers, every *)
(* lease and delay and any number of faults; what its properties about     *)
(* duplicates and terminal rows say follows on the way.                    *)
(*                                                                         *)
(* An action that was never claimed while another process was at work on   *)
(* it is alone: at most one process holds it, and what that one remembers  *)
(* of the row is what the row says.  KInv states this, and that an answer  *)
(* without an excuse is the only one and is recorded or still in memory.   *)
(***************************************************************************)
EXTENDS OutboxProofs

Alone(a) == "overlap" \notin blame[a]

Holds(p, a) == /\ pc[p] # "idle"
               /\ \/ job[p].id = a
                  \/ \E e \in batch[p] : e.id = a

\* A claim hands an action to a second process only by overlapping.
Exclusive ==
  \A a \in Action, p, q \in Process : Alone(a) /\ Holds(p, a) /\ Holds(q, a) => p = q

\* A process works on every action of its batch once, and has none at rest.
Apart(p) ==
  /\ pc[p] = "idle" => batch[p] = {}
  /\ \A e \in batch[p] : e.id # job[p].id
  /\ \A e, f \in batch[p] : e.id = f.id => e = f

\* What a process at label l about to work on e knows of the row, if alone.
JobFits(l, e, row) ==
  /\ row.op = e.op
  /\ row.state \in Terminal => l = "release"
  /\ l \in {"copy", "send", "replace", "delete", "markDelete", "markSend"}
       => e.response = row.response
  /\ l \in {"copy", "send", "replace"} => row.response = NoResponse

JobAgrees(p) ==
  pc[p] # "idle" /\ Alone(job[p].id) => JobFits(pc[p], job[p], outbox[job[p].id])

\* An entry still waiting in a batch is its row.
EntryAgrees(e, row) ==
  row.op = e.op /\ row.response = e.response /\ row.state \notin Terminal

BatchAgrees(p) == \A e \in batch[p] : Alone(e.id) => EntryAgrees(e, outbox[e.id])

\* Neither the row nor a process about to record it knows of a response.
Loose(a) ==
  /\ outbox[a].response = NoResponse
  /\ \A p \in Process : ~(job[p].id = a /\ pc[p] \in {"markCopied", "complete"})

AnswersFit(a) == blame[a] = {} => Answers(a) <= 1 /\ (Loose(a) => Answers(a) = 0)

Fresh(a) == outbox[a].state = "absent" => outbox[a].response = NoResponse

KInv ==
  /\ Exclusive
  /\ \A p \in Process : Apart(p) /\ JobAgrees(p) /\ BatchAgrees(p)
  /\ \A a \in Action : AnswersFit(a) /\ Fresh(a)

-----------------------------------------------------------------------------
(* How that knowledge survives a step of one process.                      *)

\* A worker that dispatches an entry that is its row knows the row.
LEMMA DispatchAgrees ==
  ASSUME NEW e, NEW row, e.state \in Unfinished, EntryAgrees(e, row)
  PROVE  JobFits(Dispatch(e), e, row)
BY DEF EntryAgrees, JobFits, Dispatch, Resume, Unfinished

\* What does not change about the others when p works on the action i.
Local(p, i) ==
  /\ pc[p] # "idle" /\ i = job[p].id
  /\ \A q \in Process \ {p} : /\ pc'[q] = pc[q] /\ job'[q] = job[q]
                              /\ batch'[q] = batch[q]
  /\ \A a \in Action \ {i} : /\ outbox'[a] = outbox[a] /\ posted'[a] = posted[a]
                             /\ blame'[a] = blame[a] /\ source'[a] = source[a]
  /\ blame[i] \subseteq blame'[i]

LEMMA ProcessKeeps ==
  ASSUME IInv, KInv, NEW p \in Process, NEW i \in Action, Local(p, i),
         outbox'[i].state # "absent",
         \A a \in Action : Holds(p, a)' => Holds(p, a),
         Apart(p)', JobAgrees(p)', BatchAgrees(p)', AnswersFit(i)'
  PROVE  KInv'
<1>1. \A a \in Action : Alone(a)' => Alone(a)
  BY DEF Local, Alone
<1>2. \A q \in Process, a \in Action : Holds(q, a)' => Holds(q, a)
  <2> SUFFICES ASSUME NEW q \in Process \ {p}, NEW a \in Action, Holds(q, a)'
               PROVE  Holds(q, a)
    OBVIOUS
  <2> QED BY DEF Holds, Local
<1>3. Exclusive'
  BY <1>1, <1>2 DEF KInv, Exclusive
<1>4. Holds(p, i)
  BY DEF Local, Holds
<1>5. ASSUME NEW q \in Process \ {p}, NEW a \in Action, Alone(a)', Holds(q, a)
      PROVE  outbox'[a] = outbox[a] /\ Alone(a)
  BY <1>1, <1>4, <1>5 DEF KInv, Exclusive, Local
<1>6. ASSUME NEW q \in Process \ {p} PROVE Apart(q)' /\ JobAgrees(q)' /\ BatchAgrees(q)'
  <2>1. /\ pc'[q] = pc[q] /\ job'[q] = job[q] /\ batch'[q] = batch[q]
        /\ Apart(q) /\ JobAgrees(q) /\ BatchAgrees(q)
    BY DEF KInv, Local
  <2>2. Apart(q)'
    BY <2>1 DEF Apart
  <2>3. ASSUME pc[q] # "idle", NEW a \in Action, a = job[q].id, Alone(a)'
        PROVE  JobFits(pc[q], job[q], outbox'[a])
    <3>1. Holds(q, a)
      BY <2>3 DEF Holds
    <3> QED BY <1>5, <2>1, <2>3, <3>1 DEF JobAgrees
  <2>4. JobAgrees(q)'
    <3>1. pc[q] # "idle" => job[q].id \in Action
      BY MineFits
    <3>2. PICK a : a = job[q].id /\ a = job'[q].id
      BY <2>1
    <3> QED BY <2>1, <2>3, <3>1, <3>2 DEF JobAgrees, Alone
  <2>5. ASSUME NEW e \in batch[q], Alone(e.id)'
        PROVE  EntryAgrees(e, outbox'[e.id])
    <3>1. e.id \in Action /\ pc[q] # "idle"
      BY <2>1 DEF IInv, BatchSound, EntrySound, EntryFits, Entry, Apart
    <3>2. Holds(q, e.id)
      BY <3>1 DEF Holds
    <3> QED BY <1>5, <2>1, <2>5, <3>1, <3>2 DEF BatchAgrees
  <2>6. BatchAgrees(q)'
    BY <2>1, <2>5 DEF BatchAgrees
  <2> QED BY <2>2, <2>4, <2>6
<1>7. ASSUME NEW a \in Action \ {i} PROVE AnswersFit(a)' /\ Fresh(a)'
  <2>1. /\ outbox'[a] = outbox[a] /\ posted'[a] = posted[a] /\ blame'[a] = blame[a]
        /\ AnswersFit(a) /\ Fresh(a)
    BY DEF KInv, Local
  <2>2. Loose(a)' => Loose(a)
    BY <2>1 DEF Loose, Local
  <2> QED BY <2>1, <2>2 DEF AnswersFit, Answers, Fresh
<1>8. Fresh(i)'
  BY DEF Fresh
<1> QED BY <1>3, <1>6, <1>7, <1>8 DEF KInv

\* A step that leaves p at its entry, e by now.
LEMMA StayKeeps ==
  ASSUME IInv, KInv, NEW p \in Process, NEW i \in Action, Local(p, i),
         NEW l \in Label \ {"idle"}, NEW e,
         pc'[p] = l, job'[p] = e, batch'[p] = batch[p], e.id = i,
         outbox'[i].state # "absent",
         Alone(i) => JobFits(l, e, outbox'[i]), AnswersFit(i)'
  PROVE  KInv'
<1>1. /\ Apart(p) /\ BatchAgrees(p) /\ pc[p] # "idle" /\ i = job[p].id
      /\ Alone(i)' => Alone(i)
  BY DEF KInv, Local, Alone
<1>2. \A a \in Action : Holds(p, a)' => Holds(p, a)
  BY <1>1 DEF Holds
<1>3. Apart(p)'
  BY <1>1 DEF Apart
<1>4. JobAgrees(p)'
  BY <1>1 DEF JobAgrees, Alone
<1>5. ASSUME NEW f \in batch[p], Alone(f.id)' PROVE EntryAgrees(f, outbox'[f.id])
  <2>1. f.id \in Action \ {i}
    BY <1>1 DEF IInv, BatchSound, EntrySound, EntryFits, Entry, Apart
  <2>2. outbox'[f.id] = outbox[f.id] /\ Alone(f.id)
    BY <1>5, <2>1 DEF Local, Alone
  <2> QED BY <1>1, <2>2 DEF BatchAgrees
<1>6. BatchAgrees(p)'
  BY <1>5 DEF BatchAgrees
<1> QED BY <1>2, <1>3, <1>4, <1>6, ProcessKeeps

\* A worker turns to the first of entries that are their rows.
LEMMA TakeKeeps ==
  ASSUME TypeOK, NEW p \in Process, NEW E, Take(p, E),
         \A e \in E : /\ e.state \in Unfinished
                      /\ Alone(e.id)' => EntryAgrees(e, outbox'[e.id]),
         \A e, f \in E : e.id = f.id => e = f
  PROVE  /\ Apart(p)' /\ JobAgrees(p)' /\ BatchAgrees(p)'
         /\ \A a \in Action : Holds(p, a)' => \E e \in E : e.id = a
<1>1. PICK e \in E : /\ job' = [job EXCEPT ![p] = e]
                     /\ pc' = [pc EXCEPT ![p] = Dispatch(e)]
                     /\ batch' = [batch EXCEPT ![p] = E \ {e}]
  BY DEF Take, Goto
<1>2. pc'[p] = Dispatch(e) /\ job'[p] = e /\ batch'[p] = E \ {e}
  BY <1>1 DEF TypeOK
<1>3. Dispatch(e) # "idle"
  BY DEF Dispatch, Resume
<1>4. Apart(p)'
  BY <1>2, <1>3 DEF Apart
<1>5. JobAgrees(p)'
  <2>1. Alone(e.id)' => JobFits(Dispatch(e), e, outbox'[e.id])
    BY DispatchAgrees
  <2> QED BY <1>2, <2>1 DEF JobAgrees, Alone
<1>6. BatchAgrees(p)'
  BY <1>2 DEF BatchAgrees, Alone
<1>7. \A a \in Action : Holds(p, a)' => \E f \in E : f.id = a
  BY <1>2 DEF Holds
<1> QED BY <1>4, <1>5, <1>6, <1>7

\* A step that ends the entry of p.
LEMMA EndKeeps ==
  ASSUME IInv, KInv, NEW p \in Process, NEW i \in Action, Local(p, i),
         Finish(p) \/ Stop(p),
         outbox'[i].state # "absent", AnswersFit(i)'
  PROVE  KInv'
<1>1. Apart(p) /\ BatchAgrees(p) /\ BatchSound(p) /\ TypeOK
  BY DEF KInv, IInv
<1>2. CASE Stop(p)
  <2>1. pc'[p] = "idle" /\ batch'[p] = {}
    BY <1>1, <1>2 DEF Stop, Goto, TypeOK
  <2> QED BY <2>1, ProcessKeeps DEF Apart, JobAgrees, BatchAgrees, Holds
<1>3. CASE Take(p, batch[p])
  <2>1. ASSUME NEW e \in batch[p]
        PROVE  /\ e.state \in Unfinished
               /\ Alone(e.id)' => EntryAgrees(e, outbox'[e.id])
    <3>1. e.state \in Unfinished /\ e.id \in Action \ {i}
      BY <1>1 DEF BatchSound, EntrySound, EntryFits, Entry, Apart, Local
    <3>2. outbox'[e.id] = outbox[e.id] /\ (Alone(e.id)' => Alone(e.id))
      BY <3>1 DEF Local, Alone
    <3> QED BY <1>1, <3>1, <3>2 DEF BatchAgrees
  <2>2. \A e, f \in batch[p] : e.id = f.id => e = f
    BY <1>1 DEF Apart
  <2>3. PICK E : E = batch[p]
    OBVIOUS
  <2>4. /\ Apart(p)' /\ JobAgrees(p)' /\ BatchAgrees(p)'
        /\ \A a \in Action : Holds(p, a)' => \E e \in E : e.id = a
    BY <1>1, <1>3, <2>1, <2>2, <2>3, TakeKeeps
  <2>5. \A a \in Action : Holds(p, a)' => Holds(p, a)
    BY <2>3, <2>4 DEF Holds, Local
  <2> QED BY <2>4, <2>5, ProcessKeeps
<1> QED BY <1>2, <1>3 DEF Finish

-----------------------------------------------------------------------------
(* What the outside sees of a step.                                        *)

View(a) == [stage    |-> Stage(outbox[a].state),
            op       |-> outbox[a].op,
            original |-> IF source[a] THEN "present" ELSE "gone",
            answers  |-> posted[a],
            excuses  |-> blame[a]]

\* Every step from here on keeps KInv and is a step of Delivery.
Kept == KInv' /\ \A a \in Action : D!Step(View(a), View(a)')

LEMMA LocalStep ==
  ASSUME NEW p, NEW i, Local(p, i), D!Step(View(i), View(i)')
  PROVE  \A a \in Action : D!Step(View(a), View(a)')
<1> SUFFICES ASSUME NEW a \in Action \ {i} PROVE D!Step(View(a), View(a)')
  OBVIOUS
<1>1. View(a)' = View(a)
  BY DEF Local, View
<1> QED BY <1>1 DEF D!Step

LEMMA SameStep ==
  ASSUME NEW a \in Action, Stage(outbox'[a].state) = Stage(outbox[a].state),
         outbox'[a].op = outbox[a].op, source'[a] = source[a],
         posted'[a] = posted[a], blame'[a] = blame[a]
  PROVE  D!Step(View(a), View(a)')
<1>1. View(a)' = View(a)
  BY DEF View
<1> QED BY <1>1 DEF D!Step

\* A row is, or becomes again, one that is to be worked on.
LEMMA OpenStep ==
  ASSUME NEW a \in Action, Stage(outbox'[a].state) = "open",
         Alone(a) => Stage(outbox[a].state) = "open",
         outbox'[a].op = outbox[a].op, source'[a] = source[a],
         posted'[a] = posted[a], blame'[a] = blame[a]
  PROVE  D!Step(View(a), View(a)')
<1>1. CASE Stage(outbox[a].state) = "open"
  BY <1>1, SameStep
<1>2. CASE "overlap" \in blame[a]
  <2>1. D!Reopen(View(a), View(a)')
    BY <1>2 DEF D!Reopen, D!At, D!Shared, View
  <2> QED BY <2>1 DEF D!Step
<1> QED BY <1>1, <1>2 DEF Alone

LEMMA FallBackStep ==
  ASSUME NEW a \in Action, outbox[a].op \in {"text", "copy_media"},
         outbox'[a].op = "text", outbox'[a].state = outbox[a].state,
         source'[a] = source[a], posted'[a] = posted[a], blame'[a] = blame[a]
  PROVE  D!Step(View(a), View(a)')
<1>1. CASE outbox[a].op = "text"
  BY <1>1, SameStep
<1>2. CASE outbox[a].op = "copy_media"
  <2>1. D!FallBack(View(a), View(a)')
    BY <1>2 DEF D!FallBack, D!With, View
  <2> QED BY <2>1 DEF D!Step
<1> QED BY <1>1, <1>2

LEMMA RemoveStep ==
  ASSUME NEW a \in Action, source[a], ~source'[a], Stage(outbox[a].state) # "none",
         outbox'[a] = outbox[a], posted'[a] = posted[a], blame'[a] = blame[a]
  PROVE  D!Step(View(a), View(a)')
<1>1. D!Remove(View(a), View(a)')
  BY DEF D!Remove, View
<1> QED BY <1>1 DEF D!Step

LEMMA CompleteStep ==
  ASSUME NEW a \in Action, outbox'[a].state = "complete",
         Alone(a) => Stage(outbox[a].state) = "open",
         Answers(a) > 0, outbox[a].op # "reply" => ~source[a],
         outbox'[a].op = outbox[a].op, source'[a] = source[a],
         posted'[a] = posted[a], blame'[a] = blame[a]
  PROVE  D!Step(View(a), View(a)')
<1>1. Stage(outbox'[a].state) = "complete"
  BY DEF Stage, Terminal
<1>2. D!Answers(View(a)) > 0
  BY DEF D!Answers, Answers, View
<1>3. View(a).stage = "open" \/ D!Shared(View(a))
  BY DEF D!Shared, View, Alone
<1>4. View(a)' = D!At(View(a), "complete")
  BY <1>1 DEF View, D!At
<1>5. View(a).op # "reply" => View(a).original = "gone"
  BY DEF View
<1>6. D!Complete(View(a), View(a)')
  BY <1>2, <1>3, <1>4, <1>5 DEF D!Complete
<1> QED BY <1>6 DEF D!Step

LEMMA GiveUpStep ==
  ASSUME NEW a \in Action, outbox'[a].state = "dead",
         Alone(a) => Stage(outbox[a].state) = "open",
         outbox'[a].op = outbox[a].op, source'[a] = source[a],
         posted'[a] = posted[a], blame'[a] = blame[a]
  PROVE  D!Step(View(a), View(a)')
<1>1. Stage(outbox'[a].state) = "dead"
  BY DEF Stage, Terminal
<1>2. View(a).stage = "open" \/ D!Shared(View(a))
  BY DEF D!Shared, View, Alone
<1>3. View(a)' = D!At(View(a), "dead")
  BY <1>1 DEF View, D!At
<1>4. D!GiveUp(View(a), View(a)')
  BY <1>2, <1>3 DEF D!GiveUp
<1> QED BY <1>4 DEF D!Step

LEMMA ExcuseStep ==
  ASSUME NEW a \in Action, NEW c \in {"crash", "store_error", "overlap"},
         c = "overlap" => Stage(outbox[a].state) = "open",
         c # "overlap" => Answers(a) > 0,
         Stage(outbox'[a].state) = Stage(outbox[a].state),
         outbox'[a].op = outbox[a].op, source'[a] = source[a],
         posted'[a] = posted[a], blame'[a] = blame[a] \cup {c}
  PROVE  D!Step(View(a), View(a)')
<1>1. D!Answers(View(a)) = Answers(a)
  BY DEF D!Answers, Answers, View
<1>2. View(a).stage = Stage(outbox[a].state)
  BY DEF View
<1>3. View(a)' = D!Excused(View(a), {c})
  BY SMTT(30) DEF View, D!Excused
<1>4. D!Excuse(View(a), View(a)')
  BY <1>1, <1>2, <1>3 DEF D!Excuse
<1> QED BY <1>4 DEF D!Step

LEMMA AnswerStep ==
  ASSUME NEW a \in Action, NEW k \in MessageKind, NEW because \in {{}, {"lost_answer"}},
         blame[a] = {} => Stage(outbox[a].state) = "open" /\ Answers(a) = 0,
         k = "text" <=> ~source[a],
         k = "reply" <=> outbox[a].op = "reply",
         k = "copy" => outbox[a].op = "copy_media" \/ ~Alone(a),
         outbox'[a] = outbox[a], source'[a] = source[a],
         posted'[a] = [posted[a] EXCEPT ![k] = @ + 1],
         blame'[a] = blame[a] \cup because
  PROVE  D!Step(View(a), View(a)')
<1>1. D!Answers(View(a)) = Answers(a)
  BY DEF D!Answers, Answers, View
<1>2. View(a)' = D!Excused(D!Answered(View(a), k), because)
  <2>1. PICK st, o, g, old, new, held, both :
          /\ View(a) = [stage |-> st, op |-> o, original |-> g,
                        answers |-> old, excuses |-> held]
          /\ View(a)' = [stage |-> st, op |-> o, original |-> g,
                         answers |-> new, excuses |-> both]
          /\ new = [old EXCEPT ![k] = @ + 1] /\ both = held \cup because
    BY ZenonT(40) DEF View
  <2>2. PICK r : /\ r = View(a)
                 /\ r = [stage |-> st, op |-> o, original |-> g,
                         answers |-> old, excuses |-> held]
    BY <2>1
  <2>3. PICK t : /\ t = D!Answered(r, k)
                 /\ t = [stage |-> st, op |-> o, original |-> g,
                         answers |-> new, excuses |-> held]
    <3>1. r.answers = old /\ new = D!Counted(old, k)
      BY <2>1, <2>2 DEF D!Counted
    <3>2. D!Answered(r, k) = [r EXCEPT !.answers = new]
      BY <3>1 DEF D!Answered
    <3> QED BY <2>2, <3>2
  <2>4. D!Excused(t, because) = [stage |-> st, op |-> o, original |-> g,
                                 answers |-> new, excuses |-> both]
    <3>1. t.excuses = held
      BY <2>3
    <3>2. D!Excused(t, because) = [t EXCEPT !.excuses = both]
      BY <2>1, <3>1 DEF D!Excused
    <3> QED BY <2>3, <3>2
  <2> QED BY <2>1, <2>2, <2>3, <2>4
<1>3. /\ View(a).excuses = {} => View(a).stage = "open" /\ D!Answers(View(a)) = 0
      /\ k = "text" <=> View(a).original = "gone"
      /\ k = "reply" <=> View(a).op = "reply"
      /\ k = "copy" => View(a).op = "copy_media" \/ D!Shared(View(a))
  BY <1>1 DEF View, D!Shared, Alone
<1>4. k \in D!Kind
  BY DEF MessageKind, D!Kind
<1>5. D!Answer(View(a), View(a)')
  BY <1>2, <1>3, <1>4 DEF D!Answer
<1> QED BY <1>5 DEF D!Step

-----------------------------------------------------------------------------
(* The frame of a step of one process.                                     *)

LEMMA GotoOthers ==
  ASSUME TypeOK, NEW p \in Process, NEW l, Goto(p, l), UNCHANGED <<job, batch>>
  PROVE  /\ pc'[p] = l /\ job'[p] = job[p] /\ batch'[p] = batch[p]
         /\ \A q \in Process \ {p} : /\ pc'[q] = pc[q] /\ job'[q] = job[q]
                                     /\ batch'[q] = batch[q]
BY DEF Goto, TypeOK

LEMMA EndOthers ==
  ASSUME TypeOK, NEW p \in Process, Finish(p) \/ Stop(p)
  PROVE  \A q \in Process \ {p} : /\ pc'[q] = pc[q] /\ job'[q] = job[q]
                                  /\ batch'[q] = batch[q]
<1>1. CASE Stop(p)
  BY <1>1 DEF Stop, Goto, TypeOK
<1>2. CASE Take(p, batch[p])
  BY <1>2 DEF Take, Goto, TypeOK
<1> QED BY <1>1, <1>2 DEF Finish

LEMMA WriteLocal ==
  ASSUME IInv, NEW p \in Process, NEW i \in Action, i = job[p].id, pc[p] # "idle",
         NEW row, Write(p, row), UNCHANGED <<source, posted, blame>>,
         \A q \in Process \ {p} : /\ pc'[q] = pc[q] /\ job'[q] = job[q]
                                  /\ batch'[q] = batch[q]
  PROVE  /\ Local(p, i)
         /\ outbox'[i] = row /\ source'[i] = source[i] /\ posted'[i] = posted[i]
         /\ blame'[i] = blame[i]
BY DEF IInv, TypeOK, Write, Local

\* An unfinished row, as the outside sees it.
LEMMA StageOfRow ==
  ASSUME NEW s
  PROVE  /\ s \in Unfinished => Stage(s) = "open"
         /\ s \in OutboxState /\ s # "absent" => Stage(s) # "none"
         /\ s \in OutboxState /\ s # "absent" /\ s \notin Terminal => Stage(s) = "open"
BY DEF Stage, Unfinished, OutboxState, Terminal

\* Who works alone on an action, and does not just give its lease back, works
\* on an open one that it knows.
LEMMA AtWork ==
  ASSUME IInv, KInv, NEW p \in Process, NEW i \in Action, i = job[p].id, pc[p] # "idle"
  PROVE  /\ outbox[i] \in Row /\ Stage(outbox[i].state) # "none"
         /\ Alone(i) => JobFits(pc[p], job[p], outbox[i])
         /\ Alone(i) /\ pc[p] # "release" => Stage(outbox[i].state) = "open"
<1>1. /\ outbox[i] \in Row /\ outbox[i].state # "absent"
      /\ outbox[i].state \in OutboxState
  BY MineFits DEF Mine, Row
<1>2. Alone(i) => JobFits(pc[p], job[p], outbox[i])
  BY DEF KInv, JobAgrees
<1>3. Alone(i) /\ pc[p] # "release" => outbox[i].state \notin Terminal
  BY <1>2 DEF JobFits
<1> QED BY <1>1, <1>2, <1>3, StageOfRow

\* A step that adds no answer keeps what is known of the answers, if it forgets
\* no response.
LEMMA AnswersKeep ==
  ASSUME KInv, NEW p \in Process, NEW i \in Action, Local(p, i),
         posted'[i] = posted[i],
         blame'[i] = {} /\ outbox'[i].response = NoResponse =>
           /\ outbox[i].response = NoResponse
           /\ pc[p] \notin {"markCopied", "complete"}
  PROVE  AnswersFit(i)'
<1> SUFFICES ASSUME blame'[i] = {}
             PROVE  Answers(i)' <= 1 /\ (Loose(i)' => Answers(i)' = 0)
  BY DEF AnswersFit
<1>1. AnswersFit(i) /\ blame[i] = {}
  BY DEF KInv, Local
<1>2. Answers(i)' = Answers(i)
  BY DEF Answers
<1>3. Loose(i)' => Loose(i)
  BY DEF Loose, Local
<1> QED BY <1>1, <1>2, <1>3 DEF AnswersFit

-----------------------------------------------------------------------------
(* The steps of a process.                                                 *)

LEMMA MarkCopiedKept == ASSUME IInv, KInv, NEW p \in Process, RunMarkCopied(p) PROVE Kept
<1>1. pc[p] = "markCopied" /\ pc[p] # "idle" /\ TypeOK
  BY DEF RunMarkCopied, IInv
<1>2. PICK i \in Action : i = job[p].id
  BY <1>1, MineFits
<1>3. PICK l, row : /\ l = AfterCopy(p, job[p])
                    /\ row = MarkOutboxCopied(outbox[i], job[p].response)
  OBVIOUS
<1>4. Goto(p, l) /\ Write(p, row) /\ UNCHANGED <<source, posted, job, batch, blame>>
  BY <1>2, <1>3 DEF RunMarkCopied, StoreOnly, Mine
<1>5. /\ pc'[p] = l /\ job'[p] = job[p] /\ batch'[p] = batch[p] /\ Local(p, i)
      /\ outbox'[i] = row /\ source'[i] = source[i] /\ posted'[i] = posted[i]
      /\ blame'[i] = blame[i]
  BY <1>1, <1>2, <1>3, <1>4, GotoOthers, WriteLocal
<1>6. /\ outbox[i] \in Row /\ (Alone(i) => Stage(outbox[i].state) = "open")
      /\ Alone(i) => JobFits("markCopied", job[p], outbox[i])
  BY <1>1, <1>2, <1>3, AtWork
<1>7. /\ row.state = "delete_requested" /\ row.op = outbox[i].op
      /\ row.response = job[p].response
  BY <1>2, <1>3, <1>6 DEF MarkOutboxCopied, Row
<1>8. /\ job[p].response # NoResponse /\ job[p].state \in Unfinished
      /\ job[p].op = "copy_media"
  BY <1>1, MineFits DEF LabelFits, EntrySound, EntryFits
<1>9. AnswersFit(i)'
  BY <1>5, <1>7, <1>8, AnswersKeep
<1>10. l \in {"delete", "markSend", "complete"}
  BY <1>2, <1>3, <1>8 DEF AfterCopy, Resume, Unfinished
<1>11. Alone(i) => JobFits(l, job[p], row)
  BY <1>6, <1>7, <1>10 DEF JobFits, Terminal
<1>12. KInv'
  <2>1. l \in Label \ {"idle"}
    BY <1>10 DEF Label, StoreCall
  <2> QED BY <1>2, <1>3, <1>5, <1>7, <1>9, <1>11, <2>1, StayKeeps
<1>13. D!Step(View(i), View(i)')
  BY <1>5, <1>6, <1>7, StageOfRow, OpenStep DEF Unfinished
<1> QED BY <1>5, <1>12, <1>13, LocalStep DEF Kept

LEMMA ReplaceKept == ASSUME IInv, KInv, NEW p \in Process, RunReplace(p) PROVE Kept
<1>1. pc[p] = "replace" /\ pc[p] # "idle" /\ TypeOK
  BY DEF RunReplace, IInv
<1>2. PICK i \in Action : i = job[p].id
  BY <1>1, MineFits
<1>3. PICK e, l, row : /\ e = [job[p] EXCEPT !.op = "text"]
                       /\ l = AfterReplace(p, e)
                       /\ row = ReplaceOutboxPayload(outbox[i], "text")
  OBVIOUS
<1>4. job' = [job EXCEPT ![p] = e] /\ job'[p] = e
  BY <1>1, <1>2, <1>3 DEF RunReplace, TypeOK
<1>5. /\ Goto(p, l) /\ Write(p, row) /\ UNCHANGED <<source, posted, batch, blame>>
  BY <1>2, <1>3, <1>4 DEF RunReplace, StoreOnly, Mine
<1>6. /\ pc'[p] = l /\ batch'[p] = batch[p]
      /\ \A q \in Process \ {p} : /\ pc'[q] = pc[q] /\ job'[q] = job[q]
                                  /\ batch'[q] = batch[q]
  BY <1>1, <1>4, <1>5 DEF Goto, TypeOK
<1>7. /\ Local(p, i)
      /\ outbox'[i] = row /\ source'[i] = source[i] /\ posted'[i] = posted[i]
      /\ blame'[i] = blame[i]
  BY <1>1, <1>2, <1>3, <1>5, <1>6, WriteLocal
<1>8. /\ outbox[i] \in Row
      /\ Alone(i) => JobFits("replace", job[p], outbox[i])
  BY <1>1, <1>2, <1>3, AtWork
<1>9. /\ row.state = outbox[i].state /\ row.op = "text"
      /\ row.response = outbox[i].response /\ row.state # "absent"
      /\ outbox[i].op \in {"text", "copy_media"}
  BY <1>1, <1>2, <1>3, <1>8, MineFits DEF ReplaceOutboxPayload, Row, Mine, Operation, LabelFits
<1>10. /\ e.id = i /\ e.op = "text" /\ e.state = job[p].state
      /\ e.response = job[p].response /\ job[p].state \in Unfinished
  BY <1>1, <1>2, <1>3, MineFits DEF Entry, EntrySound, EntryFits
<1>11. AnswersFit(i)'
  BY <1>1, <1>7, <1>9, AnswersKeep
<1>12. l \in {"markDelete", "delete", "complete", "send"}
  BY <1>2, <1>3, <1>10 DEF AfterReplace, Resume, Unfinished
<1>13. Alone(i) => JobFits(l, e, row)
  BY <1>8, <1>9, <1>10, <1>12 DEF JobFits
<1>14. KInv'
  <2>1. l \in Label \ {"idle"}
    BY <1>12 DEF Label, StoreCall
  <2> QED BY <1>4, <1>6, <1>7, <1>9, <1>10, <1>11, <1>13, <2>1, StayKeeps
<1>15. D!Step(View(i), View(i)')
  BY <1>7, <1>9, FallBackStep
<1> QED BY <1>7, <1>14, <1>15, LocalStep DEF Kept

LEMMA MarkDeleteKept == ASSUME IInv, KInv, NEW p \in Process, RunMarkDelete(p) PROVE Kept
<1>1. pc[p] = "markDelete" /\ pc[p] # "idle" /\ TypeOK
  BY DEF RunMarkDelete, IInv
<1>2. PICK i \in Action : i = job[p].id
  BY <1>1, MineFits
<1>3. PICK row : row = MarkDeleteRequested(outbox[i])
  OBVIOUS
<1>4. /\ Goto(p, "delete") /\ Write(p, row)
      /\ UNCHANGED <<source, posted, job, batch, blame>>
  BY <1>2, <1>3 DEF RunMarkDelete, StoreOnly, Mine
<1>5. /\ pc'[p] = "delete" /\ job'[p] = job[p] /\ batch'[p] = batch[p] /\ Local(p, i)
      /\ outbox'[i] = row /\ source'[i] = source[i] /\ posted'[i] = posted[i]
      /\ blame'[i] = blame[i]
  BY <1>1, <1>2, <1>3, <1>4, GotoOthers, WriteLocal
<1>6. /\ outbox[i] \in Row /\ (Alone(i) => Stage(outbox[i].state) = "open")
      /\ Alone(i) => JobFits("markDelete", job[p], outbox[i])
  BY <1>1, <1>2, <1>3, AtWork
<1>7. /\ row.state = "delete_requested" /\ row.op = outbox[i].op
      /\ row.response = outbox[i].response
  BY <1>2, <1>3, <1>6 DEF MarkDeleteRequested, UpdateOutbox, Row
<1>8. AnswersFit(i)'
  BY <1>1, <1>5, <1>7, AnswersKeep
<1>9. Alone(i) => JobFits("delete", job[p], row)
  BY <1>6, <1>7 DEF JobFits, Terminal
<1>10. KInv'
  <2>1. "delete" \in Label \ {"idle"}
    BY DEF Label
  <2> QED BY <1>2, <1>3, <1>5, <1>7, <1>8, <1>9, <2>1, StayKeeps
<1>11. D!Step(View(i), View(i)')
  BY <1>5, <1>6, <1>7, StageOfRow, OpenStep DEF Unfinished
<1> QED BY <1>5, <1>10, <1>11, LocalStep DEF Kept

LEMMA MarkSendKept == ASSUME IInv, KInv, NEW p \in Process, RunMarkSend(p) PROVE Kept
<1>1. pc[p] = "markSend" /\ pc[p] # "idle" /\ TypeOK
  BY DEF RunMarkSend, IInv
<1>2. PICK i \in Action : i = job[p].id
  BY <1>1, MineFits
<1>3. PICK l, row : /\ l = AfterMarkSend(job[p])
                    /\ row = MarkSendPending(outbox[i])
  OBVIOUS
<1>4. Goto(p, l) /\ Write(p, row) /\ UNCHANGED <<source, posted, job, batch, blame>>
  BY <1>2, <1>3 DEF RunMarkSend, StoreOnly, Mine
<1>5. /\ pc'[p] = l /\ job'[p] = job[p] /\ batch'[p] = batch[p] /\ Local(p, i)
      /\ outbox'[i] = row /\ source'[i] = source[i] /\ posted'[i] = posted[i]
      /\ blame'[i] = blame[i]
  BY <1>1, <1>2, <1>3, <1>4, GotoOthers, WriteLocal
<1>6. /\ outbox[i] \in Row /\ (Alone(i) => Stage(outbox[i].state) = "open")
      /\ Alone(i) => JobFits("markSend", job[p], outbox[i])
  BY <1>1, <1>2, <1>3, AtWork
<1>7. /\ row.state = "send_pending" /\ row.op = outbox[i].op
      /\ row.response = outbox[i].response
  BY <1>2, <1>3, <1>6 DEF MarkSendPending, Row
<1>8. AnswersFit(i)'
  BY <1>1, <1>5, <1>7, AnswersKeep
<1>9. l \in Label \ {"idle"} /\ (Alone(i) => JobFits(l, job[p], row))
  BY <1>2, <1>3, <1>6, <1>7 DEF JobFits, Terminal, AfterMarkSend, Label, StoreCall
<1>10. KInv'
  BY <1>2, <1>3, <1>5, <1>7, <1>8, <1>9, StayKeeps
<1>11. D!Step(View(i), View(i)')
  BY <1>5, <1>6, <1>7, StageOfRow, OpenStep DEF Unfinished
<1> QED BY <1>5, <1>10, <1>11, LocalStep DEF Kept

\* A response Telegram has accepted is one of the answers.
LEMMA Answered ==
  ASSUME IInv, NEW p \in Process, pc[p] \in {"markCopied", "complete"},
         NEW i \in Action, i = job[p].id
  PROVE  Answers(i) > 0
<1>1. job[p].response \in MessageKind /\ posted[i][job[p].response] > 0
  BY MineFits DEF LabelFits
<1>2. posted[i] \in [MessageKind -> Nat]
  BY DEF IInv, TypeOK
<1> QED BY <1>1, <1>2 DEF Answers, MessageKind

LEMMA CompleteKept == ASSUME IInv, KInv, NEW p \in Process, RunComplete(p) PROVE Kept
<1>1. pc[p] = "complete" /\ pc[p] # "idle" /\ TypeOK /\ Finish(p)
  BY DEF RunComplete, IInv
<1>2. PICK i \in Action : i = job[p].id
  BY <1>1, MineFits
<1>3. PICK row : row = MarkOutboxComplete(outbox[i], job[p].response)
  OBVIOUS
<1>4. Write(p, row) /\ UNCHANGED <<source, posted, blame>>
  BY <1>2, <1>3 DEF RunComplete, StoreOnly, Mine
<1>5. /\ Local(p, i)
      /\ outbox'[i] = row /\ source'[i] = source[i] /\ posted'[i] = posted[i]
      /\ blame'[i] = blame[i]
  BY <1>1, <1>2, <1>3, <1>4, EndOthers, WriteLocal
<1>6. outbox[i] \in Row /\ (Alone(i) => Stage(outbox[i].state) = "open")
  BY <1>1, <1>2, <1>3, AtWork
<1>7. /\ row.state = "complete" /\ row.op = outbox[i].op
      /\ row.response = job[p].response
  BY <1>2, <1>3, <1>6 DEF MarkOutboxComplete, Row
<1>8. /\ job[p].response # NoResponse /\ (outbox[i].op # "reply" => ~source[i])
  BY <1>1, <1>2, <1>3, MineFits DEF LabelFits, Mine
<1>9. AnswersFit(i)'
  BY <1>5, <1>7, <1>8, AnswersKeep
<1>10. KInv'
  BY <1>1, <1>5, <1>7, <1>9, EndKeeps
<1>11. D!Step(View(i), View(i)')
  BY <1>1, <1>2, <1>3, <1>5, <1>6, <1>7, <1>8, Answered, CompleteStep
<1> QED BY <1>5, <1>10, <1>11, LocalStep DEF Kept

LEMMA ReleaseKept ==
  ASSUME IInv, KInv, NEW p \in Process, RunRelease(p) \/ RunAbort(p) PROVE Kept
<1>1. /\ pc[p] \in {"release", "abort"} /\ pc[p] # "idle" /\ TypeOK
      /\ Finish(p) \/ Stop(p)
  BY DEF RunRelease, RunAbort, IInv
<1>2. PICK i \in Action : i = job[p].id
  BY <1>1, MineFits
<1>3. PICK row : row = ReleaseOutboxLease(outbox[i])
  OBVIOUS
<1>4. Write(p, row) /\ UNCHANGED <<source, posted, blame>>
  BY <1>2, <1>3 DEF RunRelease, RunAbort, StoreOnly, Mine
<1>5. /\ Local(p, i)
      /\ outbox'[i] = row /\ source'[i] = source[i] /\ posted'[i] = posted[i]
      /\ blame'[i] = blame[i]
  BY <1>1, <1>2, <1>3, <1>4, EndOthers, WriteLocal
<1>6. outbox[i] \in Row /\ outbox[i].state # "absent"
  BY <1>1, <1>2, <1>3, MineFits DEF Mine
<1>7. /\ row.state = outbox[i].state /\ row.op = outbox[i].op
      /\ row.response = outbox[i].response
  BY <1>2, <1>3, <1>6 DEF ReleaseOutboxLease, Row
<1>8. AnswersFit(i)'
  BY <1>1, <1>5, <1>7, AnswersKeep
<1>9. KInv'
  BY <1>1, <1>5, <1>6, <1>7, <1>8, EndKeeps
<1>10. D!Step(View(i), View(i)')
  BY <1>5, <1>7, SameStep
<1> QED BY <1>5, <1>9, <1>10, LocalStep DEF Kept

LEMMA MarkErrorKept == ASSUME IInv, KInv, NEW p \in Process, RunMarkError(p) PROVE Kept
<1>1. pc[p] = "markError" /\ pc[p] # "idle" /\ TypeOK
  BY DEF RunMarkError, IInv
<1>2. PICK i \in Action : i = job[p].id
  BY <1>1, MineFits
<1>3. PICK row : row = CASE failure[p].class = "permanent" -> MarkOutboxDead(outbox[i])
                         [] failure[p].class = "rate_limited" ->
                              MarkOutboxErrorAfter(outbox[i], failure[p].state, RetryDelay)
                         [] OTHER -> MarkOutboxErrorAfter(outbox[i], failure[p].state, 0)
  OBVIOUS
<1>4. Write(p, row) /\ UNCHANGED <<source, posted, blame>>
  BY <1>2, <1>3 DEF RunMarkError, Mine
<1>5. Stop(p) \/ (Goto(p, "release") /\ UNCHANGED <<job, batch>>)
  BY DEF RunMarkError
<1>6. \A q \in Process \ {p} : /\ pc'[q] = pc[q] /\ job'[q] = job[q]
                               /\ batch'[q] = batch[q]
  BY <1>1, <1>5, EndOthers, GotoOthers
<1>7. /\ Local(p, i)
      /\ outbox'[i] = row /\ source'[i] = source[i] /\ posted'[i] = posted[i]
      /\ blame'[i] = blame[i]
  BY <1>1, <1>2, <1>4, <1>6, WriteLocal
<1>8. /\ outbox[i] \in Row /\ (Alone(i) => Stage(outbox[i].state) = "open")
      /\ Alone(i) => JobFits("markError", job[p], outbox[i])
  BY <1>1, <1>2, AtWork
<1>9. failure[p].state \in Unfinished
  BY <1>1 DEF TypeOK, Failure, Unfinished
<1>10. \/ row = MarkOutboxDead(outbox[i])
       \/ \E d \in Nat : row = MarkOutboxErrorAfter(outbox[i], failure[p].state, d)
  BY <1>3, OutboxAssumption
<1>11. /\ row.state = "dead" \/ row.state \in Unfinished
       /\ row.op = outbox[i].op /\ row.response = outbox[i].response
  BY <1>8, <1>9, <1>10 DEF MarkOutboxDead, MarkOutboxErrorAfter, Row
<1>12. AnswersFit(i)'
  BY <1>1, <1>7, <1>11, AnswersKeep
<1>13. row.state # "absent"
  BY <1>11 DEF Unfinished
<1>14. KInv'
  <2>1. CASE Stop(p)
    BY <1>7, <1>12, <1>13, <2>1, EndKeeps
  <2>2. CASE Goto(p, "release") /\ UNCHANGED <<job, batch>>
    <3>1. pc'[p] = "release" /\ job'[p] = job[p] /\ batch'[p] = batch[p]
      BY <1>1, <2>2, GotoOthers
    <3>2. "release" \in Label \ {"idle"}
      BY DEF Label, StoreCall
    <3>3. Alone(i) => JobFits("release", job[p], row)
      BY <1>8, <1>11 DEF JobFits
    <3> QED BY <1>2, <1>7, <1>12, <1>13, <3>1, <3>2, <3>3, StayKeeps
  <2> QED BY <1>5, <2>1, <2>2
<1>15. D!Step(View(i), View(i)')
  <2>1. CASE row.state = "dead"
    BY <1>7, <1>8, <1>11, <2>1, GiveUpStep
  <2>2. CASE row.state \in Unfinished
    BY <1>7, <1>8, <1>11, <2>2, StageOfRow, OpenStep
  <2> QED BY <1>11, <2>1, <2>2
<1> QED BY <1>7, <1>14, <1>15, LocalStep DEF Kept

LEMMA StoreFailsKept == ASSUME IInv, KInv, NEW p \in Process, StoreFails(p) PROVE Kept
<1>1. /\ pc[p] # "idle" /\ TypeOK /\ UNCHANGED <<outbox, source, posted>>
      /\ Blame({job[q].id : q \in {q \in {p} : Unrecorded(q)}}, "store_error")
  BY DEF StoreFails, StoreCall, IInv
<1>2. PICK i \in Action : i = job[p].id
  BY <1>1, MineFits
<1>3. PICK l : l = IF pc[p] = "markError" THEN "release" ELSE "abort"
  OBVIOUS
<1>4. \/ Finish(p) \/ Stop(p)
      \/ pc[p] # "release" /\ Goto(p, l) /\ UNCHANGED <<job, batch>>
  BY <1>3 DEF StoreFails
<1>5. \A q \in Process \ {p} : /\ pc'[q] = pc[q] /\ job'[q] = job[q]
                               /\ batch'[q] = batch[q]
  BY <1>1, <1>4, EndOthers, GotoOthers
<1>6. /\ \A a \in Action \ {i} : blame'[a] = blame[a]
      /\ Unrecorded(p) => blame'[i] = blame[i] \cup {"store_error"}
      /\ ~Unrecorded(p) => blame'[i] = blame[i]
  BY <1>1, <1>2 DEF Blame
<1>7. Local(p, i)
  BY <1>1, <1>2, <1>5, <1>6 DEF Local
<1>8. AnswersFit(i)'
  <2>1. /\ posted'[i] = posted[i]
        /\ blame'[i] = {} /\ outbox'[i].response = NoResponse =>
             /\ outbox[i].response = NoResponse
             /\ pc[p] \notin {"markCopied", "complete"}
    BY <1>1, <1>2, <1>6 DEF Unrecorded, Mine
  <2> QED BY <1>7, <2>1, AnswersKeep
<1>9. outbox'[i].state # "absent"
  BY <1>1, <1>2, MineFits DEF Mine
<1>10. KInv'
  <2>1. CASE Finish(p) \/ Stop(p)
    BY <1>7, <1>8, <1>9, <2>1, EndKeeps
  <2>2. CASE pc[p] # "release" /\ Goto(p, l) /\ UNCHANGED <<job, batch>>
    <3>1. pc'[p] = l /\ job'[p] = job[p] /\ batch'[p] = batch[p]
      BY <1>1, <2>2, GotoOthers
    <3>2. l \in Label \ {"idle"}
      BY <1>3 DEF Label, StoreCall
    <3>3. Alone(i) => JobFits(pc[p], job[p], outbox[i])
      BY <1>1, <1>2, AtWork
    <3>4. Alone(i) => JobFits(l, job[p], outbox'[i])
      BY <1>1, <1>3, <2>2, <3>3 DEF JobFits
    <3> QED BY <1>2, <1>7, <1>8, <1>9, <3>1, <3>2, <3>4, StayKeeps
  <2> QED BY <1>4, <2>1, <2>2
<1>11. D!Step(View(i), View(i)')
  <2>1. CASE Unrecorded(p)
    <3>1. Answers(i) > 0
      BY <1>2, <2>1, Answered DEF Unrecorded
    <3> QED BY <1>1, <1>6, <2>1, <3>1, ExcuseStep
  <2>2. CASE ~Unrecorded(p)
    BY <1>1, <1>6, <2>2, SameStep
  <2> QED BY <2>1, <2>2
<1> QED BY <1>7, <1>10, <1>11, LocalStep DEF Kept

\* A call of the Bot API that posts nothing takes its process to a label at
\* which nothing more is presumed.
LEMMA UnpostedKept ==
  ASSUME IInv, KInv, NEW p \in Process, NEW i \in Action, i = job[p].id,
         pc[p] \in {"copy", "delete", "send"},
         NEW l \in {"markSend", "complete", "markError", "replace"}, Goto(p, l),
         UNCHANGED <<outbox, posted, job, batch, blame>>,
         \A a \in Action \ {i} : source'[a] = source[a],
         l = "replace" => pc[p] = "copy"
  PROVE  KInv' /\ Local(p, i)
<1>1. TypeOK /\ pc[p] # "idle"
  BY DEF IInv
<1>2. /\ pc'[p] = l /\ job'[p] = job[p] /\ batch'[p] = batch[p]
      /\ \A q \in Process \ {p} : /\ pc'[q] = pc[q] /\ job'[q] = job[q]
                                  /\ batch'[q] = batch[q]
  BY <1>1, GotoOthers
<1>3. Local(p, i)
  BY <1>1, <1>2 DEF Local
<1>4. AnswersFit(i)'
  BY <1>3, AnswersKeep
<1>5. outbox'[i].state # "absent"
  BY <1>1, MineFits DEF Mine
<1>6. Alone(i) => JobFits(pc[p], job[p], outbox[i])
  BY <1>1, AtWork
<1>7. Alone(i) => JobFits(l, job[p], outbox'[i])
  BY <1>6 DEF JobFits
<1>8. l \in Label \ {"idle"}
  BY DEF Label, StoreCall
<1> QED BY <1>2, <1>3, <1>4, <1>5, <1>7, <1>8, StayKeeps

LEMMA DeletedKept ==
  ASSUME IInv, KInv, NEW p \in Process, Deleted(p) \/ DeleteAnswerLost(p) PROVE Kept
<1>1. /\ pc[p] = "delete" /\ pc[p] # "idle" /\ TypeOK
      /\ UNCHANGED <<outbox, posted, job, batch, blame>>
  BY DEF Deleted, DeleteAnswerLost, IInv
<1>2. PICK i \in Action : i = job[p].id
  BY <1>1, MineFits
<1>3. source[i] /\ source' = [source EXCEPT ![i] = FALSE]
  BY <1>2 DEF Deleted, DeleteAnswerLost
<1>4. PICK l \in {"markSend", "complete", "markError"} : Goto(p, l)
  BY DEF Deleted, DeleteAnswerLost, Fail, AfterDelete
<1>5. ~source'[i] /\ \A a \in Action \ {i} : source'[a] = source[a]
  BY <1>1, <1>3 DEF TypeOK
<1>6. KInv' /\ Local(p, i)
  BY <1>1, <1>2, <1>4, <1>5, UnpostedKept
<1>7. D!Step(View(i), View(i)')
  BY <1>1, <1>2, <1>3, <1>5, AtWork, RemoveStep
<1> QED BY <1>6, <1>7, LocalStep DEF Kept

LEMMA RefusedKept ==
  ASSUME IInv, KInv, NEW p \in Process, NEW x, DeleteFails(p, x) \/ PostFails(p, x)
  PROVE  Kept
<1>1. /\ pc[p] \in {"copy", "delete", "send"} /\ pc[p] # "idle"
      /\ UNCHANGED <<outbox, source, posted, job, batch, blame>>
  BY DEF DeleteFails, PostFails
<1>2. PICK i \in Action : i = job[p].id
  BY <1>1, MineFits
<1>3. PICK l \in {"markSend", "complete", "markError", "replace"} :
        Goto(p, l) /\ (l = "replace" => pc[p] = "copy")
  BY DEF DeleteFails, PostFails, Fail, AfterDelete
<1>4. KInv' /\ Local(p, i)
  BY <1>1, <1>2, <1>3, UnpostedKept
<1>5. D!Step(View(i), View(i)')
  BY <1>1, SameStep
<1> QED BY <1>4, <1>5, LocalStep DEF Kept

\* Who may post without an excuse posts the first answer; the kind fits.
LEMMA AcceptFits ==
  ASSUME IInv, KInv, NEW p \in Process, Accept(p), NEW i \in Action, i = job[p].id
  PROVE  /\ Kind(p) \in MessageKind
         /\ posted'[i] = [posted[i] EXCEPT ![Kind(p)] = @ + 1]
         /\ \A a \in Action \ {i} : posted'[a] = posted[a]
         /\ blame[i] = {} => Stage(outbox[i].state) = "open" /\ Answers(i) = 0
         /\ Kind(p) = "text" <=> ~source[i]
         /\ Kind(p) = "reply" <=> outbox[i].op = "reply"
         /\ Kind(p) = "copy" => outbox[i].op = "copy_media" \/ ~Alone(i)
<1>1. /\ pc[p] \in {"copy", "send"} /\ pc[p] # "idle" /\ TypeOK
      /\ Kind(p) = "text" \/ source[i]
      /\ posted' = [posted EXCEPT ![i][Kind(p)] = @ + 1]
  BY DEF Accept, IInv
<1>2. Kind(p) \in MessageKind
  BY DEF Kind, MessageKind
<1>3. /\ posted'[i] = [posted[i] EXCEPT ![Kind(p)] = @ + 1]
      /\ \A a \in Action \ {i} : posted'[a] = posted[a]
  BY <1>1 DEF TypeOK
<1>4. Alone(i) => /\ JobFits(pc[p], job[p], outbox[i])
                  /\ Stage(outbox[i].state) = "open"
  BY <1>1, AtWork
<1>5. blame[i] = {} => Stage(outbox[i].state) = "open" /\ Answers(i) = 0
  <2> SUFFICES ASSUME blame[i] = {} PROVE Answers(i) = 0
    BY <1>4 DEF Alone
  <2>1. Alone(i) /\ Holds(p, i) /\ outbox[i].response = NoResponse
    BY <1>1, <1>4 DEF Alone, Holds, JobFits
  <2>2. ASSUME NEW q \in Process, job[q].id = i, pc[q] \in {"markCopied", "complete"}
        PROVE  FALSE
    <3>1. Holds(q, i)
      BY <2>2 DEF Holds
    <3>2. q = p
      BY <2>1, <3>1 DEF KInv, Exclusive
    <3> QED BY <1>1, <2>2, <3>2
  <2>3. Loose(i)
    BY <2>1, <2>2 DEF Loose
  <2> QED BY <2>3 DEF KInv, AnswersFit
<1>6. /\ LabelFits(pc[p], p, job[p], source[i], failure[p])
      /\ job[p].op = "reply" <=> outbox[i].op = "reply"
  BY <1>1, MineFits DEF Mine
<1>7. Kind(p) = "text" <=> ~source[i]
  BY <1>1, <1>6 DEF Kind, LabelFits
<1>8. Kind(p) = "reply" <=> outbox[i].op = "reply"
  BY <1>1, <1>6 DEF Kind, LabelFits
<1>9. Kind(p) = "copy" => outbox[i].op = "copy_media" \/ ~Alone(i)
  BY <1>1, <1>4, <1>6 DEF Kind, LabelFits, JobFits
<1> QED BY <1>2, <1>3, <1>5, <1>7, <1>8, <1>9

LEMMA PostedKept == ASSUME IInv, KInv, NEW p \in Process, Posted(p) PROVE Kept
<1>1. /\ pc[p] \in {"copy", "send"} /\ pc[p] # "idle" /\ TypeOK /\ Accept(p)
      /\ UNCHANGED <<outbox, source, batch, blame>>
  BY DEF Posted, Accept, IInv
<1>2. PICK i \in Action : i = job[p].id
  BY <1>1, MineFits
<1>3. PICK l, e : /\ l = IF pc[p] = "copy" THEN "markCopied" ELSE "complete"
                  /\ e = [job[p] EXCEPT !.response = Kind(p)]
  OBVIOUS
<1>4. /\ pc'[p] = l /\ job'[p] = e /\ batch'[p] = batch[p]
      /\ \A q \in Process \ {p} : /\ pc'[q] = pc[q] /\ job'[q] = job[q]
                                  /\ batch'[q] = batch[q]
  BY <1>1, <1>3 DEF Posted, Goto, TypeOK
<1>5. e.id = i /\ e.op = job[p].op
  BY <1>1, <1>2, <1>3, MineFits DEF Entry
<1>6. /\ Kind(p) \in MessageKind
      /\ posted'[i] = [posted[i] EXCEPT ![Kind(p)] = @ + 1]
      /\ \A a \in Action \ {i} : posted'[a] = posted[a]
      /\ blame[i] = {} => Stage(outbox[i].state) = "open" /\ Answers(i) = 0
      /\ Kind(p) = "text" <=> ~source[i]
      /\ Kind(p) = "reply" <=> outbox[i].op = "reply"
      /\ Kind(p) = "copy" => outbox[i].op = "copy_media" \/ ~Alone(i)
  BY <1>1, <1>2, AcceptFits
<1>7. Local(p, i)
  BY <1>1, <1>2, <1>4, <1>6 DEF Local
<1>8. AnswersFit(i)'
  <2>1. ~Loose(i)'
    BY <1>3, <1>4, <1>5 DEF Loose
  <2>2. Answers(i) = 0 => Answers(i)' = 1
    <3>1. posted[i] \in [MessageKind -> Nat]
      BY <1>1 DEF TypeOK
    <3> QED BY <1>6, <3>1 DEF Answers, MessageKind
  <2> QED BY <1>1, <1>6, <2>1, <2>2 DEF AnswersFit
<1>9. Alone(i) => JobFits(l, e, outbox'[i])
  <2>1. Alone(i) => JobFits(pc[p], job[p], outbox[i])
    BY <1>1, <1>2, AtWork
  <2> QED BY <1>1, <1>3, <1>5, <2>1 DEF JobFits
<1>10. KInv'
  <2>1. l \in Label \ {"idle"}
    BY <1>3 DEF Label, StoreCall
  <2>2. outbox'[i].state # "absent"
    BY <1>1, <1>2, MineFits DEF Mine
  <2> QED BY <1>4, <1>5, <1>7, <1>8, <1>9, <2>1, <2>2, StayKeeps
<1>11. D!Step(View(i), View(i)')
  <2>1. blame'[i] = blame[i] \cup {} /\ outbox'[i] = outbox[i] /\ source'[i] = source[i]
    BY <1>1
  <2>2. PICK k \in MessageKind : k = Kind(p)
    BY <1>6
  <2> QED BY <1>6, <2>1, <2>2, AnswerStep
<1> QED BY <1>7, <1>10, <1>11, LocalStep DEF Kept

LEMMA PostAnswerLostKept ==
  ASSUME IInv, KInv, NEW p \in Process, PostAnswerLost(p) PROVE Kept
<1>1. /\ pc[p] \in {"copy", "send"} /\ pc[p] # "idle" /\ TypeOK /\ Accept(p)
      /\ UNCHANGED <<outbox, source, job, batch>> /\ Goto(p, "markError")
  BY DEF PostAnswerLost, Fail, Accept, IInv
<1>2. PICK i \in Action : i = job[p].id
  BY <1>1, MineFits
<1>3. /\ blame'[i] = blame[i] \cup {"lost_answer"}
      /\ \A a \in Action \ {i} : blame'[a] = blame[a]
  BY <1>2 DEF PostAnswerLost, Blame
<1>4. /\ pc'[p] = "markError" /\ job'[p] = job[p] /\ batch'[p] = batch[p]
      /\ \A q \in Process \ {p} : /\ pc'[q] = pc[q] /\ job'[q] = job[q]
                                  /\ batch'[q] = batch[q]
  BY <1>1, GotoOthers
<1>5. /\ Kind(p) \in MessageKind
      /\ posted'[i] = [posted[i] EXCEPT ![Kind(p)] = @ + 1]
      /\ \A a \in Action \ {i} : posted'[a] = posted[a]
      /\ blame[i] = {} => Stage(outbox[i].state) = "open" /\ Answers(i) = 0
      /\ Kind(p) = "text" <=> ~source[i]
      /\ Kind(p) = "reply" <=> outbox[i].op = "reply"
      /\ Kind(p) = "copy" => outbox[i].op = "copy_media" \/ ~Alone(i)
  BY <1>1, <1>2, AcceptFits
<1>6. Local(p, i)
  BY <1>1, <1>2, <1>3, <1>4, <1>5 DEF Local
<1>7. AnswersFit(i)'
  BY <1>3 DEF AnswersFit
<1>8. Alone(i) => JobFits("markError", job[p], outbox'[i])
  <2>1. Alone(i) => JobFits(pc[p], job[p], outbox[i])
    BY <1>1, <1>2, AtWork
  <2> QED BY <1>1, <2>1 DEF JobFits
<1>9. KInv'
  <2>1. "markError" \in Label \ {"idle"}
    BY DEF Label, StoreCall
  <2>2. outbox'[i].state # "absent"
    BY <1>1, <1>2, MineFits DEF Mine
  <2> QED BY <1>2, <1>4, <1>6, <1>7, <1>8, <2>1, <2>2, StayKeeps
<1>10. D!Step(View(i), View(i)')
  <2>1. outbox'[i] = outbox[i] /\ source'[i] = source[i]
    BY <1>1
  <2>2. PICK k \in MessageKind : k = Kind(p)
    BY <1>5
  <2> QED BY <1>3, <1>5, <2>1, <2>2, AnswerStep
<1> QED BY <1>6, <1>9, <1>10, LocalStep DEF Kept

LEMMA ProcessKept ==
  ASSUME IInv, KInv, NEW p \in Process, ProcessStep(p) PROVE Kept
<1>1. CASE StoreStep(p)
  BY <1>1, MarkCopiedKept, ReplaceKept, MarkDeleteKept, MarkSendKept, CompleteKept,
     MarkErrorKept, ReleaseKept DEF StoreStep
<1>2. CASE StoreFails(p)
  BY <1>2, StoreFailsKept
<1>3. CASE TelegramStep(p)
  BY <1>3, DeletedKept, RefusedKept, PostedKept, PostAnswerLostKept
     DEF TelegramStep, Settled
<1> QED BY <1>1, <1>2, <1>3 DEF ProcessStep

-----------------------------------------------------------------------------
(* The other steps.                                                        *)

\* What KInv reads of a row.
SameRow(a) == /\ outbox'[a].op = outbox[a].op
              /\ outbox'[a].state = outbox[a].state
              /\ outbox'[a].response = outbox[a].response

LEMMA QuietKeeps ==
  ASSUME IInv, KInv, UNCHANGED <<pc, job, batch, posted, blame>>,
         \A a \in Action : SameRow(a)
  PROVE  KInv'
<1>1. Exclusive'
  BY DEF KInv, Exclusive, Alone, Holds
<1>2. ASSUME NEW p \in Process PROVE Apart(p)' /\ JobAgrees(p)' /\ BatchAgrees(p)'
  <2>1. Apart(p) /\ JobAgrees(p) /\ BatchAgrees(p)
    BY DEF KInv
  <2>2. pc[p] # "idle" => job[p].id \in Action
    BY MineFits
  <2>3. \A e \in batch[p] : e.id \in Action
    BY DEF IInv, BatchSound, EntrySound, EntryFits, Entry
  <2>4. Apart(p)'
    BY <2>1 DEF Apart
  <2>5. JobAgrees(p)'
    BY <2>1, <2>2 DEF JobAgrees, JobFits, Alone, SameRow
  <2>6. BatchAgrees(p)'
    BY <2>1, <2>3 DEF BatchAgrees, EntryAgrees, Alone, SameRow
  <2> QED BY <2>4, <2>5, <2>6
<1>3. ASSUME NEW a \in Action PROVE AnswersFit(a)' /\ Fresh(a)'
  <2>1. AnswersFit(a) /\ Fresh(a) /\ SameRow(a)
    BY DEF KInv
  <2>2. Loose(a)' <=> Loose(a)
    BY <2>1 DEF Loose, SameRow
  <2> QED BY <2>1, <2>2 DEF AnswersFit, Answers, Fresh, SameRow
<1> QED BY <1>1, <1>2, <1>3 DEF KInv

LEMMA MemberDeletesKept ==
  ASSUME IInv, KInv, NEW i \in Action, MemberDeletes(i) PROVE Kept
<1>1. /\ UNCHANGED <<outbox, posted, pc, job, batch, blame>> /\ source[i]
      /\ source' = [source EXCEPT ![i] = FALSE]
      /\ outbox[i].state # "absent" /\ TypeOK
  BY DEF MemberDeletes, IInv
<1>2. ~source'[i] /\ \A a \in Action \ {i} : source'[a] = source[a]
  BY <1>1 DEF TypeOK
<1>3. Stage(outbox[i].state) # "none"
  BY <1>1, StageOfRow DEF TypeOK, Row
<1>4. D!Step(View(i), View(i)')
  BY <1>1, <1>2, <1>3, RemoveStep
<1>5. \A a \in Action \ {i} : D!Step(View(a), View(a)')
  BY <1>1, <1>2, SameStep
<1>6. KInv'
  BY <1>1, QuietKeeps DEF SameRow
<1> QED BY <1>4, <1>5, <1>6 DEF Kept

LEMMA TickKept == ASSUME IInv, KInv, Tick PROVE Kept
<1>1. /\ outbox' = [a \in Action |-> Elapse(outbox[a])] /\ TypeOK
      /\ UNCHANGED <<source, posted, pc, job, batch, blame>>
  BY DEF Tick, IInv
<1>2. \A a \in Action : SameRow(a)
  BY <1>1 DEF TypeOK, Elapse, Row, SameRow
<1>3. \A a \in Action : D!Step(View(a), View(a)')
  BY <1>1, <1>2, SameStep DEF SameRow
<1> QED BY <1>1, <1>2, <1>3, QuietKeeps DEF Kept

LEMMA StutterKept == ASSUME IInv, KInv, UNCHANGED vars PROVE Kept
<1>1. UNCHANGED <<outbox, source, posted, pc, job, batch, blame>>
  BY DEF vars
<1>2. \A a \in Action : SameRow(a)
  BY <1>1 DEF SameRow
<1>3. \A a \in Action : D!Step(View(a), View(a)')
  BY <1>1, SameStep
<1> QED BY <1>1, <1>2, <1>3, QuietKeeps DEF Kept

\* A plan is nobody's until the handler, which was at rest, takes it up.
LEMMA CreateCanonicalKept ==
  ASSUME IInv, KInv, NEW i \in Action, NEW op \in Operation, CreateCanonical(i, op)
  PROVE  Kept
<1>1. /\ TypeOK /\ pc[Handler] = "idle" /\ outbox[i].state = "absent"
      /\ UNCHANGED <<source, posted, batch, blame>>
      /\ Handler \in Process
  BY DEF CreateCanonical, IInv, Process
<1>2. PICK row, e, l : /\ row = Planned(op)
                       /\ e = [id |-> i, op |-> op, state |-> "planned",
                               response |-> NoResponse]
                       /\ l = Inline(op)
  OBVIOUS
<1>3. /\ outbox'[i] = row /\ \A a \in Action \ {i} : outbox'[a] = outbox[a]
      /\ job'[Handler] = e /\ pc'[Handler] = l
      /\ \A q \in Process \ {Handler} : pc'[q] = pc[q] /\ job'[q] = job[q]
  BY <1>1, <1>2 DEF CreateCanonical, Goto, TypeOK
<1>4. /\ row.state = "planned" /\ row.op = op /\ row.response = NoResponse
      /\ e.id = i /\ e.op = op /\ e.response = NoResponse
      /\ l \in {"copy", "markSend", "markDelete"}
  BY <1>2 DEF Planned, Absent, Inline, Operation
<1>5. \A q \in Process : ~Holds(q, i)
  <2>1. \A q \in Process : pc[q] # "idle" => job[q].id # i
    BY <1>1, MineFits DEF Mine
  <2>2. \A q \in Process : \A f \in batch[q] : f.id # i
    BY <1>1 DEF IInv, BatchSound, EntrySound, EntryFits
  <2> QED BY <2>1, <2>2 DEF Holds
<1>6. batch'[Handler] = {} /\ \A q \in Process : batch'[q] = batch[q]
  BY <1>1 DEF KInv, Apart
<1>7. \A a \in Action : Holds(Handler, a)' => a = i
  BY <1>3, <1>4, <1>6 DEF Holds
<1>8. \A q \in Process \ {Handler}, a \in Action : Holds(q, a)' <=> Holds(q, a)
  BY <1>3, <1>6 DEF Holds
<1>9. Exclusive'
  <2> SUFFICES ASSUME NEW a \in Action, NEW p \in Process, NEW q \in Process,
                      Alone(a)', Holds(p, a)', Holds(q, a)'
               PROVE  p = q
    BY DEF Exclusive
  <2>1. CASE a = i
    BY <1>5, <1>8, <2>1
  <2>2. CASE a # i
    BY <1>1, <1>7, <1>8, <2>2 DEF KInv, Exclusive, Alone
  <2> QED BY <2>1, <2>2
<1>10. Apart(Handler)' /\ JobAgrees(Handler)' /\ BatchAgrees(Handler)'
  <2>1. l # "idle" /\ JobFits(l, e, row)
    BY <1>4 DEF JobFits, Terminal
  <2> QED BY <1>3, <1>4, <1>6, <2>1 DEF Apart, JobAgrees, BatchAgrees
<1>11. ASSUME NEW q \in Process \ {Handler}
       PROVE  Apart(q)' /\ JobAgrees(q)' /\ BatchAgrees(q)'
  <2>1. /\ Apart(q) /\ JobAgrees(q) /\ BatchAgrees(q)
        /\ pc'[q] = pc[q] /\ job'[q] = job[q] /\ batch'[q] = batch[q]
    BY <1>3, <1>6 DEF KInv
  <2>2. pc[q] # "idle" => job[q].id \in Action \ {i}
    BY <1>5, MineFits DEF Holds
  <2>3. \A f \in batch[q] : f.id \in Action \ {i}
    BY <1>1 DEF IInv, BatchSound, EntrySound, EntryFits, Entry
  <2>4. Apart(q)'
    BY <2>1 DEF Apart
  <2>5. JobAgrees(q)'
    BY <1>1, <1>3, <2>1, <2>2 DEF JobAgrees, Alone
  <2>6. BatchAgrees(q)'
    BY <1>1, <1>3, <2>1, <2>3 DEF BatchAgrees, Alone
  <2> QED BY <2>4, <2>5, <2>6
<1>12. ASSUME NEW a \in Action PROVE AnswersFit(a)' /\ Fresh(a)'
  <2>1. AnswersFit(a) /\ Fresh(a)
    BY DEF KInv
  <2>2. Loose(a)' => Loose(a)
    <3>1. outbox'[a].response = NoResponse => outbox[a].response = NoResponse
      BY <1>1, <1>3, <2>1 DEF Fresh
    <3>2. \A q \in Process : job[q].id = a /\ pc[q] \in {"markCopied", "complete"}
                               => q # Handler
      BY <1>1
    <3> QED BY <1>3, <3>1, <3>2 DEF Loose
  <2>3. AnswersFit(a)'
    BY <1>1, <2>1, <2>2 DEF AnswersFit, Answers
  <2>4. Fresh(a)'
    BY <1>3, <1>4, <2>1 DEF Fresh
  <2> QED BY <2>3, <2>4
<1>13. KInv'
  BY <1>9, <1>10, <1>11, <1>12 DEF KInv
<1>14. D!Step(View(i), View(i)')
  <2>1. Stage(outbox[i].state) = "none" /\ Stage(row.state) = "open"
    BY <1>1, <1>4 DEF Stage, Terminal
  <2>2. PICK o, g, s, x : View(i) = [stage |-> "none", op |-> o, original |-> g,
                                     answers |-> s, excuses |-> x]
                       /\ View(i)' = [stage |-> "open", op |-> op, original |-> g,
                                      answers |-> s, excuses |-> x]
    BY <1>1, <1>3, <1>4, <2>1 DEF View
  <2>3. D!With(D!At(View(i), "open"), op) = View(i)'
    <3>1. PICK t : /\ t = D!At(View(i), "open")
                   /\ t = [stage |-> "open", op |-> o, original |-> g,
                           answers |-> s, excuses |-> x]
      <4>1. View(i) = [stage |-> "none", op |-> o, original |-> g,
                       answers |-> s, excuses |-> x]
        BY <2>2
      <4>2. D!At(View(i), "open") = [stage |-> "open", op |-> o, original |-> g,
                                     answers |-> s, excuses |-> x]
        BY <4>1 DEF D!At
      <4> QED BY <4>2
    <3>2. D!With(t, op) = [stage |-> "open", op |-> op, original |-> g,
                           answers |-> s, excuses |-> x]
      BY <3>1 DEF D!With
    <3> QED BY <2>2, <3>1, <3>2
  <2>4. View(i).stage = "none"
    BY <2>2
  <2>5. D!Plan(View(i), View(i)')
    BY <2>3, <2>4 DEF D!Plan, Operation
  <2> QED BY <2>5 DEF D!Step
<1>15. \A a \in Action \ {i} : D!Step(View(a), View(a)')
  BY <1>1, <1>3, SameStep
<1> QED BY <1>13, <1>14, <1>15 DEF Kept

\* A claim makes a worker, which held nothing, the only one that holds what
\* nobody was at work on; anything else is shared from then on.
LEMMA PendingOutboxKept ==
  ASSUME IInv, KInv, NEW w \in Worker, PendingOutbox(w) PROVE Kept
<1>1. /\ TypeOK /\ w \in Process /\ pc[w] = "idle"
      /\ UNCHANGED <<source, posted>>
  BY DEF PendingOutbox, IInv, Process
<1>2. PICK due \in SUBSET Action : due = {a \in Action : Claimable(outbox[a])}
  OBVIOUS
<1>3. PICK E : E = {[id |-> a, op |-> outbox[a].op, state |-> outbox[a].state,
                     response |-> outbox[a].response] : a \in due}
  OBVIOUS
<1>4. /\ outbox' = [a \in Action |-> IF a \in due THEN Claimed(outbox[a]) ELSE outbox[a]]
      /\ Take(w, E)
      /\ Blame({a \in due : Busy(a)}, "overlap")
  BY <1>2, <1>3 DEF PendingOutbox
<1>5. \A a \in Action : outbox[a] \in Row
  BY <1>1 DEF TypeOK
<1>6. \A a \in Action : SameRow(a)
  BY <1>4, <1>5 DEF SameRow, Claimed, Row
<1>7. \A a \in due : outbox[a].state \in Unfinished
  BY <1>2, <1>5 DEF Claimable, Row, OutboxState, Terminal, Unfinished
<1>8. \A q \in Process \ {w} : /\ pc'[q] = pc[q] /\ job'[q] = job[q]
                               /\ batch'[q] = batch[q]
  BY <1>1, <1>4 DEF Take, Goto, TypeOK
<1>9. /\ \A a \in due : Busy(a) => blame'[a] = blame[a] \cup {"overlap"}
      /\ \A a \in Action : a \notin due \/ ~Busy(a) => blame'[a] = blame[a]
  BY <1>4 DEF Blame
<1>10. \A a \in Action : blame[a] \subseteq blame'[a] /\ (Alone(a)' => Alone(a))
  BY <1>9 DEF Alone
<1>11. ASSUME NEW e \in E
       PROVE  /\ e.id \in due /\ e.state \in Unfinished
              /\ EntryAgrees(e, outbox'[e.id])
  <2>1. PICK a \in due : e = [id |-> a, op |-> outbox[a].op, state |-> outbox[a].state,
                              response |-> outbox[a].response]
    BY <1>3
  <2> QED BY <1>6, <1>7, <2>1 DEF EntryAgrees, SameRow, Unfinished, Terminal
<1>12. \A e, f \in E : e.id = f.id => e = f
  BY <1>3
<1>13. /\ Apart(w)' /\ JobAgrees(w)' /\ BatchAgrees(w)'
       /\ \A a \in Action : Holds(w, a)' => \E e \in E : e.id = a
  BY <1>1, <1>4, <1>11, <1>12, TakeKeeps
<1>14. \A a \in Action : Holds(w, a)' => a \in due
  BY <1>11, <1>13
<1>15. \A q \in Process \ {w}, a \in Action : Holds(q, a)' <=> Holds(q, a)
  BY <1>8 DEF Holds
<1>16. \A q \in Process, a \in due : Holds(q, a) => ~Alone(a)'
  BY <1>9 DEF Holds, Busy, Alone
<1>17. Exclusive'
  <2> SUFFICES ASSUME NEW a \in Action, NEW p \in Process, NEW q \in Process,
                      Alone(a)', Holds(p, a)', Holds(q, a)'
               PROVE  p = q
    BY DEF Exclusive
  <2>1. CASE Holds(w, a)'
    BY <1>14, <1>15, <1>16, <2>1
  <2>2. CASE ~Holds(w, a)'
    BY <1>10, <1>15, <2>2 DEF KInv, Exclusive
  <2> QED BY <2>1, <2>2
<1>18. ASSUME NEW q \in Process \ {w}
       PROVE  Apart(q)' /\ JobAgrees(q)' /\ BatchAgrees(q)'
  <2>1. /\ Apart(q) /\ JobAgrees(q) /\ BatchAgrees(q)
        /\ pc'[q] = pc[q] /\ job'[q] = job[q] /\ batch'[q] = batch[q]
    BY <1>8 DEF KInv
  <2>2. pc[q] # "idle" => job[q].id \in Action
    BY MineFits
  <2>3. \A f \in batch[q] : f.id \in Action
    BY DEF IInv, BatchSound, EntrySound, EntryFits, Entry
  <2>4. Apart(q)'
    BY <2>1 DEF Apart
  <2>5. JobAgrees(q)'
    BY <1>6, <1>10, <2>1, <2>2 DEF JobAgrees, JobFits, SameRow, Alone
  <2>6. BatchAgrees(q)'
    BY <1>6, <1>10, <2>1, <2>3 DEF BatchAgrees, EntryAgrees, SameRow, Alone
  <2> QED BY <2>4, <2>5, <2>6
<1>19. ASSUME NEW a \in Action PROVE AnswersFit(a)' /\ Fresh(a)'
  <2>1. AnswersFit(a) /\ Fresh(a) /\ SameRow(a) /\ blame[a] \subseteq blame'[a]
    BY <1>6, <1>10 DEF KInv
  <2>2. Loose(a)' => Loose(a)
    <3>1. \A q \in Process : job[q].id = a /\ pc[q] \in {"markCopied", "complete"}
                               => q # w
      BY <1>1
    <3> QED BY <1>8, <2>1, <3>1 DEF Loose, SameRow
  <2> QED BY <1>1, <2>1, <2>2 DEF AnswersFit, Answers, Fresh, SameRow
<1>20. KInv'
  BY <1>13, <1>17, <1>18, <1>19 DEF KInv
<1>21. ASSUME NEW a \in Action PROVE D!Step(View(a), View(a)')
  <2>1. CASE a \in due /\ Busy(a)
    <3>1. Stage(outbox[a].state) = "open"
      BY <1>7, <2>1, StageOfRow
    <3>2. blame'[a] = blame[a] \cup {"overlap"}
      BY <1>9, <2>1
    <3>3. PICK c \in {"crash", "store_error", "overlap"} : c = "overlap"
      OBVIOUS
    <3> QED BY <1>1, <1>6, <3>1, <3>2, <3>3, ExcuseStep DEF SameRow
  <2>2. CASE ~(a \in due /\ Busy(a))
    BY <1>1, <1>6, <1>9, <2>2, SameStep DEF SameRow
  <2> QED BY <2>1, <2>2
<1> QED BY <1>20, <1>21 DEF Kept

LEMMA CrashKept == ASSUME IInv, KInv, Crash PROVE Kept
<1>1. /\ UNCHANGED <<outbox, source, posted>> /\ TypeOK
      /\ pc' = [p \in Process |-> "idle"] /\ batch' = [p \in Process |-> {}]
      /\ Blame({job[p].id : p \in {q \in Process : Unrecorded(q)}}, "crash")
  BY DEF Crash, IInv
<1>2. ASSUME NEW a \in Action
      PROVE  \/ /\ blame'[a] = blame[a] \cup {"crash"}
                /\ \E p \in Process : Unrecorded(p) /\ job[p].id = a
             \/ /\ blame'[a] = blame[a]
                /\ \A p \in Process : job[p].id = a => ~Unrecorded(p)
  BY <1>1 DEF Blame
<1>3. Exclusive' /\ \A p \in Process : Apart(p)' /\ JobAgrees(p)' /\ BatchAgrees(p)'
  BY <1>1 DEF Exclusive, Holds, Apart, JobAgrees, BatchAgrees
<1>4. ASSUME NEW a \in Action PROVE AnswersFit(a)' /\ Fresh(a)'
  <2>1. AnswersFit(a) /\ Fresh(a)
    BY DEF KInv
  <2>2. blame'[a] = {} => blame[a] = {} /\ (Loose(a)' => Loose(a))
    BY <1>1, <1>2 DEF Loose, Unrecorded, Mine
  <2> QED BY <1>1, <2>1, <2>2 DEF AnswersFit, Answers, Fresh
<1>5. KInv'
  BY <1>3, <1>4 DEF KInv
<1>6. ASSUME NEW a \in Action PROVE D!Step(View(a), View(a)')
  <2>1. CASE /\ blame'[a] = blame[a] \cup {"crash"}
             /\ \E p \in Process : Unrecorded(p) /\ job[p].id = a
    <3>1. Answers(a) > 0
      BY <2>1, Answered DEF Unrecorded
    <3> QED BY <1>1, <2>1, <3>1, ExcuseStep
  <2>2. CASE blame'[a] = blame[a]
    BY <1>1, <2>2, SameStep
  <2> QED BY <1>2, <2>1, <2>2
<1> QED BY <1>5, <1>6 DEF Kept

LEMMA NextKept == ASSUME IInv, KInv, [Next]_vars PROVE Kept
<1>1. CASE \E a \in Action, op \in Plans : CreateCanonical(a, op)
  BY <1>1, CreateCanonicalKept, OutboxAssumption
<1>2. CASE \E w \in Worker : PendingOutbox(w)
  BY <1>2, PendingOutboxKept
<1>3. CASE \E p \in Process : ProcessStep(p)
  BY <1>3, ProcessKept
<1>4. CASE \E a \in Action : MemberDeletes(a)
  BY <1>4, MemberDeletesKept
<1>5. CASE Crash \/ Tick \/ UNCHANGED vars
  BY <1>5, CrashKept, TickKept, StutterKept
<1> QED BY <1>1, <1>2, <1>3, <1>4, <1>5 DEF Next

LEMMA InitKnown == ASSUME Init PROVE KInv
<1>1. \A a \in Action : outbox[a].response = NoResponse /\ Answers(a) = 0
  BY DEF Init, Absent, Answers, MessageKind
<1>2. \A p \in Process : pc[p] = "idle" /\ batch[p] = {}
  BY DEF Init
<1>3. Exclusive /\ \A p \in Process : Apart(p) /\ JobAgrees(p) /\ BatchAgrees(p)
  BY <1>2 DEF Exclusive, Holds, Apart, JobAgrees, BatchAgrees
<1>4. \A a \in Action : AnswersFit(a) /\ Fresh(a)
  BY <1>1 DEF AnswersFit, Fresh
<1> QED BY <1>3, <1>4 DEF KInv

-----------------------------------------------------------------------------
(* The theorems.                                                           *)

\* IInv and KInv together are inductive: a process that works alone on an action
\* knows its row, and an answer without an excuse is the only one.
THEOREM KnowledgeInvariance == Spec => [](IInv /\ KInv)
<1>1. Init => KInv
  BY InitKnown
<1>2. IInv /\ KInv /\ [Next]_vars => KInv'
  BY NextKept DEF Kept
<1> QED BY <1>1, <1>2, Invariance, PTL DEF Spec

\* The chat sees a second answer to an action only after a lost answer, a crash,
\* a store error or a claim that overlapped the work of another process
\* (applyPlan and retryOutbox against PendingOutbox), whatever the lease.
THEOREM DuplicatesHaveCauses == Spec => []DuplicateHasCause
<1>1. IInv /\ KInv => DuplicateHasCause
  <2> SUFFICES ASSUME IInv, KInv, NEW a \in Action, blame[a] = {}, Answers(a) > 1
               PROVE  FALSE
    BY DEF DuplicateHasCause
  <2>1. Answers(a) <= 1
    BY DEF KInv, AnswersFit
  <2>2. Answers(a) \in Nat
    BY DEF IInv, TypeOK, Answers, MessageKind
  <2>3. PICK n \in Nat : n = Answers(a)
    BY <2>2
  <2> QED BY <2>1, <2>3
<1> QED BY <1>1, KnowledgeInvariance, PTL

\* Seen from outside, for every set of actions and workers, the outbox delivers
\* as Delivery promises: every interleaving of applyPlan, retryOutbox, crashes
\* and lost answers is a behaviour of the abstract specification.
THEOREM OutboxImplementsDelivery == Spec => Implements
<1>1. Init => D!Init
  BY DEF Init, D!Init, D!Unplanned, Stage, Terminal, Absent, D!Kind, MessageKind
<1>2. IInv /\ KInv /\ [Next]_vars => D!Next
  <2> SUFFICES ASSUME \A b \in Action : D!Step(View(b), View(b)') PROVE D!Next
    BY NextKept DEF Kept
  <2>1. \A b \in Action : /\ [a \in Action |-> View(a)][b] = View(b)
                          /\ [a \in Action |-> View(a)]'[b] = View(b)'
    OBVIOUS
  <2> QED BY <2>1 DEF D!Next, View
<1> QED BY <1>1, <1>2, KnowledgeInvariance, PTL DEF Spec, D!Spec, Implements

\* complete and dead are final (MarkOutboxComplete, MarkOutboxDead have no
\* guard) for an action that was never claimed while another process held it.
THEOREM TerminalRowsStay == Spec => TerminalIsFinalAlone
<1>1. IInv /\ KInv /\ [Next]_vars
        => [\A a \in Action : outbox[a].state \in Terminal /\ "overlap" \notin blame[a]
                                => outbox'[a].state = outbox[a].state]_vars
  <2> SUFFICES ASSUME IInv, KInv, [Next]_vars, NEW a \in Action,
                      outbox[a].state \in Terminal, Alone(a)
               PROVE  outbox'[a].state = outbox[a].state
    BY DEF Alone
  <2>1. D!Step(View(a), View(a)')
    BY NextKept DEF Kept
  <2>2. /\ View(a).stage = outbox[a].state /\ ~D!Shared(View(a))
        /\ View(a)'.stage = Stage(outbox'[a].state)
    BY DEF View, Stage, D!Shared, Alone
  <2>3. PICK r, s : r = View(a) /\ s = View(a)'
    OBVIOUS
  <2>4. D!Step(r, s) /\ r.stage \in Terminal /\ ~D!Shared(r)
    BY <2>1, <2>2, <2>3
  <2>5. s.stage = r.stage
    <3> PICK st, o, g, an, ex :
          r = [stage |-> st, op |-> o, original |-> g, answers |-> an, excuses |-> ex]
      BY <2>3 DEF View
    <3>1. ~D!Plan(r, s) /\ ~D!Complete(r, s) /\ ~D!GiveUp(r, s) /\ ~D!Reopen(r, s)
      BY <2>4 DEF D!Plan, D!Complete, D!GiveUp, D!Reopen, Terminal
    <3>2. D!FallBack(r, s) => s.stage = r.stage
      BY DEF D!FallBack, D!With
    <3>3. D!Remove(r, s) => s.stage = r.stage
      BY DEF D!Remove
    <3>4. \A t, some : DOMAIN t = DOMAIN r => D!Excused(t, some).stage = t.stage
      BY DEF D!Excused
    <3>5. D!Excuse(r, s) => s.stage = r.stage
      BY <3>4 DEF D!Excuse
    <3>6. \A k : D!Answered(r, k).stage = r.stage /\ DOMAIN D!Answered(r, k) = DOMAIN r
      BY DEF D!Answered
    <3>7. D!Answer(r, s) => s.stage = r.stage
      BY <3>4, <3>6 DEF D!Answer
    <3> QED BY <2>4, <3>1, <3>2, <3>3, <3>5, <3>7 DEF D!Step
  <2>6. Stage(outbox'[a].state) = outbox[a].state
    BY <2>2, <2>3, <2>5
  <2> QED BY <2>6 DEF Stage, Terminal
<1> QED BY <1>1, KnowledgeInvariance, PTL DEF Spec, TerminalIsFinalAlone

\* No process of the outbox deletes the message an enriched reply answers
\* (applyTextAction and retryOutbox delete for a text or a copied medium only),
\* whatever stale entry it works on.
THEOREM DeliveriesKeepReplied == Spec => DeliveryKeepsReplied
<1>1. IInv /\ [Next]_vars
        => [\A a \in Action : outbox[a].op = "reply" /\ source[a] /\ ~source'[a]
                                => MemberDeletes(a)]_vars
  <2> SUFFICES ASSUME IInv, Next, NEW a \in Action,
                      outbox[a].op = "reply", source[a], ~source'[a]
               PROVE  MemberDeletes(a)
    OBVIOUS
  <2>1. ASSUME NEW p \in Process, Deleted(p) \/ DeleteAnswerLost(p) PROVE FALSE
    <3>1. pc[p] = "delete" /\ source' = [source EXCEPT ![job[p].id] = FALSE]
      BY <2>1 DEF Deleted, DeleteAnswerLost
    <3>2. job[p].id = a
      BY <3>1 DEF IInv, TypeOK
    <3> QED BY <3>1, <3>2, MineFits DEF LabelFits, Mine
  <2>2. CASE \E p \in Process : ProcessStep(p)
    <3>1. PICK p \in Process : ProcessStep(p)
      BY <2>2
    <3>2. source' = source
      BY <2>1, <3>1 DEF ProcessStep, StoreStep, TelegramStep, Settled, StoreFails,
         RunMarkCopied, RunReplace, RunMarkDelete, RunMarkSend, RunComplete,
         RunMarkError, RunRelease, RunAbort, StoreOnly, DeleteFails, Posted,
         PostAnswerLost, PostFails
    <3> QED BY <3>2
  <2>3. CASE \E i \in Action : MemberDeletes(i)
    <3>1. PICK i \in Action : MemberDeletes(i)
      BY <2>3
    <3>2. i = a
      BY <3>1 DEF MemberDeletes, IInv, TypeOK
    <3> QED BY <3>1, <3>2
  <2>4. CASE ~((\E p \in Process : ProcessStep(p)) \/ \E i \in Action : MemberDeletes(i))
    <3>1. source' = source
      BY <2>4 DEF Next, CreateCanonical, PendingOutbox, Crash, Tick
    <3> QED BY <3>1
  <2> QED BY <2>2, <2>3, <2>4
<1> QED BY <1>1, Invariance, PTL DEF Spec, DeliveryKeepsReplied
=============================================================================
