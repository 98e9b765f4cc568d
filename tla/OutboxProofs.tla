---------------------------- MODULE OutboxProofs ----------------------------
(***************************************************************************)
(* Type correctness and the safety of Outbox for every set of actions and  *)
(* workers, every lease, delay and backoff cap, any number of faults.      *)
(*                                                                         *)
(* A process acts on what it read or did earlier, so the properties are    *)
(* not inductive by themselves.  IInv says which part of that knowledge    *)
(* can go stale and which cannot: an entry in memory may name an old state *)
(* or miss a response, but whether the action is a reply never changes, a  *)
(* source once gone stays gone, and a response once accepted was accepted. *)
(***************************************************************************)
EXTENDS Outbox, TLAPS

Unfinished == {"planned", "delete_requested", "send_pending"}

\* What an entry e in memory tells about its row, when the source is there
\* iff s, and the messages po have been accepted.
EntryFits(e, row, s, po) ==
  /\ e \in Entry
  /\ row.state # "absent"
  /\ e.op = "reply" <=> row.op = "reply"
  /\ e.state \in Unfinished
  /\ e.state = "send_pending" /\ e.op # "reply" => ~s
  /\ e.response # NoResponse => po[e.response] > 0

\* What a process p at label l about to work on e has made sure of; f is the
\* failure it is about to record.
LabelFits(l, p, e, s, f) ==
  /\ l \in {"copy", "markCopied", "replace"} => e.op = "copy_media"
  /\ l = "markDelete" => e.op = "text"
  /\ l = "delete" => e.op # "reply"
  /\ l \in {"markCopied", "complete"} => e.response # NoResponse
  /\ p = Handler /\ l = "delete" /\ e.op = "copy_media" => e.response # NoResponse
  /\ l \in {"markSend", "send", "complete"} /\ e.op # "reply" => ~s
  /\ l = "markError" /\ f.state = "send_pending" /\ e.op # "reply" => ~s

EntrySound(e) == EntryFits(e, outbox[e.id], source[e.id], posted[e.id])

JobSound(p) ==
  pc[p] # "idle" => /\ EntrySound(job[p])
                    /\ LabelFits(pc[p], p, job[p], source[job[p].id], failure[p])

BatchSound(p) == \A e \in batch[p] : EntrySound(e)

\* What a row tells about the chat.
RowFits(row, s, po) ==
  /\ row.state = "send_pending" /\ row.op # "reply" => ~s
  /\ row.state = "complete" => /\ row.response # NoResponse
                               /\ row.op # "reply" => ~s
                               /\ row.canonical = "sent"
  /\ row.response # NoResponse => po[row.response] > 0

RowSound(a) == /\ RowFits(outbox[a], source[a], posted[a])
               /\ posted[a]["text"] > 0 => ~source[a]

IInv ==
  /\ TypeOK
  /\ \A a \in Action : RowSound(a)
  /\ \A p \in Process : JobSound(p) /\ BatchSound(p)

\* What no step takes back.
Later(a) ==
  /\ outbox[a].state # "absent" => /\ outbox'[a].state # "absent"
                                   /\ outbox'[a].op = "reply" <=> outbox[a].op = "reply"
  /\ source'[a] => source[a]
  /\ \A k \in MessageKind : posted'[a][k] >= posted[a][k]

-----------------------------------------------------------------------------
(* Facts about the table and the labels.                                   *)

\* Every store operation turns a row into a row.
LEMMA RowClosed ==
  ASSUME NEW r \in Row, NEW op \in Operation, NEW k \in MessageKind,
         NEW s \in OutboxState, NEW d \in Nat
  PROVE  /\ Planned(op) \in Row
         /\ MarkDeleteRequested(r) \in Row
         /\ MarkSendPending(r) \in Row
         /\ MarkOutboxCopied(r, k) \in Row
         /\ ReplaceOutboxPayload(r, op) \in Row
         /\ MarkOutboxComplete(r, k) \in Row
         /\ MarkOutboxErrorAfter(r, s, d) \in Row
         /\ MarkOutboxDead(r) \in Row
         /\ ReleaseOutboxLease(r) \in Row
         /\ Claimed(r) \in Row
         /\ Elapse(r) \in Row
<1>1. OneMore(r.attempts) \in 0..MaxShift
  BY OutboxTableAssumption DEF Row, OneMore
<1>2. OutboxBackoff(r) \in Nat
  BY BackoffAssumption DEF Row, OutboxBackoff
<1>3. CountDown(r.wait) \in Nat /\ CountDown(r.lease) \in Nat
  BY DEF Row, CountDown
<1>4. Planned(op) \in Row
  <2>1. 0 \in 0..MaxShift
    BY OutboxTableAssumption
  <2>2. Absent \in Row
    BY <2>1 DEF Row, Absent, OutboxState, Operation
  <2> QED BY <2>2 DEF Row, Planned, OutboxState
<1>5. MarkDeleteRequested(r) \in Row /\ MarkSendPending(r) \in Row
  BY <1>1, <1>2 DEF Row, MarkDeleteRequested, UpdateOutbox, MarkSendPending, OutboxState
<1>6. MarkOutboxCopied(r, k) \in Row /\ MarkOutboxComplete(r, k) \in Row
  BY DEF Row, MarkOutboxCopied, MarkOutboxComplete, OutboxState
<1>7. MarkOutboxErrorAfter(r, s, d) \in Row
  BY <1>1, <1>2 DEF Row, MarkOutboxErrorAfter
<1>8. MarkOutboxDead(r) \in Row
  BY <1>1 DEF Row, MarkOutboxDead, OutboxState
<1>9. ReplaceOutboxPayload(r, op) \in Row /\ ReleaseOutboxLease(r) \in Row
  BY DEF Row, ReplaceOutboxPayload, ReleaseOutboxLease
<1>10. Claimed(r) \in Row
  BY OutboxTableAssumption DEF Row, Claimed
<1>11. Elapse(r) \in Row
  BY <1>3 DEF Row, Elapse
<1> QED BY <1>4, <1>5, <1>6, <1>7, <1>8, <1>9, <1>10, <1>11

\* What an entry tells stays true of any later row, source and chat.
LEMMA EntryStable ==
  ASSUME NEW e, NEW r1, NEW s1 \in BOOLEAN, NEW p1 \in [MessageKind -> Nat],
         NEW r2, NEW s2 \in BOOLEAN, NEW p2 \in [MessageKind -> Nat],
         EntryFits(e, r1, s1, p1),
         r2.state # "absent", r2.op = "reply" <=> r1.op = "reply",
         s2 => s1,
         \A k \in MessageKind : p2[k] >= p1[k]
  PROVE  EntryFits(e, r2, s2, p2)
<1>1. e.response # NoResponse => e.response \in MessageKind
  BY DEF EntryFits, Entry
<1> QED BY <1>1 DEF EntryFits

\* The label a worker resumes an entry at is backed by the entry.
LEMMA ResumeFits ==
  ASSUME NEW e, NEW p, NEW f, NEW s \in BOOLEAN,
         e.state \in Unfinished,
         e.state = "send_pending" /\ e.op # "reply" => ~s,
         e.op = "copy_media" => e.response # NoResponse
  PROVE  Resume(e) \in Label \ {"idle"} /\ LabelFits(Resume(e), p, e, s, f)
BY DEF Resume, LabelFits, Unfinished, Label, StoreCall

LEMMA DispatchFits ==
  ASSUME NEW e, NEW p, NEW f, NEW row, NEW s \in BOOLEAN, NEW po,
         EntryFits(e, row, s, po)
  PROVE  Dispatch(e) \in Label \ {"idle"} /\ LabelFits(Dispatch(e), p, e, s, f)
<1>1. CASE e.op = "copy_media" /\ e.response = NoResponse
  BY <1>1 DEF Dispatch, LabelFits, Label
<1>2. CASE ~(e.op = "copy_media" /\ e.response = NoResponse)
  BY <1>2, ResumeFits DEF Dispatch, EntryFits
<1> QED BY <1>1, <1>2

\* NoJob is no entry: ids of actions are positive.
LEMMA IdsArePositive == 0 \notin Action
BY OutboxAssumption

-----------------------------------------------------------------------------
(* How knowledge survives a step.                                          *)

LEMMA EntryLater ==
  ASSUME TypeOK, TypeOK', \A a \in Action : Later(a), NEW e, EntrySound(e)
  PROVE  EntrySound(e)'
<1>1. e.id \in Action
  BY DEF EntrySound, EntryFits, Entry
<1>2. /\ source[e.id] \in BOOLEAN /\ source'[e.id] \in BOOLEAN
      /\ posted[e.id] \in [MessageKind -> Nat] /\ posted'[e.id] \in [MessageKind -> Nat]
  <2>1. \A f \in [MessageKind -> 0..MaxPosts] : f \in [MessageKind -> Nat]
    OBVIOUS
  <2>2. /\ posted[e.id] \in [MessageKind -> 0..MaxPosts]
        /\ posted'[e.id] \in [MessageKind -> 0..MaxPosts]
    BY <1>1 DEF TypeOK
  <2> QED BY <1>1, <2>1, <2>2 DEF TypeOK
<1>3. Later(e.id)
  BY <1>1
<1>4. outbox[e.id].state # "absent"
  BY DEF EntrySound, EntryFits
<1> QED BY <1>2, <1>3, <1>4, EntryStable DEF EntrySound, Later

\* A step of one process p leaves what the others know alone.
LEMMA OthersKeep ==
  ASSUME IInv, TypeOK', NEW p \in Process,
         \A a \in Action : Later(a),
         \A a \in Action : RowSound(a)',
         JobSound(p)', BatchSound(p)',
         \A q \in Process \ {p} : /\ pc'[q] = pc[q] /\ job'[q] = job[q]
                                  /\ batch'[q] = batch[q] /\ failure'[q] = failure[q]
  PROVE  IInv'
<1> SUFFICES ASSUME NEW q \in Process \ {p}
             PROVE  JobSound(q)' /\ BatchSound(q)'
  BY DEF IInv
<1>1. JobSound(q) /\ BatchSound(q) /\ TypeOK
  BY DEF IInv
<1>2. BatchSound(q)'
  BY <1>1, EntryLater DEF BatchSound
<1>3. ASSUME pc'[q] # "idle" PROVE JobSound(q)'
  <2>1. EntrySound(job[q])
    BY <1>1, <1>3 DEF JobSound
  <2>2. PICK e : e = job[q] /\ e = job'[q]
    OBVIOUS
  <2>3. EntrySound(e)'
    BY <1>1, <2>1, <2>2, EntryLater
  <2>4. source'[e.id] => source[e.id]
    BY <2>1, <2>2 DEF EntrySound, EntryFits, Entry, Later
  <2>5. LabelFits(pc[q], q, e, source[e.id], failure[q])
    BY <1>1, <1>3, <2>2 DEF JobSound
  <2>6. LabelFits(pc'[q], q, e, source'[e.id], failure'[q])
    BY <2>4, <2>5 DEF LabelFits
  <2> QED BY <2>2, <2>3, <2>6 DEF JobSound, EntrySound
<1>4. JobSound(q)'
  BY <1>3 DEF JobSound
<1> QED BY <1>2, <1>4

\* A step of no process leaves all of them alone.
LEMMA UnmovedKeep ==
  ASSUME IInv, TypeOK', UNCHANGED <<pc, job, batch, failure>>,
         \A a \in Action : Later(a), \A a \in Action : RowSound(a)'
  PROVE  IInv'
<1> SUFFICES ASSUME NEW p \in Process PROVE JobSound(p)' /\ BatchSound(p)'
  BY DEF IInv
<1>1. JobSound(p) /\ BatchSound(p) /\ TypeOK
  BY DEF IInv
<1>2. BatchSound(p)'
  BY <1>1, EntryLater DEF BatchSound
<1>3. ASSUME pc[p] # "idle" PROVE JobSound(p)'
  <2>1. PICK e : e = job[p] /\ e = job'[p]
    OBVIOUS
  <2>2. EntrySound(e)'
    BY <1>1, <1>3, <2>1, EntryLater DEF JobSound
  <2>3. source'[e.id] => source[e.id]
    BY <1>1, <1>3, <2>1 DEF JobSound, EntrySound, EntryFits, Entry, Later
  <2>4. LabelFits(pc[p], p, e, source[e.id], failure[p])
    BY <1>1, <1>3, <2>1 DEF JobSound
  <2>5. LabelFits(pc'[p], p, e, source'[e.id], failure'[p])
    BY <2>3, <2>4 DEF LabelFits
  <2> QED BY <2>1, <2>2, <2>5 DEF JobSound, EntrySound
<1> QED BY <1>2, <1>3 DEF JobSound

\* A worker that turns to an entry it remembers rightly starts at a right label.
LEMMA TakeSound ==
  ASSUME TypeOK, source' \in [Action -> BOOLEAN],
         NEW p \in Process, NEW E \in SUBSET Entry,
         Take(p, E), \A e \in E : EntrySound(e)'
  PROVE  /\ pc' \in [Process -> Label]
         /\ job' \in [Process -> Entry \cup {NoJob}]
         /\ batch' \in [Process -> SUBSET Entry]
         /\ JobSound(p)' /\ BatchSound(p)'
         /\ \A q \in Process \ {p} : /\ pc'[q] = pc[q] /\ job'[q] = job[q]
                                     /\ batch'[q] = batch[q]
<1>1. PICK e \in E : /\ job' = [job EXCEPT ![p] = e]
                     /\ pc' = [pc EXCEPT ![p] = Dispatch(e)]
                     /\ batch' = [batch EXCEPT ![p] = E \ {e}]
  BY DEF Take, Goto
<1>2. EntryFits(e, outbox'[e.id], source'[e.id], posted'[e.id])
  BY DEF EntrySound
<1>3. source'[e.id] \in BOOLEAN
  BY DEF Entry
<1>4. /\ Dispatch(e) \in Label \ {"idle"}
      /\ LabelFits(Dispatch(e), p, e, source'[e.id], failure'[p])
  BY <1>2, <1>3, DispatchFits
<1>5. /\ pc' \in [Process -> Label]
      /\ job' \in [Process -> Entry \cup {NoJob}]
      /\ batch' \in [Process -> SUBSET Entry]
  BY <1>1, <1>4 DEF TypeOK
<1>6. pc'[p] = Dispatch(e) /\ job'[p] = e /\ batch'[p] = E \ {e}
  BY <1>1 DEF TypeOK
<1>7. JobSound(p)'
  BY <1>2, <1>4, <1>6 DEF JobSound, EntrySound
<1>8. BatchSound(p)'
  BY <1>6 DEF BatchSound
<1>9. \A q \in Process \ {p} : /\ pc'[q] = pc[q] /\ job'[q] = job[q]
                               /\ batch'[q] = batch[q]
  BY <1>1 DEF TypeOK
<1> QED BY <1>5, <1>7, <1>8, <1>9

LEMMA StopSound ==
  ASSUME TypeOK, NEW p \in Process, Stop(p)
  PROVE  /\ pc' \in [Process -> Label]
         /\ job' \in [Process -> Entry \cup {NoJob}]
         /\ batch' \in [Process -> SUBSET Entry]
         /\ JobSound(p)' /\ BatchSound(p)'
         /\ \A q \in Process \ {p} : /\ pc'[q] = pc[q] /\ job'[q] = job[q]
                                     /\ batch'[q] = batch[q]
BY DEF Stop, Goto, TypeOK, JobSound, BatchSound, Label

LEMMA FinishSound ==
  ASSUME TypeOK, source' \in [Action -> BOOLEAN],
         NEW p \in Process, Finish(p), \A e \in batch[p] : EntrySound(e)'
  PROVE  /\ pc' \in [Process -> Label]
         /\ job' \in [Process -> Entry \cup {NoJob}]
         /\ batch' \in [Process -> SUBSET Entry]
         /\ JobSound(p)' /\ BatchSound(p)'
         /\ \A q \in Process \ {p} : /\ pc'[q] = pc[q] /\ job'[q] = job[q]
                                     /\ batch'[q] = batch[q]
<1>1. CASE batch[p] = {}
  BY <1>1, StopSound DEF Finish
<1>2. CASE batch[p] # {}
  <2>1. PICK E \in SUBSET Entry : E = batch[p]
    BY DEF TypeOK
  <2> QED BY <1>2, <2>1, TakeSound DEF Finish
<1> QED BY <1>1, <1>2

\* A step that only moves one process to another label of the same entry.
LEMMA GotoSound ==
  ASSUME IInv, NEW p \in Process, NEW l \in Label \ {"idle"},
         pc[p] # "idle", Goto(p, l), UNCHANGED <<job, batch>>,
         TypeOK', \A a \in Action : Later(a), \A a \in Action : RowSound(a)',
         \A q \in Process \ {p} : failure'[q] = failure[q],
         LabelFits(l, p, job[p], source'[job[p].id], failure'[p])
  PROVE  IInv'
<1>1. TypeOK /\ JobSound(p) /\ BatchSound(p)
  BY DEF IInv
<1>2. PICK e : e = job[p]
  OBVIOUS
<1>3. EntrySound(e)'
  BY <1>1, <1>2, EntryLater DEF JobSound
<1>4. pc'[p] = l /\ job'[p] = e
  BY <1>1, <1>2 DEF Goto, TypeOK
<1>5. JobSound(p)'
  BY <1>2, <1>3, <1>4 DEF JobSound, EntrySound
<1>6. BatchSound(p)'
  BY <1>1, EntryLater DEF BatchSound
<1>7. \A q \in Process \ {p} : /\ pc'[q] = pc[q] /\ job'[q] = job[q]
                               /\ batch'[q] = batch[q] /\ failure'[q] = failure[q]
  BY <1>1 DEF Goto, TypeOK
<1> QED BY <1>5, <1>6, <1>7, OthersKeep

\* The same when the step also rewrites the entry, to e.
LEMMA MoveSound ==
  ASSUME IInv, NEW p \in Process, NEW l \in Label \ {"idle"}, NEW e \in Entry,
         Goto(p, l), job' = [job EXCEPT ![p] = e], UNCHANGED batch,
         TypeOK', \A a \in Action : Later(a), \A a \in Action : RowSound(a)',
         UNCHANGED failure, EntrySound(e)',
         LabelFits(l, p, e, source'[e.id], failure[p])
  PROVE  IInv'
<1>1. TypeOK /\ BatchSound(p)
  BY DEF IInv
<1>2. pc'[p] = l /\ job'[p] = e
  BY <1>1 DEF Goto, TypeOK
<1>3. JobSound(p)'
  BY <1>2 DEF JobSound, EntrySound
<1>4. BatchSound(p)'
  BY <1>1, EntryLater DEF BatchSound
<1>5. \A q \in Process \ {p} : /\ pc'[q] = pc[q] /\ job'[q] = job[q]
                               /\ batch'[q] = batch[q] /\ failure'[q] = failure[q]
  BY <1>1 DEF Goto, TypeOK
<1> QED BY <1>3, <1>4, <1>5, OthersKeep

\* What writing one sound row does.
LEMMA WriteSound ==
  ASSUME IInv, NEW p \in Process, pc[p] # "idle", NEW row \in Row,
         Write(p, row), UNCHANGED <<source, posted>>,
         row.state # "absent", row.op = "reply" <=> Mine(p).op = "reply",
         RowFits(row, source[job[p].id], posted[job[p].id])
  PROVE  /\ outbox' \in [Action -> Row]
         /\ \A a \in Action : Later(a)
         /\ \A a \in Action : RowSound(a)'
<1>1. PICK i \in Action : i = job[p].id
  BY DEF IInv, JobSound, EntrySound, EntryFits, Entry
<1>2. /\ TypeOK
      /\ \A a \in Action : RowSound(a)
      /\ outbox' = [outbox EXCEPT ![i] = row]
      /\ source' = source /\ posted' = posted
  BY <1>1 DEF IInv, Write
<1>3. outbox' \in [Action -> Row]
  BY <1>2 DEF TypeOK
<1>4. outbox'[i] = row /\ \A a \in Action \ {i} : outbox'[a] = outbox[a]
  BY <1>2 DEF TypeOK
<1>5. \A a \in Action : posted[a] \in [MessageKind -> 0..MaxPosts]
  BY <1>2 DEF TypeOK
<1>6. ASSUME NEW a \in Action PROVE Later(a)
  <2>1. \A k \in MessageKind : posted'[a][k] >= posted[a][k]
    BY <1>2, <1>5, OutboxAssumption
  <2> QED BY <1>1, <1>2, <1>4, <2>1 DEF Later, Mine
<1>7. ASSUME NEW a \in Action PROVE RowSound(a)'
  BY <1>1, <1>2, <1>4 DEF RowSound
<1> QED BY <1>3, <1>6, <1>7

\* What the process at work on an action knows of its row.
LEMMA MineFits ==
  ASSUME IInv, NEW p \in Process, pc[p] # "idle"
  PROVE  /\ job[p] \in Entry /\ job[p].id \in Action
         /\ Mine(p) \in Row /\ Mine(p).state # "absent"
         /\ Mine(p).op = "reply" <=> job[p].op = "reply"
         /\ job[p].response # NoResponse =>
              /\ job[p].response \in MessageKind
              /\ posted[job[p].id][job[p].response] > 0
         /\ RowFits(Mine(p), source[job[p].id], posted[job[p].id])
         /\ source[job[p].id] \in BOOLEAN
         /\ LabelFits(pc[p], p, job[p], source[job[p].id], failure[p])
         /\ EntrySound(job[p])
<1>1. JobSound(p) /\ TypeOK /\ \A a \in Action : RowSound(a)
  BY DEF IInv
<1>2. EntrySound(job[p])
  BY <1>1 DEF JobSound
<1>3. job[p] \in Entry /\ job[p].id \in Action
  BY <1>2 DEF EntrySound, EntryFits, Entry
<1> QED BY <1>1, <1>2, <1>3 DEF TypeOK, Mine, EntrySound, EntryFits, Entry, JobSound, RowSound

-----------------------------------------------------------------------------
(* The invariant, action by action.                                        *)

LEMMA InitSound == ASSUME Init PROVE IInv
<1>1. TypeOK
  <2>1. Absent \in Row
    BY OutboxTableAssumption DEF Row, Absent, OutboxState, Operation
  <2>2. 0 \in 0..MaxPosts /\ 0 \in 0..MaxFaults
    BY OutboxAssumption
  <2> QED BY <2>1, <2>2 DEF Init, TypeOK, Label, Failure, NoFailure
<1>2. \A a \in Action : RowSound(a)
  BY DEF Init, RowSound, RowFits, Absent, MessageKind
<1>3. \A p \in Process : JobSound(p) /\ BatchSound(p)
  BY DEF Init, JobSound, BatchSound
<1> QED BY <1>1, <1>2, <1>3 DEF IInv

LEMMA MarkCopiedSound ==
  ASSUME IInv, NEW p \in Process, RunMarkCopied(p) PROVE IInv'
<1>1. pc[p] = "markCopied"
  BY DEF RunMarkCopied
<1>2. PICK row : row = MarkOutboxCopied(Mine(p), job[p].response)
  OBVIOUS
<1>3. LabelFits("markCopied", p, job[p], source[job[p].id], failure[p])
  BY <1>1, MineFits
<1>4. job[p].response \in MessageKind /\ job[p].response # NoResponse
  BY <1>1, <1>3, MineFits DEF LabelFits
<1>5. row \in Row
  BY <1>1, <1>2, <1>4, MineFits, RowClosed DEF Operation, OutboxState
<1>6. /\ row.state # "absent" /\ (row.op = "reply" <=> Mine(p).op = "reply")
      /\ RowFits(row, source[job[p].id], posted[job[p].id])
  BY <1>1, <1>2, <1>4, MineFits DEF MarkOutboxCopied, RowFits, Row
<1>7. Write(p, row) /\ UNCHANGED <<source, posted>>
  BY <1>2 DEF RunMarkCopied, StoreOnly
<1>8. /\ outbox' \in [Action -> Row]
      /\ \A a \in Action : Later(a)
      /\ \A a \in Action : RowSound(a)'
  BY <1>1, <1>5, <1>6, <1>7, WriteSound
<1>9. PICK l : l = AfterCopy(p, job[p])
  OBVIOUS
<1>10. l \in Label \ {"idle"} /\ LabelFits(l, p, job[p], source[job[p].id], failure[p])
  <2>1. CASE p = Handler
    BY <1>3, <1>4, <1>9, <2>1 DEF AfterCopy, LabelFits, Label
  <2>2. CASE p # Handler
    BY <1>1, <1>4, <1>9, <2>2, MineFits, ResumeFits DEF AfterCopy, EntrySound, EntryFits
  <2> QED BY <2>1, <2>2
<1>11. Goto(p, l) /\ UNCHANGED <<job, batch, failure, faults, blame>>
  BY <1>9 DEF RunMarkCopied, StoreOnly
<1>12. TypeOK'
  BY <1>7, <1>8, <1>10, <1>11 DEF IInv, TypeOK, Goto
<1> QED BY <1>1, <1>7, <1>8, <1>10, <1>11, <1>12, GotoSound

LEMMA ReplaceSound ==
  ASSUME IInv, NEW p \in Process, RunReplace(p) PROVE IInv'
<1>1. pc[p] = "replace"
  BY DEF RunReplace
<1>2. PICK row, e : /\ row = ReplaceOutboxPayload(Mine(p), "text")
                    /\ e = [job[p] EXCEPT !.op = "text"]
  OBVIOUS
<1>3. job[p].op = "copy_media" /\ Mine(p).op # "reply"
  BY <1>1, MineFits DEF LabelFits
<1>4. row \in Row
  BY <1>1, <1>2, MineFits, RowClosed DEF Operation, OutboxState, MessageKind
<1>5. /\ row.state # "absent" /\ (row.op = "reply" <=> Mine(p).op = "reply")
      /\ RowFits(row, source[job[p].id], posted[job[p].id])
  BY <1>1, <1>2, <1>3, MineFits DEF ReplaceOutboxPayload, RowFits, Row
<1>6. Write(p, row) /\ UNCHANGED <<source, posted>>
  BY <1>2 DEF RunReplace, StoreOnly
<1>7. /\ outbox' \in [Action -> Row]
      /\ \A a \in Action : Later(a)
      /\ \A a \in Action : RowSound(a)'
  BY <1>1, <1>4, <1>5, <1>6, WriteSound
<1>8. /\ e \in Entry /\ e.id = job[p].id /\ e.op = "text"
      /\ e.state = job[p].state /\ e.response = job[p].response
  BY <1>1, <1>2, MineFits DEF Entry, Operation
<1>9. job' = [job EXCEPT ![p] = e] /\ job'[p] = e
  BY <1>2 DEF RunReplace, IInv, TypeOK
<1>10. PICK l : l = AfterReplace(p, e)
  OBVIOUS
<1>11. Goto(p, l) /\ UNCHANGED <<batch, failure, faults, blame>>
  BY <1>9, <1>10 DEF RunReplace, StoreOnly
<1>12. EntryFits(e, Mine(p), source[e.id], posted[e.id])
  BY <1>1, <1>3, <1>8, MineFits DEF EntrySound, EntryFits, Mine
<1>13. l \in Label \ {"idle"} /\ LabelFits(l, p, e, source[e.id], failure[p])
  <2>1. CASE p = Handler
    BY <1>8, <1>10, <2>1 DEF AfterReplace, LabelFits, Label, StoreCall
  <2>2. CASE p # Handler
    BY <1>1, <1>8, <1>10, <1>12, <2>2, MineFits, ResumeFits DEF AfterReplace, EntryFits
  <2> QED BY <2>1, <2>2
<1>14. TypeOK'
  BY <1>6, <1>7, <1>8, <1>9, <1>11, <1>13 DEF IInv, TypeOK, Goto
<1>15. EntrySound(e)'
  <2>1. EntrySound(e) /\ TypeOK
    BY <1>8, <1>12 DEF EntrySound, Mine, IInv
  <2> QED BY <2>1, <1>7, <1>14, EntryLater
<1> QED BY <1>6, <1>7, <1>8, <1>9, <1>11, <1>13, <1>14, <1>15, MoveSound

LEMMA MarkDeleteSound ==
  ASSUME IInv, NEW p \in Process, RunMarkDelete(p) PROVE IInv'
<1>1. pc[p] = "markDelete"
  BY DEF RunMarkDelete
<1>2. PICK row : row = MarkDeleteRequested(Mine(p))
  OBVIOUS
<1>3. row \in Row
  BY <1>1, <1>2, MineFits, RowClosed DEF Operation, OutboxState, MessageKind
<1>4. /\ row.state # "absent" /\ (row.op = "reply" <=> Mine(p).op = "reply")
      /\ RowFits(row, source[job[p].id], posted[job[p].id])
  BY <1>1, <1>2, MineFits DEF MarkDeleteRequested, UpdateOutbox, RowFits, Row
<1>5. Write(p, row) /\ UNCHANGED <<source, posted>>
  BY <1>2 DEF RunMarkDelete, StoreOnly
<1>6. /\ outbox' \in [Action -> Row]
      /\ \A a \in Action : Later(a)
      /\ \A a \in Action : RowSound(a)'
  BY <1>1, <1>3, <1>4, <1>5, WriteSound
<1>7. Goto(p, "delete") /\ UNCHANGED <<job, batch, failure, faults, blame>>
  BY DEF RunMarkDelete, StoreOnly
<1>8. LabelFits("delete", p, job[p], source[job[p].id], failure[p])
  BY <1>1, MineFits DEF LabelFits
<1>9. "delete" \in Label \ {"idle"}
  BY DEF Label
<1>10. TypeOK'
  BY <1>5, <1>6, <1>7, <1>9 DEF IInv, TypeOK, Goto
<1> QED BY <1>1, <1>5, <1>6, <1>7, <1>8, <1>9, <1>10, GotoSound

LEMMA MarkSendSound ==
  ASSUME IInv, NEW p \in Process, RunMarkSend(p) PROVE IInv'
<1>1. pc[p] = "markSend"
  BY DEF RunMarkSend
<1>2. PICK row, l : row = MarkSendPending(Mine(p)) /\ l = AfterMarkSend(job[p])
  OBVIOUS
<1>3. row \in Row
  BY <1>1, <1>2, MineFits, RowClosed DEF Operation, OutboxState, MessageKind
<1>4. /\ row.state # "absent" /\ (row.op = "reply" <=> Mine(p).op = "reply")
      /\ RowFits(row, source[job[p].id], posted[job[p].id])
  <2>1. LabelFits("markSend", p, job[p], source[job[p].id], failure[p])
    BY <1>1, MineFits
  <2>2. job[p].op # "reply" => ~source[job[p].id]
    BY <2>1 DEF LabelFits
  <2>3. /\ row.state = "send_pending" /\ row.op = Mine(p).op
        /\ row.response = Mine(p).response
    BY <1>1, <1>2, MineFits DEF MarkSendPending, Row
  <2> QED BY <1>1, <2>2, <2>3, MineFits DEF RowFits
<1>5. Write(p, row) /\ UNCHANGED <<source, posted>>
  BY <1>2 DEF RunMarkSend, StoreOnly
<1>6. /\ outbox' \in [Action -> Row]
      /\ \A a \in Action : Later(a)
      /\ \A a \in Action : RowSound(a)'
  BY <1>1, <1>3, <1>4, <1>5, WriteSound
<1>7. Goto(p, l) /\ UNCHANGED <<job, batch, failure, faults, blame>>
  BY <1>2 DEF RunMarkSend, StoreOnly
<1>8. /\ l \in Label \ {"idle"}
      /\ LabelFits(l, p, job[p], source[job[p].id], failure[p])
  BY <1>1, <1>2, MineFits DEF LabelFits, AfterMarkSend, Label, StoreCall
<1>9. TypeOK'
  BY <1>5, <1>6, <1>7, <1>8 DEF IInv, TypeOK, Goto
<1> QED BY <1>1, <1>5, <1>6, <1>7, <1>8, <1>9, GotoSound

\* The end of an entry after a sound write.
LEMMA EndSound ==
  ASSUME IInv, NEW p \in Process, Finish(p) \/ Stop(p),
         outbox' \in [Action -> Row],
         source' \in [Action -> BOOLEAN],
         posted' \in [Action -> [MessageKind -> 0..MaxPosts]],
         failure' \in [Process -> Failure],
         faults' \in 0..MaxFaults, blame' \in [Action -> SUBSET Cause],
         \A q \in Process \ {p} : failure'[q] = failure[q],
         \A a \in Action : Later(a), \A a \in Action : RowSound(a)'
  PROVE  IInv'
<1>1. TypeOK /\ BatchSound(p)
  BY DEF IInv
<1>2. ASSUME NEW e \in batch[p] PROVE EntrySound(e)'
  <2>1. EntrySound(e) /\ e.id \in Action
    BY <1>1 DEF BatchSound, EntrySound, EntryFits, Entry
  <2>2. /\ source[e.id] \in BOOLEAN /\ source'[e.id] \in BOOLEAN
        /\ posted[e.id] \in [MessageKind -> Nat] /\ posted'[e.id] \in [MessageKind -> Nat]
    <3>1. \A f \in [MessageKind -> 0..MaxPosts] : f \in [MessageKind -> Nat]
      OBVIOUS
    <3> QED BY <1>1, <2>1, <3>1 DEF TypeOK
  <2>3. Later(e.id) /\ outbox[e.id].state # "absent"
    BY <2>1 DEF EntrySound, EntryFits
  <2> QED BY <2>1, <2>2, <2>3, EntryStable DEF EntrySound, Later
<1>3. /\ pc' \in [Process -> Label]
      /\ job' \in [Process -> Entry \cup {NoJob}]
      /\ batch' \in [Process -> SUBSET Entry]
      /\ JobSound(p)' /\ BatchSound(p)'
      /\ \A q \in Process \ {p} : /\ pc'[q] = pc[q] /\ job'[q] = job[q]
                                  /\ batch'[q] = batch[q]
  BY <1>1, <1>2, FinishSound, StopSound
<1>4. TypeOK'
  BY <1>3 DEF TypeOK
<1> QED BY <1>3, <1>4, OthersKeep

LEMMA CompleteSound ==
  ASSUME IInv, NEW p \in Process, RunComplete(p) PROVE IInv'
<1>1. pc[p] = "complete"
  BY DEF RunComplete
<1>2. PICK row : row = MarkOutboxComplete(Mine(p), job[p].response)
  OBVIOUS
<1>3. job[p].response \in MessageKind /\ job[p].response # NoResponse
  BY <1>1, MineFits DEF LabelFits
<1>4. row \in Row
  BY <1>1, <1>2, <1>3, MineFits, RowClosed DEF Operation, OutboxState
<1>5. /\ row.state # "absent" /\ (row.op = "reply" <=> Mine(p).op = "reply")
      /\ RowFits(row, source[job[p].id], posted[job[p].id])
  BY <1>1, <1>2, <1>3, MineFits DEF MarkOutboxComplete, RowFits, LabelFits, Row
<1>6. Write(p, row) /\ UNCHANGED <<source, posted, failure, faults, blame>>
  BY <1>2 DEF RunComplete, StoreOnly
<1>7. /\ outbox' \in [Action -> Row]
      /\ \A a \in Action : Later(a)
      /\ \A a \in Action : RowSound(a)'
  BY <1>1, <1>4, <1>5, <1>6, WriteSound
<1>8. Finish(p)
  BY DEF RunComplete
<1> QED BY <1>6, <1>7, <1>8, EndSound DEF IInv, TypeOK

LEMMA ReleaseSound ==
  ASSUME IInv, NEW p \in Process, RunRelease(p) \/ RunAbort(p) PROVE IInv'
<1>1. pc[p] # "idle"
  BY DEF RunRelease, RunAbort
<1>2. PICK row : row = ReleaseOutboxLease(Mine(p))
  OBVIOUS
<1>3. row \in Row
  BY <1>1, <1>2, MineFits, RowClosed DEF Operation, OutboxState, MessageKind
<1>4. /\ row.state # "absent" /\ (row.op = "reply" <=> Mine(p).op = "reply")
      /\ RowFits(row, source[job[p].id], posted[job[p].id])
  BY <1>1, <1>2, MineFits DEF ReleaseOutboxLease, RowFits, Row
<1>5. Write(p, row) /\ UNCHANGED <<source, posted, failure, faults, blame>>
  BY <1>2 DEF RunRelease, RunAbort, StoreOnly
<1>6. /\ outbox' \in [Action -> Row]
      /\ \A a \in Action : Later(a)
      /\ \A a \in Action : RowSound(a)'
  BY <1>1, <1>3, <1>4, <1>5, WriteSound
<1>7. Finish(p) \/ Stop(p)
  BY DEF RunRelease, RunAbort
<1> QED BY <1>5, <1>6, <1>7, EndSound DEF IInv, TypeOK

LEMMA MarkErrorSound ==
  ASSUME IInv, NEW p \in Process, RunMarkError(p) PROVE IInv'
<1>1. pc[p] = "markError"
  BY DEF RunMarkError
<1>2. PICK row : row = CASE failure[p].class = "permanent" -> MarkOutboxDead(Mine(p))
                         [] failure[p].class = "rate_limited" ->
                              MarkOutboxErrorAfter(Mine(p), failure[p].state, RetryDelay)
                         [] OTHER -> MarkOutboxErrorAfter(Mine(p), failure[p].state, 0)
  OBVIOUS
<1>3. failure[p].state \in Unfinished /\ TypeOK
  BY DEF IInv, TypeOK, Failure, Unfinished
<1>4. failure[p].state = "send_pending" /\ Mine(p).op # "reply" => ~source[job[p].id]
  <2>1. LabelFits("markError", p, job[p], source[job[p].id], failure[p])
    BY <1>1, MineFits
  <2> QED BY <1>1, <2>1, MineFits DEF LabelFits
<1>5. \/ row = MarkOutboxDead(Mine(p))
      \/ \E d \in Nat : row = MarkOutboxErrorAfter(Mine(p), failure[p].state, d)
  BY <1>2, OutboxAssumption
<1>6. row \in Row
  BY <1>1, <1>3, <1>5, MineFits, RowClosed DEF Operation, OutboxState, MessageKind, Unfinished
<1>7. /\ row.state \in {"dead", failure[p].state}
      /\ row.op = Mine(p).op /\ row.response = Mine(p).response
  BY <1>1, <1>5, MineFits DEF MarkOutboxDead, MarkOutboxErrorAfter, Row
<1>8. /\ row.state # "absent" /\ (row.op = "reply" <=> Mine(p).op = "reply")
      /\ RowFits(row, source[job[p].id], posted[job[p].id])
  BY <1>1, <1>3, <1>4, <1>7, MineFits DEF RowFits, Unfinished
<1>9. Write(p, row) /\ UNCHANGED <<source, posted, faults, blame>>
  BY <1>2 DEF RunMarkError
<1>10. /\ outbox' \in [Action -> Row]
       /\ \A a \in Action : Later(a)
       /\ \A a \in Action : RowSound(a)'
  BY <1>1, <1>6, <1>8, <1>9, WriteSound
<1>11. /\ failure' \in [Process -> Failure]
       /\ \A q \in Process \ {p} : failure'[q] = failure[q]
  BY <1>3 DEF RunMarkError, TypeOK, Failure, NoFailure
<1>12. CASE Stop(p)
  BY <1>3, <1>9, <1>10, <1>11, <1>12, EndSound DEF TypeOK
<1>13. CASE Goto(p, "release") /\ UNCHANGED <<job, batch>>
  <2>1. "release" \in Label \ {"idle"}
    BY DEF Label, StoreCall
  <2>2. TypeOK'
    BY <1>3, <1>9, <1>10, <1>11, <1>13, <2>1 DEF TypeOK, Goto
  <2>3. LabelFits("release", p, job[p], source'[job[p].id], failure'[p])
    BY DEF LabelFits
  <2> QED BY <1>1, <1>10, <1>11, <1>13, <2>1, <2>2, <2>3, GotoSound
<1> QED BY <1>12, <1>13 DEF RunMarkError

\* Steps that leave the table and the chat as they are take nothing back.
LEMMA NothingWritten ==
  ASSUME IInv, UNCHANGED <<outbox, source, posted>>
  PROVE  /\ TypeOK
         /\ \A a \in Action : Later(a)
         /\ \A a \in Action : RowSound(a)'
<1>1. \A a \in Action : posted[a] \in [MessageKind -> 0..MaxPosts]
  BY DEF IInv, TypeOK
<1> QED BY <1>1, OutboxAssumption DEF IInv, Later, RowSound

LEMMA BlameTyped ==
  ASSUME TypeOK, NEW as, NEW c \in Cause, Blame(as, c)
  PROVE  blame' \in [Action -> SUBSET Cause]
BY DEF TypeOK, Blame

LEMMA FaultTyped == ASSUME TypeOK, Fault PROVE faults' \in 0..MaxFaults
BY OutboxAssumption DEF TypeOK, Fault

LEMMA StoreFailsSound ==
  ASSUME IInv, NEW p \in Process, StoreFails(p) PROVE IInv'
<1>1. pc[p] # "idle"
  BY DEF StoreFails, StoreCall
<1>2. UNCHANGED <<outbox, source, posted>>
  BY DEF StoreFails
<1>3. /\ TypeOK
      /\ \A a \in Action : Later(a)
      /\ \A a \in Action : RowSound(a)'
  BY <1>2, NothingWritten
<1>4. blame' \in [Action -> SUBSET Cause] /\ faults' \in 0..MaxFaults
  <2>1. Blame({job[q].id : q \in {q \in {p} : Unrecorded(q)}}, "store_error") /\ Fault
    BY DEF StoreFails
  <2> QED BY <1>3, <2>1, BlameTyped, FaultTyped DEF Cause
<1>5. /\ failure' \in [Process -> Failure]
      /\ \A q \in Process \ {p} : failure'[q] = failure[q]
  BY <1>3 DEF StoreFails, TypeOK, Failure, NoFailure
<1>6. CASE Finish(p) \/ Stop(p)
  BY <1>2, <1>3, <1>4, <1>5, <1>6, EndSound DEF TypeOK
<1>7. ASSUME NEW l \in {"release", "abort"}, Goto(p, l), UNCHANGED <<job, batch>>
      PROVE  IInv'
  <2>1. l \in Label \ {"idle"}
    BY DEF Label, StoreCall
  <2>2. TypeOK'
    BY <1>2, <1>3, <1>4, <1>5, <1>7, <2>1 DEF TypeOK, Goto
  <2>3. LabelFits(l, p, job[p], source'[job[p].id], failure'[p])
    BY DEF LabelFits
  <2> QED BY <1>1, <1>3, <1>5, <1>7, <2>1, <2>2, <2>3, GotoSound
<1> QED BY <1>6, <1>7 DEF StoreFails

\* A message that goes takes no knowledge back.
LEMMA SourceGone ==
  ASSUME IInv, NEW i \in Action, source' = [source EXCEPT ![i] = FALSE],
         UNCHANGED <<outbox, posted>>
  PROVE  /\ source' \in [Action -> BOOLEAN] /\ source'[i] = FALSE
         /\ \A a \in Action : Later(a)
         /\ \A a \in Action : RowSound(a)'
<1>1. \A a \in Action : posted[a] \in [MessageKind -> 0..MaxPosts]
  BY DEF IInv, TypeOK
<1>2. source' \in [Action -> BOOLEAN] /\ source'[i] = FALSE
  BY DEF IInv, TypeOK
<1>3. \A a \in Action : source'[a] => source[a]
  BY DEF IInv, TypeOK
<1>4. \A a \in Action : Later(a)
  BY <1>1, <1>3, OutboxAssumption DEF Later
<1>5. \A a \in Action : RowSound(a)'
  BY <1>3 DEF IInv, RowSound, RowFits
<1> QED BY <1>2, <1>4, <1>5

\* After a deletion a process knows that the source is gone.
LEMMA AfterDeleteFits ==
  ASSUME IInv, NEW p \in Process, pc[p] = "delete"
  PROVE  /\ AfterDelete(p, job[p]) \in Label \ {"idle"}
         /\ \A f : LabelFits(AfterDelete(p, job[p]), p, job[p], FALSE, f)
<1>1. LabelFits("delete", p, job[p], source[job[p].id], failure[p])
  BY MineFits
<1> QED BY <1>1 DEF AfterDelete, LabelFits, Label, StoreCall

\* A process that notes a failure to record it next.
LEMMA FailSound ==
  ASSUME IInv, NEW p \in Process, pc[p] # "idle",
         NEW st \in Unfinished, NEW x \in TelegramError, Fail(p, st, x),
         UNCHANGED <<outbox, job, batch>>,
         source' \in [Action -> BOOLEAN],
         posted' \in [Action -> [MessageKind -> 0..MaxPosts]],
         faults' \in 0..MaxFaults, blame' \in [Action -> SUBSET Cause],
         \A a \in Action : Later(a), \A a \in Action : RowSound(a)',
         st = "send_pending" /\ job[p].op # "reply" => ~source'[job[p].id]
  PROVE  IInv'
<1>1. TypeOK
  BY DEF IInv
<1>2. [state |-> st, class |-> Class(x)] \in Failure
  BY DEF Failure, Class, Unfinished
<1>3. /\ failure' \in [Process -> Failure] /\ failure'[p].state = st
      /\ \A q \in Process \ {p} : failure'[q] = failure[q]
  BY <1>1, <1>2 DEF Fail, TypeOK
<1>4. "markError" \in Label \ {"idle"}
  BY DEF Label, StoreCall
<1>5. TypeOK'
  BY <1>1, <1>3, <1>4 DEF TypeOK, Fail, Goto
<1>6. LabelFits("markError", p, job[p], source'[job[p].id], failure'[p])
  BY <1>3 DEF LabelFits
<1> QED BY <1>3, <1>4, <1>5, <1>6, GotoSound DEF Fail

LEMMA DeletedSound ==
  ASSUME IInv, NEW p \in Process, Deleted(p) PROVE IInv'
<1>1. pc[p] = "delete" /\ job[p].id \in Action
  BY MineFits DEF Deleted
<1>2. PICK i, l : i \in Action /\ i = job[p].id /\ l = AfterDelete(p, job[p])
  BY <1>1
<1>3. /\ source' \in [Action -> BOOLEAN] /\ source'[i] = FALSE
      /\ \A a \in Action : Later(a)
      /\ \A a \in Action : RowSound(a)'
  BY <1>2, SourceGone DEF Deleted
<1>4. l \in Label \ {"idle"} /\ LabelFits(l, p, job[p], source'[job[p].id], failure'[p])
  BY <1>1, <1>2, <1>3, AfterDeleteFits
<1>5. Goto(p, l) /\ UNCHANGED <<outbox, posted, job, batch, failure, faults, blame>>
  BY <1>2 DEF Deleted
<1>6. TypeOK'
  BY <1>3, <1>4, <1>5 DEF IInv, TypeOK, Goto
<1> QED BY <1>1, <1>3, <1>4, <1>5, <1>6, GotoSound

LEMMA DeleteFailsSound ==
  ASSUME IInv, NEW p \in Process, NEW x \in TelegramError, DeleteFails(p, x)
  PROVE  IInv'
<1>1. pc[p] = "delete" /\ job[p].id \in Action /\ source[job[p].id] \in BOOLEAN
  BY MineFits DEF DeleteFails
<1>2. UNCHANGED <<outbox, source, posted, job, batch, faults, blame>>
  BY DEF DeleteFails
<1>3. /\ TypeOK
      /\ \A a \in Action : Later(a)
      /\ \A a \in Action : RowSound(a)'
  BY <1>2, NothingWritten
<1>4. CASE IsMessageNotFound(x)
  <2>1. PICK l : l = AfterDelete(p, job[p])
    OBVIOUS
  <2>2. source'[job[p].id] = FALSE
    BY <1>1, <1>2, <1>4 DEF DeleteFails
  <2>3. l \in Label \ {"idle"} /\ LabelFits(l, p, job[p], source'[job[p].id], failure'[p])
    BY <1>1, <2>1, <2>2, AfterDeleteFits
  <2>4. Goto(p, l) /\ UNCHANGED failure
    BY <1>4, <2>1 DEF DeleteFails
  <2>5. TypeOK'
    BY <1>2, <1>3, <2>3, <2>4 DEF TypeOK, Goto
  <2> QED BY <1>1, <1>2, <1>3, <2>3, <2>4, <2>5, GotoSound
<1>5. CASE ~IsMessageNotFound(x)
  <2>1. Fail(p, "delete_requested", x) /\ "delete_requested" \in Unfinished
    BY <1>5 DEF DeleteFails, Unfinished
  <2> QED BY <1>1, <1>2, <1>3, <2>1, FailSound DEF TypeOK
<1> QED BY <1>4, <1>5

LEMMA NetworkErrorTyped == NetworkError \in TelegramError
BY DEF NetworkError, TelegramError

LEMMA DeleteAnswerLostSound ==
  ASSUME IInv, NEW p \in Process, DeleteAnswerLost(p) PROVE IInv'
<1>1. pc[p] = "delete" /\ job[p].id \in Action /\ TypeOK
  BY MineFits DEF DeleteAnswerLost, IInv
<1>2. PICK i \in Action : i = job[p].id
  BY <1>1
<1>3. /\ source' \in [Action -> BOOLEAN]
      /\ \A a \in Action : Later(a)
      /\ \A a \in Action : RowSound(a)'
  BY <1>2, SourceGone DEF DeleteAnswerLost
<1>4. faults' \in 0..MaxFaults
  BY <1>1, FaultTyped DEF DeleteAnswerLost
<1>5. Fail(p, "delete_requested", NetworkError) /\ "delete_requested" \in Unfinished
  BY DEF DeleteAnswerLost, Unfinished
<1>6. UNCHANGED <<outbox, posted, job, batch, blame>>
  BY DEF DeleteAnswerLost
<1> QED BY <1>1, <1>3, <1>4, <1>5, <1>6, NetworkErrorTyped, FailSound DEF TypeOK

\* Telegram takes a message: more is posted, and text only for a gone source.
LEMMA AcceptSound ==
  ASSUME IInv, NEW p \in Process, Accept(p), UNCHANGED <<outbox, source>>
  PROVE  /\ posted' \in [Action -> [MessageKind -> 0..MaxPosts]]
         /\ Kind(p) \in MessageKind
         /\ posted'[job[p].id][Kind(p)] > 0
         /\ \A a \in Action : Later(a)
         /\ \A a \in Action : RowSound(a)'
<1>1. pc[p] # "idle" /\ pc[p] \in {"copy", "send"} /\ TypeOK
  BY DEF Accept, IInv
<1>2. PICK i \in Action, k \in MessageKind : i = job[p].id /\ k = Kind(p)
  BY <1>1, MineFits DEF Kind, MessageKind
<1>3. /\ posted[i][k] < MaxPosts
      /\ posted' = [posted EXCEPT ![i][k] = @ + 1]
  BY <1>2 DEF Accept
<1>4. \A a \in Action, m \in MessageKind : posted[a][m] \in 0..MaxPosts
  BY <1>1 DEF TypeOK
<1>5. posted[i][k] + 1 \in 0..MaxPosts
  BY <1>3, <1>4, OutboxAssumption
<1>6. posted' \in [Action -> [MessageKind -> 0..MaxPosts]]
  BY <1>1, <1>3, <1>5 DEF TypeOK
<1>7. /\ posted'[i][k] = posted[i][k] + 1
      /\ \A a \in Action, m \in MessageKind :
           <<a, m>> # <<i, k>> => posted'[a][m] = posted[a][m]
  BY <1>1, <1>3 DEF TypeOK
<1>8. \A a \in Action, m \in MessageKind : posted'[a][m] >= posted[a][m]
  BY <1>4, <1>7, OutboxAssumption
<1>9. \A a \in Action : Later(a)
  BY <1>8 DEF Later
<1>10. k = "text" => ~source[i]
  <2>1. LabelFits(pc[p], p, job[p], source[job[p].id], failure[p])
    BY <1>1, MineFits
  <2> QED BY <1>1, <1>2, <2>1 DEF Kind, LabelFits
<1>11. ASSUME NEW a \in Action PROVE RowSound(a)'
  <2>1. RowSound(a) /\ outbox[a].response \in MessageKind \cup {NoResponse}
    BY <1>1 DEF IInv, TypeOK, Row
  <2>2. outbox[a].response # NoResponse => posted'[a][outbox[a].response] > 0
    <3>1. CASE outbox[a].response # NoResponse
      <4>1. PICK m \in MessageKind : m = outbox[a].response
        BY <2>1, <3>1
      <4>2. posted[a][m] > 0 /\ posted'[a][m] >= posted[a][m]
        BY <1>8, <2>1, <3>1, <4>1 DEF RowSound, RowFits
      <4>3. posted[a][m] \in Nat /\ posted'[a][m] \in Nat
        BY <1>4, <1>6, OutboxAssumption
      <4> QED BY <4>1, <4>2, <4>3
    <3> QED BY <3>1
  <2>3. posted'[a]["text"] > 0 => ~source[a]
    <3>1. CASE <<a, "text">> = <<i, k>>
      BY <1>10, <3>1
    <3>2. CASE <<a, "text">> # <<i, k>>
      BY <1>7, <2>1, <3>2 DEF RowSound, MessageKind
    <3> QED BY <3>1, <3>2
  <2> QED BY <2>1, <2>2, <2>3 DEF RowSound, RowFits
<1>12. posted'[i][k] > 0
  BY <1>4, <1>7, OutboxAssumption
<1> QED BY <1>2, <1>6, <1>9, <1>11, <1>12

LEMMA PostedSound ==
  ASSUME IInv, NEW p \in Process, Posted(p) PROVE IInv'
<1>1. /\ pc[p] \in {"copy", "send"} /\ pc[p] # "idle" /\ TypeOK
      /\ Accept(p) /\ UNCHANGED <<outbox, source, batch, failure, faults, blame>>
  BY DEF Posted, Accept, IInv
<1>2. /\ posted' \in [Action -> [MessageKind -> 0..MaxPosts]]
      /\ Kind(p) \in MessageKind
      /\ posted'[job[p].id][Kind(p)] > 0
      /\ \A a \in Action : Later(a)
      /\ \A a \in Action : RowSound(a)'
  BY <1>1, AcceptSound
<1>3. PICK e, l : /\ e = [job[p] EXCEPT !.response = Kind(p)]
                  /\ l = IF pc[p] = "copy" THEN "markCopied" ELSE "complete"
  OBVIOUS
<1>4. /\ e \in Entry /\ e.id = job[p].id /\ e.op = job[p].op
      /\ e.state = job[p].state /\ e.response = Kind(p)
  BY <1>1, <1>2, <1>3, MineFits DEF Entry
<1>5. Goto(p, l) /\ job' = [job EXCEPT ![p] = e]
  BY <1>3 DEF Posted
<1>6. l \in Label \ {"idle"}
  BY <1>3 DEF Label, StoreCall
<1>7. TypeOK'
  BY <1>1, <1>2, <1>4, <1>5, <1>6 DEF TypeOK, Goto
<1>8. EntrySound(job[p])
  BY <1>1, MineFits
<1>9. EntrySound(e)'
  <2>1. EntryFits(job[p], outbox[e.id], source[e.id], posted[e.id])
    BY <1>4, <1>8 DEF EntrySound
  <2> QED BY <1>1, <1>2, <1>4, <2>1 DEF EntrySound, EntryFits
<1>10. LabelFits(l, p, e, source'[e.id], failure[p])
  <2>1. LabelFits(pc[p], p, job[p], source[job[p].id], failure[p])
    BY <1>1, MineFits
  <2>2. e.response # NoResponse
    BY <1>2, <1>4 DEF MessageKind, NoResponse
  <2> QED BY <1>1, <1>3, <1>4, <2>1, <2>2 DEF LabelFits
<1> QED BY <1>1, <1>2, <1>4, <1>5, <1>6, <1>7, <1>9, <1>10, MoveSound

\* A copy or send that fails leaves what the process knew of the source.
LEMMA SendKnows ==
  ASSUME IInv, NEW p \in Process, pc[p] \in {"copy", "send"}
  PROVE  LET st == IF pc[p] = "copy" THEN "planned" ELSE "send_pending" IN
         /\ st \in Unfinished
         /\ st = "send_pending" /\ job[p].op # "reply" => ~source[job[p].id]
<1>1. LabelFits(pc[p], p, job[p], source[job[p].id], failure[p])
  BY MineFits
<1> QED BY <1>1 DEF LabelFits, Unfinished

LEMMA PostAnswerLostSound ==
  ASSUME IInv, NEW p \in Process, PostAnswerLost(p) PROVE IInv'
<1>1. /\ pc[p] \in {"copy", "send"} /\ pc[p] # "idle" /\ TypeOK /\ Fault
      /\ Accept(p) /\ UNCHANGED <<outbox, source, job, batch>>
  BY DEF PostAnswerLost, Accept, IInv
<1>2. /\ posted' \in [Action -> [MessageKind -> 0..MaxPosts]]
      /\ \A a \in Action : Later(a)
      /\ \A a \in Action : RowSound(a)'
  BY <1>1, AcceptSound
<1>3. blame' \in [Action -> SUBSET Cause] /\ faults' \in 0..MaxFaults
  <2>1. Blame({job[p].id}, "lost_answer")
    BY DEF PostAnswerLost
  <2> QED BY <1>1, <2>1, BlameTyped, FaultTyped DEF Cause
<1>4. PICK st : st = IF pc[p] = "copy" THEN "planned" ELSE "send_pending"
  OBVIOUS
<1>5. /\ st \in Unfinished
      /\ st = "send_pending" /\ job[p].op # "reply" => ~source'[job[p].id]
  BY <1>1, <1>4, SendKnows
<1>6. Fail(p, st, NetworkError)
  BY <1>4 DEF PostAnswerLost
<1> QED BY <1>1, <1>2, <1>3, <1>5, <1>6, NetworkErrorTyped, FailSound DEF TypeOK

LEMMA PostFailsSound ==
  ASSUME IInv, NEW p \in Process, NEW x \in TelegramError, PostFails(p, x)
  PROVE  IInv'
<1>1. /\ pc[p] \in {"copy", "send"} /\ pc[p] # "idle"
      /\ UNCHANGED <<outbox, source, posted, job, batch, faults, blame>>
  BY DEF PostFails
<1>2. /\ TypeOK
      /\ \A a \in Action : Later(a)
      /\ \A a \in Action : RowSound(a)'
  BY <1>1, NothingWritten
<1>3. CASE pc[p] = "copy" /\ IsPermanentError(x)
  <2>1. Goto(p, "replace") /\ UNCHANGED failure /\ "replace" \in Label \ {"idle"}
    BY <1>3 DEF PostFails, Label, StoreCall
  <2>2. TypeOK'
    BY <1>1, <1>2, <2>1 DEF TypeOK, Goto
  <2>3. LabelFits("replace", p, job[p], source'[job[p].id], failure'[p])
    BY <1>1, <1>3, MineFits DEF LabelFits
  <2> QED BY <1>1, <1>2, <2>1, <2>2, <2>3, GotoSound
<1>4. CASE ~(pc[p] = "copy" /\ IsPermanentError(x))
  <2>1. PICK st : st = IF pc[p] = "copy" THEN "planned" ELSE "send_pending"
    OBVIOUS
  <2>2. /\ st \in Unfinished
        /\ st = "send_pending" /\ job[p].op # "reply" => ~source'[job[p].id]
    BY <1>1, <2>1, SendKnows
  <2>3. Fail(p, st, x)
    BY <1>4, <2>1 DEF PostFails
  <2> QED BY <1>1, <1>2, <2>2, <2>3, FailSound DEF TypeOK
<1> QED BY <1>3, <1>4

LEMMA TelegramStepSound ==
  ASSUME IInv, NEW p \in Process, TelegramStep(p) PROVE IInv'
<1>1. {NotFound, BadRequest} \cup Refusal \subseteq TelegramError
  BY DEF Refusal, NotFound, NoRights, BadRequest, TooMany, TooManyBare,
         ServerError, NetworkError, TelegramError
<1>2. CASE \E e \in TelegramError : DeleteFails(p, e) \/ PostFails(p, e)
  BY <1>2, DeleteFailsSound, PostFailsSound
<1>3. CASE Deleted(p) \/ Posted(p) \/ DeleteAnswerLost(p) \/ PostAnswerLost(p)
  BY <1>3, DeletedSound, PostedSound, DeleteAnswerLostSound, PostAnswerLostSound
<1> QED BY <1>1, <1>2, <1>3 DEF TelegramStep, Settled

LEMMA StoreStepSound ==
  ASSUME IInv, NEW p \in Process, StoreStep(p) PROVE IInv'
BY MarkCopiedSound, ReplaceSound, MarkDeleteSound, MarkSendSound, CompleteSound,
   MarkErrorSound, ReleaseSound DEF StoreStep

LEMMA MemberDeletesSound ==
  ASSUME IInv, NEW i \in Action, MemberDeletes(i) PROVE IInv'
<1>1. /\ UNCHANGED <<outbox, posted, pc, job, batch, failure, faults, blame>>
      /\ source' = [source EXCEPT ![i] = FALSE]
  BY DEF MemberDeletes
<1>2. /\ source' \in [Action -> BOOLEAN]
      /\ \A a \in Action : Later(a)
      /\ \A a \in Action : RowSound(a)'
  BY <1>1, SourceGone
<1>3. TypeOK'
  BY <1>1, <1>2 DEF IInv, TypeOK
<1> QED BY <1>1, <1>2, <1>3, UnmovedKeep

LEMMA TickSound == ASSUME IInv, Tick PROVE IInv'
<1>1. /\ outbox' = [a \in Action |-> Elapse(outbox[a])]
      /\ UNCHANGED <<source, posted, pc, job, batch, failure, faults, blame>>
  BY DEF Tick
<1>2. \A a \in Action : outbox[a] \in Row /\ outbox'[a] = Elapse(outbox[a])
  BY <1>1 DEF IInv, TypeOK
<1>3. outbox' \in [Action -> Row]
  BY <1>1, <1>2, RowClosed DEF Operation, OutboxState, MessageKind
<1>4. TypeOK'
  BY <1>1, <1>3 DEF IInv, TypeOK
<1>5. \A a \in Action : /\ outbox'[a].state = outbox[a].state
                        /\ outbox'[a].op = outbox[a].op
                        /\ outbox'[a].response = outbox[a].response
                        /\ outbox'[a].canonical = outbox[a].canonical
  BY <1>2 DEF Elapse, Row
<1>6. \A a \in Action : Later(a)
  <2>1. \A a \in Action : posted[a] \in [MessageKind -> 0..MaxPosts]
    BY DEF IInv, TypeOK
  <2> QED BY <1>1, <1>5, <2>1, OutboxAssumption DEF Later
<1>7. \A a \in Action : RowSound(a)'
  BY <1>1, <1>5 DEF IInv, RowSound, RowFits
<1> QED BY <1>1, <1>4, <1>6, <1>7, UnmovedKeep

LEMMA CreateCanonicalSound ==
  ASSUME IInv, NEW i \in Action, NEW op \in Operation, CreateCanonical(i, op)
  PROVE  IInv'
<1>1. /\ TypeOK /\ outbox[i].state = "absent" /\ pc[Handler] = "idle"
      /\ UNCHANGED <<source, posted, batch, failure, faults, blame>>
      /\ Handler \in Process
  BY DEF CreateCanonical, IInv, Process
<1>2. PICK row, e, l : /\ row = Planned(op)
                       /\ e = [id |-> i, op |-> op, state |-> "planned",
                               response |-> NoResponse]
                       /\ l = Inline(op)
  OBVIOUS
<1>3. row \in Row
  BY <1>1, <1>2, RowClosed DEF TypeOK, OutboxState, MessageKind
<1>4. row.state = "planned" /\ row.op = op /\ row.response = NoResponse
  BY <1>2 DEF Planned, Absent
<1>5. /\ outbox' = [outbox EXCEPT ![i] = row]
      /\ job' = [job EXCEPT ![Handler] = e]
      /\ Goto(Handler, l)
  BY <1>2 DEF CreateCanonical
<1>6. outbox'[i] = row /\ \A a \in Action \ {i} : outbox'[a] = outbox[a]
  BY <1>1, <1>5 DEF TypeOK
<1>7. \A a \in Action : Later(a)
  <2>1. \A a \in Action : posted[a] \in [MessageKind -> 0..MaxPosts]
    BY <1>1 DEF TypeOK
  <2> QED BY <1>1, <1>6, <2>1, OutboxAssumption DEF Later
<1>8. \A a \in Action : RowSound(a)'
  BY <1>1, <1>4, <1>6 DEF IInv, RowSound, RowFits
<1>9. e \in Entry
  BY <1>2 DEF Entry, OutboxState
<1>10. l \in Label \ {"idle"} /\ LabelFits(l, Handler, e, source'[e.id], failure[Handler])
  BY <1>2 DEF Inline, LabelFits, Label, StoreCall, Operation
<1>11. EntrySound(e)'
  <2>1. /\ e.id = i /\ e.op = op /\ e.state = "planned" /\ e.response = NoResponse
        /\ outbox'[e.id] = row
    BY <1>2, <1>6
  <2>2. EntryFits(e, row, source'[i], posted'[i])
    BY <1>4, <1>9, <2>1 DEF EntryFits, Unfinished
  <2> QED BY <2>1, <2>2 DEF EntrySound
<1>12. TypeOK'
  BY <1>1, <1>3, <1>5, <1>9, <1>10 DEF TypeOK, Goto
<1> QED BY <1>1, <1>5, <1>7, <1>8, <1>9, <1>10, <1>11, <1>12, MoveSound

LEMMA PendingOutboxSound ==
  ASSUME IInv, NEW w \in Worker, PendingOutbox(w) PROVE IInv'
<1>1. TypeOK /\ w \in Process /\ UNCHANGED <<source, posted, failure, faults>>
  BY DEF PendingOutbox, IInv, Process
<1>2. PICK due \in SUBSET Action : due = {a \in Action : Claimable(outbox[a])}
  OBVIOUS
<1>3. PICK E : E = {[id |-> a, op |-> outbox[a].op, state |-> outbox[a].state,
                     response |-> outbox[a].response] : a \in due}
  OBVIOUS
<1>4. /\ outbox' = [a \in Action |-> IF a \in due THEN Claimed(outbox[a]) ELSE outbox[a]]
      /\ Take(w, E)
      /\ Blame({a \in due : Busy(a)}, "overlap")
  BY <1>2, <1>3 DEF PendingOutbox
<1>5. \A a \in Action : outbox[a] \in Row
  BY <1>1 DEF TypeOK
<1>6. outbox' \in [Action -> Row]
  BY <1>4, <1>5, RowClosed DEF Operation, OutboxState, MessageKind
<1>7. \A a \in Action : /\ outbox'[a].state = outbox[a].state
                        /\ outbox'[a].op = outbox[a].op
                        /\ outbox'[a].response = outbox[a].response
                        /\ outbox'[a].canonical = outbox[a].canonical
  BY <1>4, <1>5 DEF Claimed, Row
<1>8. \A a \in Action : Later(a)
  <2>1. \A a \in Action : posted[a] \in [MessageKind -> 0..MaxPosts]
    BY <1>1 DEF TypeOK
  <2>2. \A a \in Action, k \in MessageKind : posted'[a][k] >= posted[a][k]
    BY <1>1, <2>1, OutboxAssumption
  <2> QED BY <1>1, <1>7, <2>2 DEF Later
<1>9. \A a \in Action : RowSound(a)'
  BY <1>1, <1>7 DEF IInv, RowSound, RowFits
<1>10. ASSUME NEW e \in E PROVE e \in Entry /\ EntrySound(e)'
  <2>1. PICK a \in due : e = [id |-> a, op |-> outbox[a].op, state |-> outbox[a].state,
                              response |-> outbox[a].response]
    BY <1>3
  <2>2. outbox[a] \in Row /\ a \in Action
    BY <1>5
  <2>3. e \in Entry
    BY <2>1, <2>2 DEF Entry, Row
  <2>4. outbox[a].state \in Unfinished
    BY <1>2, <2>2 DEF Claimable, Row, OutboxState, Terminal, Unfinished
  <2>5. RowSound(a)
    BY DEF IInv
  <2>6. EntryFits(e, outbox'[e.id], source'[e.id], posted'[e.id])
    BY <1>1, <1>7, <2>1, <2>3, <2>4, <2>5 DEF EntryFits, RowSound, RowFits, Unfinished
  <2> QED BY <2>3, <2>6 DEF EntrySound
<1>11. E \in SUBSET Entry /\ source' \in [Action -> BOOLEAN]
  BY <1>1, <1>10 DEF TypeOK
<1>12. /\ pc' \in [Process -> Label]
       /\ job' \in [Process -> Entry \cup {NoJob}]
       /\ batch' \in [Process -> SUBSET Entry]
       /\ JobSound(w)' /\ BatchSound(w)'
       /\ \A q \in Process \ {w} : /\ pc'[q] = pc[q] /\ job'[q] = job[q]
                                   /\ batch'[q] = batch[q]
  BY <1>1, <1>4, <1>10, <1>11, TakeSound
<1>13. TypeOK'
  BY <1>1, <1>4, <1>6, <1>12, BlameTyped DEF TypeOK, Cause
<1> QED BY <1>1, <1>8, <1>9, <1>12, <1>13, OthersKeep

LEMMA CrashSound == ASSUME IInv, Crash PROVE IInv'
<1>1. UNCHANGED <<outbox, source, posted>> /\ Fault
  BY DEF Crash
<1>2. TypeOK /\ \A a \in Action : RowSound(a)'
  BY <1>1, NothingWritten
<1>3. blame' \in [Action -> SUBSET Cause]
  BY <1>2, BlameTyped DEF Crash, Cause
<1>4. faults' \in 0..MaxFaults
  BY <1>1, <1>2, FaultTyped
<1>5. TypeOK'
  BY <1>1, <1>2, <1>3, <1>4 DEF Crash, TypeOK, Label, Failure, NoFailure
<1>6. \A p \in Process : JobSound(p)' /\ BatchSound(p)'
  BY DEF Crash, JobSound, BatchSound
<1> QED BY <1>2, <1>5, <1>6 DEF IInv

LEMMA NextSound == ASSUME IInv, [Next]_vars PROVE IInv'
<1>1. CASE \E a \in Action, op \in Plans : CreateCanonical(a, op)
  BY <1>1, CreateCanonicalSound, OutboxAssumption
<1>2. CASE \E w \in Worker : PendingOutbox(w)
  BY <1>2, PendingOutboxSound
<1>3. CASE \E p \in Process : ProcessStep(p)
  BY <1>3, StoreStepSound, StoreFailsSound, TelegramStepSound DEF ProcessStep
<1>4. CASE \E a \in Action : MemberDeletes(a)
  BY <1>4, MemberDeletesSound
<1>5. CASE Crash
  BY <1>5, CrashSound
<1>6. CASE Tick
  BY <1>6, TickSound
<1>7. CASE UNCHANGED vars
  <2>1. /\ UNCHANGED <<outbox, source, posted>>
        /\ UNCHANGED <<pc, job, batch, failure, faults, blame>>
    BY <1>7 DEF vars
  <2>2. TypeOK'
    BY <2>1 DEF IInv, TypeOK
  <2> QED BY <2>1, <2>2, NothingWritten, UnmovedKeep
<1> QED BY <1>1, <1>2, <1>3, <1>4, <1>5, <1>6, <1>7 DEF Next

-----------------------------------------------------------------------------
(* The theorems.                                                           *)

\* IInv is inductive: whatever crashes, lost answers, expired leases and
\* concurrent claims a run has met, no process is misled about what cannot be
\* taken back.
THEOREM Invariance == Spec => []IInv
<1>1. Init => IInv
  BY InitSound
<1>2. IInv /\ [Next]_vars => IInv'
  BY NextSound
<1> QED BY <1>1, <1>2, PTL DEF Spec

\* The variables of the outbox keep their types: in particular the number of
\* attempts stays within the cap of the backoff (store.go, outboxBackoff).
THEOREM TypeCorrect == Spec => []TypeOK
<1>1. IInv => TypeOK
  BY DEF IInv
<1> QED BY <1>1, Invariance, PTL

\* No text replaces a message that is still in the chat (applyTextAction and
\* retryOutbox, SPEC.md rule 3), for any number of actions, workers and faults.
THEOREM NoTextBeforeDelete == Spec => []ResponseAfterDelete
<1>1. IInv => ResponseAfterDelete
  BY DEF IInv, RowSound, ResponseAfterDelete
<1> QED BY <1>1, Invariance, PTL

\* A row is complete only once its response is in the chat and its source gone
\* (MarkOutboxComplete), for any number of actions, workers and faults.
THEOREM CompletionIsHonest == Spec => []CompleteIsHonest
<1>1. IInv => CompleteIsHonest
  BY DEF IInv, RowSound, RowFits, CompleteIsHonest
<1> QED BY <1>1, Invariance, PTL
=============================================================================
