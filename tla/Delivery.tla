------------------------------ MODULE Delivery ------------------------------
(***************************************************************************)
(* What the chat and the owner of a table may rely on about the delivery   *)
(* of moderation actions, with no process, snapshot, lease or retry in it. *)
(* An action is planned once, answered once unless there is an excuse, and *)
(* ends once unless two processes held it.  Outbox implements it.          *)
(***************************************************************************)
EXTENDS Integers

CONSTANT Action

VARIABLE action   \* what can be seen of each action, from outside

Kind == {"text", "copy", "reply"}

Unplanned == [stage |-> "none", op |-> "text", original |-> "present",
              answers |-> [k \in Kind |-> 0], excuses |-> {}]

Answers(r) == r.answers["text"] + r.answers["copy"] + r.answers["reply"]

Shared(r) == "overlap" \in r.excuses

At(r, stage)     == [r EXCEPT !.stage = stage]
With(r, op)      == [r EXCEPT !.op = op]
Counted(f, k)    == [f EXCEPT ![k] = @ + 1]
Answered(r, k)   == [r EXCEPT !.answers = Counted(@, k)]
Excused(r, some) == [r EXCEPT !.excuses = @ \cup some]

\* r is an action before a step, s the same action after it.
Plan(r, s) ==
  /\ r.stage = "none"
  /\ \E op \in {"text", "copy_media", "reply"} :
       s = With(At(r, "open"), op)

\* Media that cannot be copied is answered by a text.
FallBack(r, s) == r.op = "copy_media" /\ s = With(r, "text")

\* The message the action is about leaves the chat, by whoever's hand.
Remove(r, s) == /\ r.stage # "none"
                /\ r.original = "present"
                /\ s = [r EXCEPT !.original = "gone"]

\* A text stands where the message was, a copy or a reply refers to it.  Only
\* an excuse allows a second answer, or one after the end.
Answer(r, s) ==
  /\ r.excuses = {} => r.stage = "open" /\ Answers(r) = 0
  /\ \E k \in Kind, because \in {{}, {"lost_answer"}} :
       /\ k = "text" <=> r.original = "gone"
       /\ k = "reply" <=> r.op = "reply"
       /\ k = "copy" => r.op = "copy_media" \/ Shared(r)
       /\ s = Excused(Answered(r, k), because)

\* The record says that the action is done: it was answered, and its source is
\* out of the chat unless the answer is a reply to it.
Complete(r, s) ==
  /\ r.stage = "open" \/ Shared(r)
  /\ Answers(r) > 0
  /\ r.op # "reply" => r.original = "gone"
  /\ s = At(r, "complete")

GiveUp(r, s) == /\ r.stage = "open" \/ Shared(r)
                /\ s = At(r, "dead")

\* Only with two processes at work does a finished action begin again.
Reopen(r, s) == /\ Shared(r)
                /\ s = At(r, "open")

\* An accepted answer is forgotten, or a second process takes the action up.
Excuse(r, s) ==
  \E cause \in {"crash", "store_error", "overlap"} :
    /\ cause = "overlap" => r.stage = "open"
    /\ cause # "overlap" => Answers(r) > 0
    /\ s = Excused(r, {cause})

Step(r, s) ==
  \/ s = r
  \/ Plan(r, s) \/ FallBack(r, s) \/ Remove(r, s) \/ Answer(r, s)
  \/ Complete(r, s) \/ GiveUp(r, s) \/ Reopen(r, s) \/ Excuse(r, s)

Init == action = [a \in Action |-> Unplanned]

\* One claim, or the end of a process, may excuse several actions at once.
Next == /\ DOMAIN action' = Action
        /\ \A a \in Action : Step(action[a], action'[a])

Spec == Init /\ [][Next]_action
=============================================================================
