---------------------------- MODULE ResponseText ----------------------------
(***************************************************************************)
(* The text of a response and the mention of the sender in it (applyPlan   *)
(* and its helpers in pkg/action/application.go), over the characters of   *)
(* MessageText and "~" for the ellipsis.  The code counts its limits in    *)
(* characters and the entities of Telegram in UTF-16 units.                *)
(***************************************************************************)
EXTENDS MessageText

CONSTANTS TextLimit,    \* messageTextLimit
          CaptionLimit  \* captionTextLimit

ASSUME TextLimitsAssumption == TextLimit \in Nat /\ CaptionLimit \in Nat

\* Catalog.Render, for a notice with the sender between two texts.
Render(before, name, after) == before \o name \o after

TruncateRunes(value, limit) ==
  IF Len(value) <= limit THEN value
  ELSE Append(Trim(SubSeq(value, 1, limit)), "~")

\* Mutant: a length is the number of characters.
CharactersOf(value) == Len(value)
Utf16Units(value) == Len(value) + Cardinality({i \in DOMAIN value : value[i] = "w"})

\* Where `name' stands in `text', as the number of characters before it.
Places(text, name) ==
  {n \in 0..(Len(text) - Len(name)) : SubSeq(text, n + 1, n + Len(name)) = name}

\* At most one text_mention, of the first place where the name stands.
ResponseEntities(text, name) ==
  IF name = <<>> \/ Places(text, name) = {} THEN <<>>
  ELSE LET before == SubSeq(text, 1, Min(Places(text, name)))
       IN <<[offset |-> Utf16Units(before), length |-> Utf16Units(name)]>>

\* The payload of a response: a copied medium carries a shorter text and, if it
\* cannot be copied, falls back to the whole one with the entities it has.
Payload(notice, name, copy) ==
  LET whole == TruncateRunes(notice, TextLimit)
      text  == IF copy THEN TruncateRunes(whole, CaptionLimit) ELSE whole
  IN [text |-> text, entities |-> ResponseEntities(text, name), fallback |-> whole]
=============================================================================
