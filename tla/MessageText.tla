---------------------------- MODULE MessageText -----------------------------
(***************************************************************************)
(* The text algorithms of pkg/core/moderation/message.go.  A text is a     *)
(* sequence of characters of which only this matters:                      *)
(*   h, H  a letter of a host name, small or capital                       *)
(*   w     a letter outside the BMP: two UTF-16 units                      *)
(*   _ .   a space and a full stop                                         *)
(*   s, f  stand for https:// and ftp://                                   *)
(* An entity is [type, offset, length, url] with offset and length in      *)
(* UTF-16 units, as Telegram counts.  A span <<first, last>> is what the   *)
(* code has as byte positions: the characters from first to last.          *)
(***************************************************************************)
EXTENDS Integers, Sequences, SequencesExt, FiniteSetsExt

Letter == {"h", "H"}
Blank(text) == \A i \in DOMAIN text : text[i] = "_"

\* strings.TrimSpace
Trim(text) ==
  IF Blank(text) THEN <<>>
  ELSE LET solid == {i \in DOMAIN text : text[i] # "_"}
       IN SubSeq(text, Min(solid), Max(solid))

-----------------------------------------------------------------------------
(* utf16Span: the loop over the runes, with the units seen so far.         *)

NoSpan == <<0, 0>>

Utf16Width(c) == IF c = "w" THEN 2 ELSE 1

\* State of the loop: units counted, first and last as far as they are found
\* (0 and -1: not yet).  It stops at the end of the span.
ScanStep(offset, length, state, at, c) ==
  LET units == state.units + Utf16Width(c)
      first == IF state.units = offset THEN at ELSE state.first
  IN IF state.last >= 0 THEN state
     ELSE [units |-> units, first |-> first,
           last |-> IF units = offset + length THEN at ELSE -1]

Scan(text, offset, length) ==
  LET scan[n \in 0..Len(text)] ==
        IF n = 0 THEN [units |-> 0, first |-> 0, last |-> -1]
        ELSE ScanStep(offset, length, scan[n - 1], n, text[n])
  IN scan[Len(text)]

\* NoSpan when the offsets fall outside the text or inside a character.
Utf16Span(text, offset, length) ==
  LET end == Scan(text, offset, length) IN
  IF offset >= 0 /\ length > 0 /\ end.first > 0 /\ end.last >= end.first
  THEN <<end.first, end.last>> ELSE NoSpan

Cut(text, span) == SubSeq(text, span[1], span[2])

-----------------------------------------------------------------------------
(* canonicalHTTPTarget and normalizeURL.                                   *)

\* hasExplicitScheme: what precedes the first "://" is a scheme token.
HasExplicitScheme(raw) ==
  \E i \in DOMAIN raw :
    /\ raw[i] \in {"s", "f"}
    /\ \A j \in 1..(i - 1) : raw[j] \in Letter \/ (raw[j] = "." /\ j > 1)

\* A host ends where a second scheme begins, whose colon is an empty port.
InHost(url, i) == \A j \in 2..i : url[j] \notin {"s", "f"}

\* validHTTPURL, of a scheme, a host without a blank, and perhaps more.
ValidHTTPURL(target) ==
  /\ Len(target) > 1
  /\ Head(target) = "s"
  /\ \A i \in 2..Len(target) : InHost(target, i) => target[i] # "_"

\* NoTarget, unless the URL is accepted.
NoTarget == <<>>
CanonicalHTTPTarget(raw, schemeless) ==
  LET target == IF schemeless /\ ~HasExplicitScheme(raw) THEN <<"s">> \o raw ELSE raw
  IN IF ValidHTTPURL(target) THEN target ELSE NoTarget

\* The host is put in lower case, the path is not.
NormalizeURL(url) ==
  [i \in DOMAIN url |-> IF url[i] = "H" /\ InHost(url, i) THEN "h" ELSE url[i]]

-----------------------------------------------------------------------------
(* ExtractURLs and what is built on it.                                    *)

\* Of a text_link the URL is checked, its span is not.
URLOf(text, e) ==
  LET span == Utf16Span(text, e.offset, e.length)
      raw  == Trim(IF e.type = "text_link" THEN e.url
                   ELSE IF span = NoSpan THEN <<>> ELSE Cut(text, span))
  IN [raw |-> raw, target |-> CanonicalHTTPTarget(raw, e.type = "url"),
      offset |-> e.offset, length |-> e.length]

\* What a loop appends to its result, if it does.
OneIf(test, x) == IF test THEN <<x>> ELSE <<>>

Linked(text, e) ==
  e.type \in {"url", "text_link"} /\ URLOf(text, e).target # NoTarget

ExtractURLs(in) ==
  IF in.text = <<>> THEN <<>>
  ELSE FlattenSeq([i \in DOMAIN in.entities |->
         OneIf(Linked(in.text, in.entities[i]), URLOf(in.text, in.entities[i]))])

HasLinkOrMedia(in) == ExtractURLs(in) # <<>> \/ in.media

\* The spans of the URLs that have one.
Spans(text, urls) ==
  {Utf16Span(text, urls[i].offset, urls[i].length) : i \in DOMAIN urls} \ {NoSpan}

\* Mutant: the span of every entity is taken out, accepted or not.
RemovedAll(in) == [i \in DOMAIN in.entities |-> URLOf(in.text, in.entities[i])]
Removed(in) == ExtractURLs(in)

\* removeSpans leaves nothing but spaces and punctuation.
IsLinkOnly(in) ==
  LET urls == ExtractURLs(in)
      rest == {i \in DOMAIN in.text :
                 \A s \in Spans(in.text, Removed(in)) : i \notin s[1]..s[2]}
  IN /\ ~in.media /\ urls # <<>>
     /\ \A i \in rest : in.text[i] \in {"_", "."}

-----------------------------------------------------------------------------
(* ReplaceURLSpans and normalizedText: spans are replaced from the last to *)
(* the first, so that those before keep their place.                       *)

Splice(text, edit) ==
  SubSeq(text, 1, edit.span[1] - 1) \o edit.value
    \o SubSeq(text, edit.span[2] + 1, Len(text))

\* Mutant: sort.Slice with < in the place of >.
AscendingOrder(a, b) == a.span[1] < b.span[1]
EditOrder(a, b) == a.span[1] > b.span[1]

SpliceAll(text, edits) ==
  LET result[n \in 0..Len(edits)] ==
        IF n = 0 THEN text ELSE Splice(result[n - 1], edits[n])
  IN result[Len(edits)]

\* sort.Slice, which keeps the order of the elements that it does not tell apart
\* as long as there are at most twelve.  Rank is the place of edits[i] after it.
Precedes(edits, i, j) ==
  \/ EditOrder(edits[i], edits[j])
  \/ i < j /\ ~EditOrder(edits[j], edits[i])
Rank(edits, i) == Cardinality({j \in DOMAIN edits : Precedes(edits, j, i)}) + 1
Sorted(edits) ==
  [n \in DOMAIN edits |-> edits[CHOOSE i \in DOMAIN edits : Rank(edits, i) = n]]

\* Each span in the sorted slice ends before the one that comes before it.
Disjoint(edits) ==
  \A i \in 2..Len(edits) : edits[i].span[2] < edits[i - 1].span[1]

Failure == <<"error">>

Edit(text, url, value) ==
  [span |-> Utf16Span(text, url.offset, url.length), value |-> value]

\* destinations holds, for some of the URLs, what to put in their place.
ReplaceURLSpans(text, urls, destinations) ==
  LET chosen == SetToSeq({i \in DOMAIN destinations : ~Blank(destinations[i])})
      edits  == [n \in DOMAIN chosen |->
                   Edit(text, urls[chosen[n]], destinations[chosen[n]])]
      sorted == Sorted(edits)
  IN IF (\E n \in DOMAIN edits : edits[n].span = NoSpan) \/ ~Disjoint(sorted)
     THEN Failure ELSE SpliceAll(text, sorted)

\* A span that reaches into the one kept last is passed over.
Keep(kept, edit) ==
  IF kept # <<>> /\ edit.span[2] >= kept[Len(kept)].span[1] THEN kept
  ELSE Append(kept, edit)

Kept(edits) ==
  LET kept[n \in 0..Len(edits)] == IF n = 0 THEN <<>> ELSE Keep(kept[n - 1], edits[n])
  IN kept[Len(edits)]

\* A substitution for each URL that has a span.
Substitution(text, url) == Edit(text, url, NormalizeURL(url.target))
Substitutions(text, urls) ==
  FlattenSeq([i \in DOMAIN urls |->
    OneIf(Substitution(text, urls[i]).span # NoSpan, Substitution(text, urls[i]))])

NormalizedText(text, urls) ==
  Trim(SpliceAll(text, Kept(Sorted(Substitutions(text, urls)))))

\* Fingerprint before it is hashed; the digest keeps different texts apart.
Fingerprint(in, rule) ==
  LET urls == ExtractURLs(in)
  IN [rule |-> rule, text |-> NormalizedText(in.text, urls), media |-> in.media,
      urls |-> [i \in DOMAIN urls |-> NormalizeURL(urls[i].target)]]
=============================================================================
