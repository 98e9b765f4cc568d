----------------------------- MODULE Algorithms -----------------------------
(***************************************************************************)
(* The pure functions of the link pipeline, each against what it stands    *)
(* for.  A state is one input: a text, a message, a notice, a page, the    *)
(* addresses of a host, or a chain of redirects.                           *)
(***************************************************************************)
EXTENDS ResponseText, PreviewMetadata, Fetcher

CONSTANTS Texts,       \* short texts
          Offsets,     \* offsets and lengths of entities, in and out of range
          Pieces,      \* what messages are put together from
          Words,       \* the parts of a notice, the name of a sender
          Contents,    \* what the elements of a page may contain
          MaxPieces,   \* bound: pieces of one message, elements of one page
          MaxTime,     \* bound: what one attempt to connect takes
          MaxAddresses \* bound: addresses of a host, hops of a chain

\* The characters of MessageText and the ellipsis of ResponseText.
Char == {"h", "H", "w", "_", ".", "s", "f", "~"}

ASSUME TextsAssumption ==
  Texts \subseteq Seq(Char) /\ Words \subseteq Seq(Char) /\ Offsets \subseteq Int
ASSUME BoundsAssumption == MaxPieces \in Nat /\ MaxTime \in Nat /\ MaxAddresses \in Nat

VARIABLE sample

NoSample == [kind |-> "none"]

Element == [property : Property,
            content : Contents]
Address == [public : BOOLEAN, takes : 1..MaxTime, connects : BOOLEAN]
Hop == [safe : BOOLEAN, fragment : {"none", "a", "b"}, redirects : BOOLEAN]

Choose ==
  \/ \E t \in Texts : sample' = [kind |-> "text", text |-> t]
  \/ \E p \in SeqOf(Pieces, MaxPieces) : sample' = [kind |-> "message", pieces |-> p]
  \/ \E before, name, after \in Words, copy \in BOOLEAN :
       /\ Trim(name) = name   \* senderName
       /\ before # <<>> => Head(before) # "_"   \* the catalog
       /\ sample' = [kind |-> "notice", before |-> before, name |-> name,
                     after |-> after, copy |-> copy]
  \/ \E p \in SeqOf(Element, MaxPieces) : sample' = [kind |-> "page", page |-> p]
  \/ \E a \in SeqOf(Address, MaxAddresses) : sample' = [kind |-> "dial", addresses |-> a]
  \/ \E h \in SeqOf(Hop, MaxAddresses) : sample' = [kind |-> "fetch", hops |-> h]

\* One input is chosen, and that is all.
NothingYet == sample = NoSample
Sampling   == NothingYet /\ [][NothingYet /\ Choose]_sample

-----------------------------------------------------------------------------
(* Spans and replacements.                                                 *)

\* UTF-16 units of the first n characters.
Units(text, n) == n + Cardinality({i \in 1..n : text[i] = "w"})

\* utf16Span finds the characters between two offsets if both fall between
\* characters of the text, and nothing otherwise, inside a surrogate pair, too.
SpanIsExact ==
  sample.kind = "text" =>
    \A offset, length \in Offsets :
      LET text    == sample.text
          between == {s \in (DOMAIN text) \X (DOMAIN text) :
                        /\ s[1] <= s[2]
                        /\ Units(text, s[1] - 1) = offset
                        /\ Units(text, s[2]) = offset + length}
      IN between = {Utf16Span(text, offset, length)} \ {NoSpan}

Overlap(s, t) == s[1] <= t[2] /\ t[1] <= s[2]

\* The text with value[i] where the span of URL i is, read from left to right.
Placed(text, span, value) ==
  FlattenSeq([p \in DOMAIN text |->
    IF \E i \in DOMAIN span : span[i][1] = p
    THEN value[CHOOSE i \in DOMAIN span : span[i][1] = p]
    ELSE IF \E i \in DOMAIN span : p \in span[i][1]..span[i][2] THEN <<>>
    ELSE <<text[p]>>])

\* ReplaceURLSpans puts every destination in the place of its URL and keeps the
\* rest of the text, in any order of the entities; it fails exactly when a span
\* is invalid or any two of them overlap, adjacent in the sorted slice or not.
ReplacementIsExact ==
  sample.kind = "text" =>
    \A o1, o2, o3, length \in Offsets, chosen \in {{1, 2, 3}, {1, 3}} :
      LET text  == sample.text
          urls  == <<[offset |-> o1, length |-> 1], [offset |-> o2, length |-> length],
                     [offset |-> o3, length |-> 2]>>
          value == [i \in chosen |-> <<<<"A", "B">>, <<"C">>, <<"D">>>>[i]]
          span  == [i \in chosen |-> Utf16Span(text, urls[i].offset, urls[i].length)]
          bad   == \/ \E i \in chosen : span[i] = NoSpan
                   \/ \E i, j \in chosen : i # j /\ Overlap(span[i], span[j])
      IN ReplaceURLSpans(text, urls, value) =
           IF bad THEN Failure ELSE Placed(text, span, value)

\* What the rewriting of links rests on: exact spans, exact replacements.
RewritingIsExact == SpanIsExact /\ ReplacementIsExact

-----------------------------------------------------------------------------
(* Messages of pieces: literal text, a url entity, a text_link with its    *)
(* label, or one whose span reaches past the end of the text.  means is    *)
(* the normalized URL of a piece, <<>> if the code has to reject it.       *)

Text(pieces) == FlattenSeq([i \in DOMAIN pieces |-> pieces[i].text])

EntityOf(pieces, i) ==
  LET before == Text(SubSeq(pieces, 1, i - 1))
      label  == pieces[i].text
  IN [type   |-> IF pieces[i].kind = "url" THEN "url" ELSE "text_link",
      url    |-> pieces[i].url,
      offset |-> Units(before, Len(before)),
      length |-> IF pieces[i].kind = "corrupt" THEN Units(Text(pieces), Len(Text(pieces))) + 1
                 ELSE Units(label, Len(label))]

Message(pieces) ==
  [text |-> Text(pieces), media |-> FALSE,
   entities |-> FlattenSeq([i \in DOMAIN pieces |->
                  OneIf(pieces[i].kind # "literal", EntityOf(pieces, i))])]

IsLink(piece) == piece.means # <<>>

\* What stands in the normalized text: the URL, if it has a place there.
Shown(piece) ==
  IF IsLink(piece) /\ piece.kind # "corrupt" THEN piece.means ELSE piece.text

\* A fingerprint says what the message says: its text with every accepted URL in
\* its normal form, and the URLs in order.  So a link without a scheme, in
\* capitals, or behind the same label is the same content, an ftp link is text,
\* and one URL that is a part of another one does not disturb it.
FingerprintIsCanonical ==
  sample.kind = "message" =>
    LET pieces == sample.pieces
        print  == Fingerprint(Message(pieces), "rule")
    IN /\ print.text = Trim(FlattenSeq([i \in DOMAIN pieces |-> Shown(pieces[i])]))
       /\ print.urls = FlattenSeq([i \in DOMAIN pieces |->
                          OneIf(IsLink(pieces[i]), pieces[i].means)])

\* A message is link-only when an accepted URL is in it and the rest is spaces
\* and punctuation; a rejected or corrupt entity is not taken for a URL.
LinkOnlyIsJudged ==
  sample.kind = "message" =>
    LET pieces == sample.pieces IN
    IsLinkOnly(Message(pieces)) <=>
      /\ \E i \in DOMAIN pieces : IsLink(pieces[i])
      /\ \A i \in DOMAIN pieces :
           \/ IsLink(pieces[i]) /\ pieces[i].kind # "corrupt"
           \/ \A n \in DOMAIN pieces[i].text : pieces[i].text[n] \in {"_", "."}

\* What a message is judged by is what it says: which content it is, and whether
\* it is nothing but links.
ContentIsRead == FingerprintIsCanonical /\ LinkOnlyIsJudged

-----------------------------------------------------------------------------
(* Notices.                                                                *)

\* The mention in a response covers the name of the sender, whatever stands
\* before it and wherever the text is cut, also when a medium cannot be copied
\* and its entities serve the longer text.  It is left out only when the name is
\* not in the text, and it covers the place of the sender in the notice unless
\* the notice has the same letters before that.
MentionIsExact ==
  sample.kind = "notice" =>
    LET s       == sample
        notice  == Render(s.before, s.name, s.after)
        payload == Payload(notice, s.name, s.copy)
        place   == Len(s.before)
        Names(text, e) == LET span == Utf16Span(text, e.offset, e.length)
                          IN span # NoSpan /\ Cut(text, span) = s.name
    IN /\ Len(payload.text) <= (IF s.copy THEN CaptionLimit ELSE TextLimit) + 1
       /\ \A n \in DOMAIN payload.entities :
            /\ Names(payload.text, payload.entities[n])
            /\ Names(payload.fallback, payload.entities[n])
            /\ payload.entities[n].offset = Units(notice, place)
                 \/ \E earlier \in Places(notice, s.name) : earlier < place
       /\ payload.entities = <<>> =>
            s.name = <<>> \/ Places(payload.text, s.name) = {}

-----------------------------------------------------------------------------
(* Pages.                                                                  *)

\* What stands first, in document order, among the non-empty contents.
First(page, properties) ==
  LET said == {i \in DOMAIN page : page[i].property \in properties /\ page[i].content # <<>>}
  IN IF said = {} THEN <<>>
     ELSE page[CHOOSE i \in said : \A j \in said : i <= j].content

EmptyCard(page) ==
  \E i \in DOMAIN page : page[i].property \in CardTitle /\ page[i].content = <<>>

\* preview.go: "A non-empty title is sufficient on its own when it comes from
\* Open Graph or Twitter card metadata; an HTML-<title>-only title is considered
\* useful only when accompanied by a description, or when it differs meaningfully
\* from the site name or host.  A non-empty site name plus a non-empty
\* description is also sufficient".  So it is, wherever in the document the
\* elements stand, with one exception, the last disjunct: beside a card title
\* that is empty every title of HTML is enough.
UsefulAsDocumented ==
  sample.kind = "page" =>
    LET page  == sample.page
        title == First(page, {"title"})
        site  == First(page, {"og:site_name"})
        text  == First(page, Description)
    IN Useful(Inspect(TRUE, page)) <=>
         \/ First(page, CardTitle) # <<>>
         \/ title # <<>> /\ text # <<>>
         \/ title # <<>> /\ title # site /\ ~IsBareSiteName(title, PageHost)
         \/ site # <<>> /\ text # <<>>
         \/ title # <<>> /\ EmptyCard(page)

-----------------------------------------------------------------------------
(* Dials and redirects.                                                    *)

\* The places of the public addresses among the first n.
Public(addresses, n) == {i \in 1..n : addresses[i].public}

\* dialContext: however many addresses a name has, all attempts together stay
\* within one budget and the deadline; the public addresses are tried in their
\* order, no other is, and one is left untried only when another answered or the
\* time was used up.
DialStaysInBudget ==
  sample.kind = "dial" =>
    \A deadline \in {NoDeadline} \cup 0..RequestTimeout :
      LET addresses == sample.addresses
          d         == Dial(deadline, addresses)
          all       == Cardinality(Public(addresses, Len(addresses)))
      IN /\ d.elapsed <= RequestTimeout
         /\ deadline # NoDeadline => d.elapsed <= deadline
         /\ Len(d.tried) <= all
         /\ \A i \in Public(addresses, Len(addresses)) :
              LET n == Cardinality(Public(addresses, i))
              IN n <= Len(d.tried) => d.tried[n] = addresses[i]
         /\ \/ d.connected \/ Len(d.tried) = all
            \/ d.elapsed \in {RequestTimeout, deadline}

\* fetch: a document is returned only when every hop was safe, after at most
\* MaxRedirects redirects, and carries the last fragment that a hop had.
RedirectsAreBounded ==
  sample.kind = "fetch" =>
    LET hops  == sample.hops
        f     == FetchChain(hops)
        named == {i \in 1..f.requests : hops[i].fragment # "none"}
    IN /\ f.requests <= MaxRedirects + 1
       /\ f.requests <= Len(hops)
       /\ \A i \in 1..f.requests : hops[i].safe
       /\ f.fragment = IF named = {} THEN "none" ELSE hops[Max(named)].fragment
       /\ f.state = "answered" => ~hops[f.requests].redirects

\* A fetch ends: in time, after so many redirects, at safe addresses only.
FetchIsBounded == DialStaysInBudget /\ RedirectsAreBounded
=============================================================================
