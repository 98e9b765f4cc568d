-------------------------- MODULE PreviewMetadata ---------------------------
(***************************************************************************)
(* What a page says about itself and whether that is enough for a preview  *)
(* (pkg/core/preview/preview.go).  A page is the sequence of its elements  *)
(* in document order, each [property, content]: og:title and the other     *)
(* meta elements, or the title element.  A content is a sequence of labels *)
(* as in a host name, without its spaces; <<>> is an empty one.            *)
(***************************************************************************)
EXTENDS Integers, Sequences, SequencesExt

CONSTANT PageHost   \* the host name of the page

CardTitle   == {"og:title", "twitter:title"}
Description == {"og:description", "twitter:description", "description"}
Property    == CardTitle \cup Description \cup {"og:site_name", "title"}

NoMetadata == [site |-> <<>>, title |-> <<>>, description |-> <<>>, card |-> FALSE]

FirstNonEmpty(existing, candidate) == IF existing # <<>> THEN existing ELSE candidate

\* readNodeMetadata.  card is hadOpenGraphTitle: a card title was seen.
ReadNodeMetadata(m, e) ==
  CASE e.property \in CardTitle ->
         [m EXCEPT !.title = FirstNonEmpty(@, e.content), !.card = TRUE]
    [] e.property \in Description ->
         [m EXCEPT !.description = FirstNonEmpty(@, e.content)]
    [] e.property = "og:site_name" ->
         [m EXCEPT !.site = FirstNonEmpty(@, e.content)]
    [] e.property = "title" ->
         [m EXCEPT !.title = FirstNonEmpty(@, e.content)]

\* Extract walks the document once; a document that is no HTML has no metadata.
Extract(page) ==
  LET read[n \in 0..Len(page)] ==
        IF n = 0 THEN NoMetadata ELSE ReadNodeMetadata(read[n - 1], page[n])
  IN read[Len(page)]
Inspect(html, page) == IF html THEN Extract(page) ELSE NoMetadata

TitleFallback(m) == ~m.card /\ m.title # <<>>

LastLabels(labels, n) == SubSeq(labels, Len(labels) - n + 1, Len(labels))

\* The title is the host, its beginning, its last two labels, or the first of
\* those alone.
IsBareSiteName(title, host) ==
  \/ IsPrefix(title, host)
  \/ Len(host) >= 2 /\ title \in {LastLabels(host, 2), <<host[Len(host) - 1]>>}

\* Mutant: a title element is as good as a card title.
UsefulAnyTitle(m) == m.title # <<>> \/ (m.site # <<>> /\ m.description # <<>>)

Useful(m) ==
  IF m.title = <<>> THEN m.site # <<>> /\ m.description # <<>>
  ELSE \/ ~TitleFallback(m)
       \/ m.description # <<>>
       \/ m.title # m.site /\ ~IsBareSiteName(m.title, PageHost)
=============================================================================
