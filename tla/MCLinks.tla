------------------------------- MODULE MCLinks -------------------------------
EXTENDS LinkPolicy, Algorithms

Site(kind, layers, tracked, host) ==
  [kind |-> kind, layers |-> layers, tracked |-> tracked, host |-> host]
Plain(host) == Site("plain", 0, FALSE, host)
Share == Site("share", 0, FALSE, "news")

\* A share link, a page in two caches, an AMP page, a tracked private address.
Posts == {[urls |-> u, only |-> o, previewOff |-> p, overlap |-> v] :
            u \in {<<Share>>, <<Plain("news"), Site("plain", 2, TRUE, "local")>>,
                   <<Site("plain", 0, TRUE, "local"), Site("share", 1, FALSE, "news")>>,
                   <<Plain("social")>>},
            o \in BOOLEAN, p \in BOOLEAN, v \in {FALSE}}
         \cup {[urls |-> <<Share, Share>>, only |-> FALSE, previewOff |-> FALSE,
                overlap |-> TRUE]}

\* Where a fetch may end: at sites, and at wrappers of every kind.
WebPages == {Plain("news"), Plain("local"), Share, Site("amp", 0, FALSE, "news"),
          Site("plain", 1, FALSE, "news"), Site("plain", 0, TRUE, "news")}

\* Texts with characters of both widths, and offsets in, at and past their ends.
ShortTexts == SeqOf({"h", "w"}, 4)
SmallOffsets == 0..5

\* With a space; two words and a name go past both limits.
ShortWords == SeqOf({"h", "w", "_"}, 2)

Piece(kind, text, url, means) ==
  [kind |-> kind, text |-> text, url |-> url, means |-> means]
Literal(c) == Piece("literal", <<c>>, <<>>, <<>>)

\* A bare domain in two spellings, with its scheme, an ftp link, a URL within a
\* URL, labels.
MessagePieces ==
  {Literal("_"), Literal("."), Literal("w"),
   Piece("url", <<"h">>, <<>>, <<"s", "h">>),
   Piece("url", <<"H", "h">>, <<>>, <<"s", "h", "h">>),
   Piece("url", <<"s", "H">>, <<>>, <<"s", "h">>),
   Piece("url", <<"f", "h">>, <<>>, <<>>),
   Piece("url", <<"h", "s", "h">>, <<>>, <<>>),
   Piece("url", <<"s", "H", "s", "H">>, <<>>, <<"s", "h", "s", "H">>),
   Piece("text_link", <<"w">>, <<"s", "H">>, <<"s", "h">>),
   Piece("text_link", <<"h">>, <<"h">>, <<>>),
   Piece("corrupt", <<"h">>, <<"s", "h">>, <<"s", "h">>)}

\* www.example.com: its site name, names that say nothing more, and a title.
Host3 == <<"www", "example", "com">>
ElementContents == {<<>>, Host3, <<"www">>, <<"example", "com">>, <<"example">>,
                    <<"com">>, <<"An article">>}

\* The pipeline, and beside its initial state one input of an algorithm at a time.
MCInit == Init /\ NothingYet
MCNext == \/ NothingYet /\ Next /\ UNCHANGED sample
          \/ Init /\ NothingYet /\ Choose /\ UNCHANGED vars

MCSpec == /\ MCInit
          /\ [][MCNext]_<<vars, sample>>
          /\ WF_<<vars, sample>>(NothingYet /\ Handle /\ UNCHANGED sample)
=============================================================================
