---------------------------- MODULE MCModeration ----------------------------
EXTENDS Moderation, TLC

Post(urls, only, previewOff) ==
  [urls |-> urls, media |-> FALSE, only |-> only, previewOff |-> previewOff]

\* A bare wrapper, the same with its preview switched off, which is the same
\* content, and a sentence with two wrappers of different rules.
Wrappers == {Post(<<"google-share">>, TRUE, FALSE), Post(<<"google-share">>, TRUE, TRUE),
             Post(<<"amp", "plain", "google-share">>, FALSE, FALSE)}
\* A bare link whose sender has switched the preview off.
BareLinks == {Post(<<"plain">>, TRUE, TRUE)}
\* The same, a photo, and a text with neither link nor medium.
Mixed == BareLinks \cup {[Post(<<>>, FALSE, FALSE) EXCEPT !.media = TRUE],
                         Post(<<>>, FALSE, FALSE)}

MessageSymmetry == Permutations(Message)
Symmetry == Permutations(Message) \cup Permutations(Consumer)
=============================================================================
