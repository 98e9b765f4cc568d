--------------------------- MODULE TelegramErrors ---------------------------
(***************************************************************************)
(* What the bot learns from a failed Bot API call and how client.go sorts  *)
(* it.  An error is the record of the three facts the predicates look at:  *)
(*   code        the HTTP-like error code, 0 when the error is no API      *)
(*               error at all (network failure, cancelled context);        *)
(*   about       what the description says, as far as the predicates care; *)
(*   retryAfter  whether the answer names a positive retry_after.          *)
(***************************************************************************)
EXTENDS Naturals

TelegramError == [code : {0, 400, 403, 429, 500},
                  about : {"not_found", "no_rights", "other"},
                  retryAfter : BOOLEAN]

IsAPIError(e) == e.code # 0

\* "message to delete not found": the message is already absent.
IsMessageNotFound(e) == e.code = 400 /\ e.about = "not_found"

\* "can't be deleted", "not enough rights": an operator has to step in.
IsDeletePermissionError(e) == e.code = 400 /\ e.about = "no_rights"

\* A 4xx other than 429 is not worth another attempt.
IsPermanentError(e) == IsAPIError(e) /\ e.code >= 400 /\ e.code < 500 /\ e.code # 429

RetryAfter(e) == IsAPIError(e) /\ e.retryAfter

(* The errors the calls of the bot are answered with.                      *)
NotFound     == [code |-> 400, about |-> "not_found", retryAfter |-> FALSE]
NoRights     == [code |-> 400, about |-> "no_rights", retryAfter |-> FALSE]
BadRequest   == [code |-> 400, about |-> "other",     retryAfter |-> FALSE]
TooMany      == [code |-> 429, about |-> "other",     retryAfter |-> TRUE]
TooManyBare  == [code |-> 429, about |-> "other",     retryAfter |-> FALSE]
ServerError  == [code |-> 500, about |-> "other",     retryAfter |-> FALSE]
NetworkError == [code |-> 0,   about |-> "other",     retryAfter |-> FALSE]

Refusal == {NoRights, BadRequest, TooMany, TooManyBare, ServerError, NetworkError}
=============================================================================
