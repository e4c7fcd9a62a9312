-------------------------- MODULE MCProviderRetry --------------------------
(* Small instances of ProviderRetry for TLC. *)
EXTENDS ProviderRetry

(***************************************************************************)
(* The documented order with a blank part, one provider, one provider      *)
(* named twice, and three settings that are refused.                       *)
(***************************************************************************)
SomePriorities == {<<"twilio", "", "bird">>, <<"bird">>, <<"bird", "bird">>, <<"", "">>,
                   <<"twilio", "sinch">>, <<"bird", "vonage">>}
BothProviders == {"twilio", "bird"}
WithVonage == {<<"twilio", "bird", "vonage">>, <<"twilio", "bird", "twilio">>}
BothOrOnlyBird == {{"twilio", "bird"}, {"bird"}}

PlainError == [name |-> "Error", status |-> None, code |-> "", retryAfterMs |-> None,
               retryAfter |-> None, retryAfterHeader |-> None]

(***************************************************************************)
(* Refusals and transient failures by name, status and code, and waiting   *)
(* times in each of the three places, shorter and longer than the backoff, *)
(* and one of 30 days, longer than a timer may run.                        *)
(***************************************************************************)
SomeErrors ==
    {PlainError,
     [PlainError EXCEPT !.code = "ECONNRESET"],
     [PlainError EXCEPT !.status = 400],
     [PlainError EXCEPT !.status = 429, !.retryAfterHeader = 3],
     [PlainError EXCEPT !.status = 503, !.retryAfter = 0, !.retryAfterHeader = 3],
     [PlainError EXCEPT !.name = "BirdRateLimitError", !.status = 429, !.retryAfter = 1],
     [PlainError EXCEPT !.name = "BirdTimeoutError", !.retryAfterMs = 7 * Second],
     [PlainError EXCEPT !.name = "BirdAuthError", !.status = 503],
     [PlainError EXCEPT !.status = 429, !.retryAfterHeader = 30 * 24 * 3600]}
=============================================================================
