--------------------------- MODULE MCClientError ---------------------------
(***************************************************************************)
(* Errors for every branch of the ignore rules: an error of a script with  *)
(* a first stack line that is its message, one of the page itself, one     *)
(* with an ignored message, one without a stack, a "Script error." without *)
(* URL, and a thrown value that is no Error.                               *)
(***************************************************************************)
EXTENDS ClientError

AnError(stack, url, message) ==
    [isError |-> TRUE, stack |-> stack, url |-> url, message |-> message]

MCFault ==
    { AnError(<<UNPARSED, "script", "foreign">>, "script", "plain"),
      AnError(<<"page", "script">>, "page", "plain"),
      AnError(<<"script">>, NONE, "ignored"),
      AnError(<<UNPARSED>>, NONE, "Uncaught Script error."),
      [isError |-> FALSE, stack |-> <<>>, url |-> "script", message |-> "plain"] }
=============================================================================
