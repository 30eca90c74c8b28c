------------------------------ MODULE MCBooks ------------------------------
(* A small instance of Books: two model prefixes of which one is longer, one *)
(* bin edge, minutes of two seconds, a window of one minute.                 *)
EXTENDS Books

MCEvent ==
  <<"s", "t">> :> [type |-> "message_start", model |-> <<"claude", "opus">>,
                   usage |-> [input_tokens |-> 3, output_tokens |-> 1,
                              cache_read_tokens |-> 2]]
  @@ <<"s", "0">> :> [type |-> "message_start", model |-> <<>>, usage |-> <<>>]
  @@ <<"d4">> :> [type |-> "message_delta", model |-> <<>>,
                      usage |-> [output_tokens |-> 4]]
  @@ <<"d2">> :> [type |-> "message_delta", model |-> <<>>,
                      usage |-> [output_tokens |-> 2, cache_write_tokens |-> 1]]
  @@ <<"di">> :> [type |-> "message_delta", model |-> <<>>,
                      usage |-> [output_tokens |-> 5, cache_write_tokens |-> Infinite]]

\* In order; with a number that breaks the parser; the deltas first and the
\* last line not finished.
MCWires ==
  {<<"s", "t", "cr", "nl", "d4", "nl", "d2", "nl">>,
   <<"s", "t", "nl", "di", "nl", "d4", "nl">>,
   <<"d4", "cr", "nl", "s", "0", "nl", "d2">>}

MCReplies ==
  {[model |-> <<"gpt">>, usage |-> [input_tokens |-> 1, cache_read_tokens |-> 2]],
   [model |-> <<"claude", "opus">>, usage |-> [output_tokens |-> Infinite]]}

MCPriceTable ==
  <<"claude">> :> [input_tokens |-> 1, output_tokens |-> 2]
  @@ <<"claude", "opus">> :> [input_tokens |-> 3, output_tokens |-> 5,
                              cache_write_tokens |-> 4, cache_read_tokens |-> 1]

MCRequestModel == <<"claude", "new">>

MCLatencyBins == <<5>>
=============================================================================
