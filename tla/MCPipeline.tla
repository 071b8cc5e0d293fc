----------------------------- MODULE MCPipeline -----------------------------
(* Pipeline for TLC: pipelines of two and three blocks.                     *)
EXTENDS Pipeline

CONSTANTS plain1, plain2, odd

MCLines ==
    { <<"receive", "send">>,             \* record by record, NDJSON
      <<"follow", "send">>,
      <<"receive", "filter">>,
      <<"follow", "filter", "lines">>,
      <<"receive", "filter", "send">>,   \* all of the input as one message
      <<"receive", "send", "filter">>,   \* a producer that is not the last
      <<"request", "send">> }

=============================================================================
