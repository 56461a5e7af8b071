------------------------------ MODULE Platform ------------------------------
(***************************************************************************)
(* What the orchestrator and the bot workers tell each other about.        *)
(***************************************************************************)

CONSTANTS
  Session,      \* session ids
  Worker,       \* worker ids
  Run,          \* identities of StartSession calls (bounds their number)
  BotCounts,    \* bot counts: of requests, 0 already replaced by 2048; of START
                \* commands where the workers are on their own
  NoSession, NoRun
=============================================================================
