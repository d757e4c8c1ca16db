--------------------------- MODULE MCModelGateway ---------------------------
(* Small instances of ModelGateway.                                        *)
EXTENDS ModelGateway, TLC

CONSTANTS a, b, c1, c2, c3

\* Two sessions of one job, which share a semaphore, and one of another.
TwoGateways == c1 :> a @@ c2 :> a @@ c3 :> b

\* The session alone with its gateway has one chat, which meets what the
\* others cached.
Chats == c1 :> 2 @@ c2 :> 2 @@ c3 :> 1

BothAdapters == a :> "openai" @@ b :> "anthropic"
=============================================================================
