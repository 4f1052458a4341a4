---------------------------- MODULE Application ----------------------------
(***************************************************************************)
(* The lifespan of the API process: start-up opens Redis, the database     *)
(* engine, the pipeline, the feed and the language model, each of which    *)
(* may fail; then the server answers questions (module Assistant); then    *)
(* shutdown closes what is open, where each close may fail as well.        *)
(*                                                                         *)
(* The server starts the shutdown only when no request is in flight.       *)
(* Cancelling the feed ends the consumer's loop.  The tasks it has made of *)
(* ticks, and these of signals, are neither cancelled nor waited for: they *)
(* may go on while Redis and the engine are closed, and are not part of    *)
(* this module.                                                            *)
(***************************************************************************)
EXTENDS Assistant

VARIABLES
  stage,     \* what the lifespan does next
  resource,  \* _redis_client, _engine and the provider's client
  window,    \* price_window is not None
  wired,     \* init_pipeline was called
  feed,      \* the consumer's task, which is its loop alone
  stuck      \* history: the resources whose close raised

lifespan == <<stage, resource, window, wired, feed, stuck>>
vars == <<llm, bound, assistant, lifespan>>

Resources == {"redis", "engine", "llm"}
Stages == {"redis", "engine", "pipeline", "feed", "llm", "running",
           "cancel feed", "close redis", "close engine", "close llm", "over"}

\* The state of the assistant and of the lifespan keeps its shape: the turns
\* stay within MAX_TURNS, what runs was set up.
TypeOK ==
  /\ AssistantTypeOK
  /\ stage \in Stages
  /\ resource \in [Resources -> {"none", "open", "closed"}]
  /\ {window, wired} \subseteq BOOLEAN
  /\ feed \in {"none", "running", "over"}
  /\ stuck \subseteq Resources
  /\ bound <=> resource["engine"] # "none"
  /\ llm # "none" <=> resource["llm"] # "none"

Init ==
  /\ AssistantInit
  /\ stage = "redis"
  /\ resource = [r \in Resources |-> "none"]
  /\ window = FALSE /\ wired = FALSE /\ feed = "none"
  /\ stuck = {}

-----------------------------------------------------------------------------
Become(r, s) == resource' = [resource EXCEPT ![r] = s]

\* The way out of a stage that closes r: a close that raises leaves r as it is
Closing(r, next) ==
  /\ stage' = next
  /\ \/ resource[r] # "open" /\ UNCHANGED <<resource, stuck>>
     \/ resource[r] = "open" /\ Become(r, "closed") /\ UNCHANGED stuck
     \/ resource[r] = "open" /\ stuck' = stuck \cup {r} /\ UNCHANGED resource

\* Faulty variants of the definitions below, for testing the properties: a
\* failing close skips the next one, a Redis that does not answer ends the start-up.
CloseRedisAndEngineTogether ==
  /\ stage = "close redis"
  /\ \/ Closing("redis", "close engine") /\ UNCHANGED stuck
     \/ Closing("redis", "close llm") /\ stuck' # stuck
  /\ UNCHANGED <<llm, bound, assistant, window, wired, feed>>

RedisFailsFatally ==
  /\ stage = "redis"
  /\ stage' = "over"
  /\ UNCHANGED <<llm, bound, assistant, resource, window, wired, feed, stuck>>

-----------------------------------------------------------------------------
(* Start-up *)

OpenRedis ==
  /\ stage = "redis"
  /\ Become("redis", "open") /\ window' = TRUE
  /\ stage' = "engine"
  /\ UNCHANGED <<llm, bound, assistant, wired, feed, stuck>>

\* from_url raises, or the ping does: then the client exists all the same
RedisFails ==
  /\ stage = "redis"
  /\ \E s \in {"none", "open"} : Become("redis", s)
  /\ stage' = "engine"
  /\ UNCHANGED <<llm, bound, assistant, window, wired, feed, stuck>>

\* init_engine connects to nothing, so it fails only on its configuration
OpenEngine ==
  /\ stage = "engine"
  /\ \/ Become("engine", "open") /\ bound' = TRUE
     \/ UNCHANGED <<resource, bound>>
  /\ stage' = "pipeline"
  /\ UNCHANGED <<llm, assistant, window, wired, feed, stuck>>

\* SpikeDetector needs the window's Redis client and raises without one
WirePipeline ==
  /\ stage = "pipeline"
  /\ wired' = window
  /\ stage' = "feed"
  /\ UNCHANGED <<llm, bound, assistant, resource, window, feed, stuck>>

\* With credentials, and if the consumer can be created
StartFeed ==
  /\ stage = "feed"
  /\ feed' \in {"none", "running"}
  /\ stage' = "llm"
  /\ UNCHANGED <<llm, bound, assistant, resource, window, wired, stuck>>

\* An unknown provider or a missing package leaves it at "none"
OpenLLM ==
  /\ stage = "llm"
  /\ \/ UNCHANGED <<llm, resource>>
     \/ llm' \in Providers /\ Become("llm", "open")
  /\ stage' = "running"
  /\ UNCHANGED <<bound, assistant, window, wired, feed, stuck>>

(* Serving and shutting down *)

Serve ==
  /\ stage = "running"
  /\ AssistantNext
  /\ UNCHANGED lifespan

Shutdown ==
  /\ stage = "running" /\ ~InFlight
  /\ stage' = "cancel feed"
  /\ UNCHANGED <<llm, bound, assistant, resource, window, wired, feed, stuck>>

\* The consumer's task is cancelled and awaited; what it spawned is not
CancelFeed ==
  /\ stage = "cancel feed"
  /\ feed' = IF feed = "running" THEN "over" ELSE feed
  /\ stage' = "close redis"
  /\ UNCHANGED <<llm, bound, assistant, resource, window, wired, stuck>>

CloseRedis ==
  /\ stage = "close redis"
  /\ Closing("redis", "close engine")
  /\ UNCHANGED <<llm, bound, assistant, window, wired, feed>>

CloseEngine ==
  /\ stage = "close engine"
  /\ Closing("engine", "close llm")
  /\ UNCHANGED <<llm, bound, assistant, window, wired, feed>>

\* langchain's provider only drops its model
CloseLLM ==
  /\ stage = "close llm"
  /\ Closing("llm", "over")
  /\ llm = "langchain" => UNCHANGED stuck
  /\ UNCHANGED <<llm, bound, assistant, window, wired, feed>>

StartUp == OpenRedis \/ RedisFails \/ OpenEngine \/ WirePipeline \/ StartFeed \/ OpenLLM
Stop == CancelFeed \/ CloseRedis \/ CloseEngine \/ CloseLLM

Next == StartUp \/ Serve \/ Shutdown \/ Stop

Spec == Init /\ [][Next]_vars

\* The event loop runs the lifespan to its end; nobody owes the process a signal to
\* shut down. That the ping at start-up ends, answered or refused, is assumed:
\* from_url is given no socket timeout.
FairSpec == Spec /\ WF_vars(StartUp) /\ WF_vars(Stop) /\ AssistantFairness

-----------------------------------------------------------------------------
(* Properties *)

\* At the end only what could not be closed is open: a close that fails does not
\* keep the others from being closed (the shutdown half of lifespan).
ClosesWhatItOpened ==
  stage = "over" =>
    /\ feed # "running"
    /\ \A r \in Resources : resource[r] = "open" => r \in stuck

\* Whatever fails on the way, the server starts ("running without Redis",
\* "DB features will be unavailable", "/ask endpoint unavailable"), and once told
\* to stop it stops, whatever cannot be closed (lifespan). The ping of Redis is
\* assumed to return.
StartsAndStops == /\ <>(stage = "running")
                  /\ (stage = "cancel feed") ~> (stage = "over")
=============================================================================
