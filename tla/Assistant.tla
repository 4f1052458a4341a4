----------------------------- MODULE Assistant -----------------------------
(***************************************************************************)
(* POST /ask: a question is answered by a loop of requests to a language   *)
(* model and calls of the tools the model asks for.  The loop is answer()  *)
(* of the groq, openai and ollama providers, which differ only in what     *)
(* they ask for once there are tool results, and LangGraph's agent with    *)
(* the tools of the langchain provider; the tools read trades through the  *)
(* one database session of the request.                                    *)
(*                                                                         *)
(* The agent runs the calls of a reply at once.  Its messages and results  *)
(* are those of one call after the other in which any may fail, as two     *)
(* that use the session together do.                                       *)
(*                                                                         *)
(* One question at a time: a question has its messages and its session to  *)
(* itself and shares only the provider, which it does not change.          *)
(*                                                                         *)
(* The clients of the models have timeouts of their own.  The engine is    *)
(* created without one: a statement that gets no reply holds its request   *)
(* for ever.                                                               *)
(*                                                                         *)
(* The system message and the question open every conversation and are     *)
(* left out of messages.                                                   *)
(***************************************************************************)
EXTENDS Naturals, Sequences

CONSTANTS
  MaxTurns,  \* MAX_TURNS; for langchain the limit of LangGraph's agent
  MaxCalls   \* bound on the tool calls of one reply

ASSUME AssistantAssumption == MaxTurns \in Nat \ {0} /\ MaxCalls \in Nat \ {0}

VARIABLES
  llm,       \* the provider set at start-up, or "none"
  bound,     \* AsyncSessionLocal is bound to an engine
  phase,     \* where the question is; "hung" is waiting for the database, for ever
  turns,     \* turn_count
  messages,  \* the conversation
  call,      \* which of the last reply's calls is next
  session,   \* the request's database session
  answer     \* the reply whose text is returned; 0 is a placeholder

assistant == <<phase, turns, messages, call, session, answer>>

Providers == {"groq", "openai", "ollama", "langchain"}

Replies == [role : {"assistant"}, said : BOOLEAN, calls : 0 .. MaxCalls]
Results == [role : {"tool"}, of : 1 .. MaxCalls, ok : BOOLEAN]

Ended == {"answered", "failed"}

AssistantTypeOK ==
  /\ llm \in Providers \cup {"none"}
  /\ bound \in BOOLEAN
  /\ phase \in {"none", "model", "tools", "leaving", "hung"} \cup Ended
  /\ turns \in 0 .. MaxTurns
  /\ messages \in Seq(Replies \cup Results)
  /\ call \in 1 .. MaxCalls + 1
  /\ session \in {"closed", "open", "aborted"}
  /\ answer \in 0 .. Len(messages)

AssistantInit ==
  /\ llm = "none" /\ bound = FALSE
  /\ phase = "none" /\ turns = 0 /\ messages = <<>> /\ call = 1
  /\ session = "closed" /\ answer = 0

InFlight == phase \in {"model", "tools", "leaving", "hung"}

-----------------------------------------------------------------------------
IsReply(i) == messages[i].role = "assistant"
Says(i) == IsReply(i) /\ messages[i].said

\* The last reply that says something, or 0
LastWord ==
  LET texts == {i \in DOMAIN messages : Says(i)}
  IN  IF texts = {} THEN 0 ELSE CHOOSE i \in texts : \A j \in texts : j <= i

LastReply == CHOOSE i \in DOMAIN messages :
               IsReply(i) /\ \A j \in DOMAIN messages : j > i => ~IsReply(j)

CallsLeft == call <= messages[LastReply].calls

\* A faulty variant for testing the properties: failed calls do not count
ForcedBySuccess ==
  \/ llm = "groq" /\ \E i \in DOMAIN messages : ~IsReply(i) /\ messages[i].ok
  \/ llm = "langchain" /\ turns = MaxTurns

\* tool_choice is "none" once there are tool results: groq alone does that. The
\* agent puts a text of its own in place of the calls of its last turn.
Forced == \/ llm = "groq" /\ \E i \in DOMAIN messages : ~IsReply(i)
          \/ llm = "langchain" /\ turns = MaxTurns

Conclude(i) == answer' = i /\ phase' = "leaving"

\* get_db: commit or rollback, and the session is given back; the conversation
\* ends with the handler that held it
Leave(p) ==
  /\ phase' = p /\ session' = "closed"
  /\ turns' = 0 /\ messages' = <<>> /\ call' = 1 /\ answer' = 0

\* A tool call is over, and its message is appended
Report(good) ==
  /\ messages' = Append(messages, [role |-> "tool", of |-> call, ok |-> good])
  /\ call' = call + 1

\* Faulty variants of the definitions below, for testing the properties: only
\* successful calls are reported, a failed call is made again, the limit is checked
\* late, the first text is taken for the last.
ToolRaisesSilently ==
  /\ phase = "tools" /\ CallsLeft
  /\ call' = call + 1
  /\ UNCHANGED <<llm, bound, phase, turns, messages, session, answer>>

ToolRaisesAgain ==
  /\ phase = "tools" /\ CallsLeft
  /\ UNCHANGED <<llm, bound, assistant>>

NextTurnLate ==
  /\ phase = "tools" /\ ~CallsLeft
  /\ turns <= MaxTurns
  /\ turns' = turns + 1
  /\ phase' = "model"
  /\ UNCHANGED <<llm, bound, messages, call, session, answer>>

LimitReachedFirstWord ==
  /\ phase = "tools" /\ ~CallsLeft
  /\ turns = MaxTurns
  /\ Conclude(LET texts == {i \in DOMAIN messages : Says(i)}
              IN  IF texts = {} THEN 0 ELSE CHOOSE i \in texts : \A j \in texts : i <= j)
  /\ UNCHANGED <<llm, bound, turns, messages, call, session>>

-----------------------------------------------------------------------------
Ask ==
  /\ ~InFlight
  /\ IF llm = "none"
     THEN Leave("failed")
     ELSE /\ phase' = "model" /\ session' = "open" /\ turns' = 1
          /\ UNCHANGED <<messages, call, answer>>
  /\ UNCHANGED <<llm, bound>>

\* The model answers
FinalReply(text) ==
  /\ phase = "model"
  /\ messages' = Append(messages, [role |-> "assistant", said |-> text, calls |-> 0])
  /\ Conclude(IF text THEN Len(messages) + 1 ELSE 0)
  /\ UNCHANGED <<llm, bound, turns, call, session>>

\* ... or asks for n tool calls, with or without a text
ToolReply(text, n) ==
  /\ phase = "model" /\ ~Forced
  /\ messages' = Append(messages, [role |-> "assistant", said |-> text, calls |-> n])
  /\ call' = 1
  /\ phase' = "tools"
  /\ UNCHANGED <<llm, bound, turns, session, answer>>

\* The request to the model fails: nothing catches it before get_db
ModelFails ==
  /\ phase = "model"
  /\ Leave("failed")
  /\ UNCHANGED <<llm, bound>>

ToolAnswers ==
  /\ phase = "tools" /\ CallsLeft
  /\ session = "open" /\ bound
  /\ Report(TRUE)
  /\ UNCHANGED <<llm, bound, phase, turns, session, answer>>

\* An unknown tool, bad inputs, or a session that cannot run a query
ToolRaises ==
  /\ phase = "tools" /\ CallsLeft
  /\ Report(FALSE)
  /\ UNCHANGED <<llm, bound, phase, turns, session, answer>>

\* A query fails and takes the session's transaction with it
QueryFails ==
  /\ phase = "tools" /\ CallsLeft
  /\ session = "open" /\ bound
  /\ Report(FALSE)
  /\ session' = "aborted"
  /\ UNCHANGED <<llm, bound, phase, turns, answer>>

NextTurn ==
  /\ phase = "tools" /\ ~CallsLeft
  /\ turns < MaxTurns
  /\ turns' = turns + 1
  /\ phase' = "model"
  /\ UNCHANGED <<llm, bound, messages, call, session, answer>>

LimitReached ==
  /\ phase = "tools" /\ ~CallsLeft
  /\ turns = MaxTurns
  /\ Conclude(LastWord)
  /\ UNCHANGED <<llm, bound, turns, messages, call, session>>

Commit ==
  /\ phase = "leaving"
  /\ Leave("answered")
  /\ UNCHANGED <<llm, bound>>

\* The commit of a session whose connection is lost raises, and with it the answer
\* is lost; there is a connection once a tool was called
CommitFails ==
  /\ phase = "leaving"
  /\ bound /\ \E i \in DOMAIN messages : ~IsReply(i)
  /\ Leave("failed")
  /\ UNCHANGED <<llm, bound>>

\* The database never replies: to a query, to the commit, or to the rollback
\* after a failed request to the model
DatabaseHangs ==
  /\ bound
  /\ \/ phase = "tools" /\ CallsLeft /\ session = "open"
     \/ phase \in {"model", "leaving"} /\ \E i \in DOMAIN messages : ~IsReply(i)
  /\ phase' = "hung"
  /\ UNCHANGED <<llm, bound, turns, messages, call, session, answer>>

ModelStep ==
  \/ \E text \in BOOLEAN : FinalReply(text) \/ \E n \in 1 .. MaxCalls : ToolReply(text, n)
  \/ ModelFails
ToolStep == ToolAnswers \/ ToolRaises \/ QueryFails
LoopStep == NextTurn \/ LimitReached
LeaveStep == Commit \/ CommitFails

AssistantNext == Ask \/ ModelStep \/ ToolStep \/ LoopStep \/ LeaveStep \/ DatabaseHangs

\* The server runs the handler. A request to the model ends by the timeout of its
\* client at the latest; a query, the commit and the rollback end unless they hang,
\* which is a step of its own and may come instead at any of them.
AssistantFairness ==
  /\ WF_<<llm, bound, assistant>>(ModelStep) /\ WF_<<llm, bound, assistant>>(ToolStep)
  /\ WF_<<llm, bound, assistant>>(LoopStep) /\ WF_<<llm, bound, assistant>>(LeaveStep)

-----------------------------------------------------------------------------
(* Properties *)

\* Whenever the model is asked, every tool call it made has its own result, in
\* the order of the calls and right after the reply that made them, and there is
\* no other result: a chat interface refuses the whole conversation otherwise,
\* and a tool may fail in several ways (the tool loops of the providers).
EveryCallIsAnswered ==
  phase \in {"model", "leaving"} =>
    \A i \in DOMAIN messages :
      IF IsReply(i)
      THEN \A k \in 1 .. messages[i].calls :
             /\ i + k \in DOMAIN messages
             /\ ~IsReply(i + k)
             /\ messages[i + k].of = k
      ELSE /\ i - messages[i].of \in DOMAIN messages
           /\ IsReply(i - messages[i].of)
           /\ messages[i].of <= messages[i - messages[i].of].calls

\* The text returned is the last thing the model said. It is older than the last
\* tool results only at the turn limit, and never with langchain, and the
\* placeholder hides no final answer (the exits of answer()).
AnswerIsTheLastWord ==
  phase = "leaving" =>
    /\ answer > 0 => answer = LastWord
    /\ answer > 0 /\ answer < Len(messages) => turns = MaxTurns /\ llm # "langchain"
    /\ answer = 0 => ~Says(Len(messages))

\* With groq the reply after tool results is the answer: two turns do (the forced
\* tool_choice, "next turn must produce a text answer").
GroqAnswersNext == llm = "groq" => turns <= 2

\* Every question the model is asked gets an answer or an error, whatever the model
\* asks for and however its tools fail, with one exception: a question whose
\* statement, commit or rollback the database never replies to (answer() of the
\* providers, and init_engine, which sets no timeout).
EveryQuestionEnds == (phase = "model") ~> (phase \in Ended \cup {"hung"})
=============================================================================
