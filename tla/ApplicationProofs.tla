------------------------- MODULE ApplicationProofs -------------------------
(***************************************************************************)
(* For every limit on turns and calls: the shutdown of the API process     *)
(* closes what start-up opened; every tool call has its result when the    *)
(* model is asked; the answer is the model's last word.                    *)
(***************************************************************************)
EXTENDS Application, SequenceTheorems, WellFoundedInduction, TLAPS

Done(r) == resource[r] = "open" => r \in stuck

\* What the stages of the shutdown have achieved so far: the feed is off before
\* anything is closed, and each resource is dealt with once its stage is over.
Progress ==
  /\ stage \in Stages
  /\ resource \in [Resources -> {"none", "open", "closed"}]
  /\ InFlight => stage = "running"
  /\ stage \in {"close redis", "close engine", "close llm", "over"} => feed # "running"
  /\ stage \in {"close engine", "close llm", "over"} => Done("redis")
  /\ stage \in {"close llm", "over"} => Done("engine")
  /\ stage = "over" => Done("llm")

LEMMA InitProgress == Init => Progress
  BY DEF Init, AssistantInit, Progress, InFlight, Stages, Resources, Done

LEMMA StartUpStep == ASSUME Progress, StartUp PROVE Progress'
<1> USE DEF Progress, Become, Resources, Stages, InFlight, Done, assistant
<1>1. CASE OpenRedis
  BY <1>1 DEF OpenRedis
<1>2. CASE RedisFails
  BY <1>2 DEF RedisFails
<1>3. CASE OpenEngine
  BY <1>3 DEF OpenEngine
<1>4. CASE WirePipeline
  BY <1>4 DEF WirePipeline
<1>5. CASE StartFeed
  BY <1>5 DEF StartFeed
<1>6. CASE OpenLLM
  BY <1>6 DEF OpenLLM
<1> QED
  BY <1>1, <1>2, <1>3, <1>4, <1>5, <1>6 DEF StartUp

\* A guarded close deals with its resource and leaves the others alone.
LEMMA ClosingDeals ==
  ASSUME NEW r \in Resources, NEW s \in Stages, Closing(r, s),
         resource \in [Resources -> {"none", "open", "closed"}]
  PROVE  /\ stage' = s
         /\ resource' \in [Resources -> {"none", "open", "closed"}]
         /\ resource'[r] = "open" => r \in stuck'
         /\ \A q \in Resources \ {r} : resource'[q] = resource[q]
         /\ stuck \subseteq stuck'
  BY DEF Closing, Become

LEMMA StopStep ==
  ASSUME Progress, Stop
  PROVE  Progress'
<1>1. CASE CancelFeed
  BY <1>1 DEF CancelFeed, Progress, Stages, InFlight, Done, assistant
<1>2. CASE CloseRedis
  <2>1. Closing("redis", "close engine") /\ UNCHANGED <<phase, feed>> /\ stage = "close redis"
    BY <1>2 DEF CloseRedis, assistant
  <2>2. "redis" \in Resources /\ "close engine" \in Stages
    BY DEF Resources, Stages
  <2> QED
    BY <2>1, <2>2, ClosingDeals DEF Progress, InFlight, Done
<1>3. CASE CloseEngine
  <2>1. Closing("engine", "close llm") /\ UNCHANGED <<phase, feed>> /\ stage = "close engine"
    BY <1>3 DEF CloseEngine, assistant
  <2>2. "engine" \in Resources /\ "close llm" \in Stages /\ "redis" \in Resources \ {"engine"}
    BY DEF Resources, Stages
  <2> QED
    BY <2>1, <2>2, ClosingDeals DEF Progress, InFlight, Done
<1>4. CASE CloseLLM
  <2>1. Closing("llm", "over") /\ UNCHANGED <<phase, feed>> /\ stage = "close llm"
    BY <1>4 DEF CloseLLM, assistant
  <2>2. "llm" \in Resources /\ "over" \in Stages /\ {"redis", "engine"} \subseteq Resources \ {"llm"}
    BY DEF Resources, Stages
  <2> QED
    BY <2>1, <2>2, ClosingDeals DEF Progress, InFlight, Done
<1> QED
  BY <1>1, <1>2, <1>3, <1>4 DEF Stop

LEMMA ProgressStep == Progress /\ [Next]_vars => Progress'
<1> SUFFICES ASSUME Progress, [Next]_vars PROVE Progress'
  OBVIOUS
<1>1. CASE StartUp
  BY <1>1, StartUpStep
<1>2. CASE Serve
  BY <1>2 DEF Serve, lifespan, Progress, Done
<1>3. CASE Shutdown
  BY <1>3 DEF Shutdown, Progress, Stages, InFlight, Done, assistant
<1>4. CASE Stop
  BY <1>4, StopStep
<1>5. CASE UNCHANGED vars
  BY <1>5 DEF vars, lifespan, assistant, Progress, InFlight, Done
<1> QED
  BY <1>1, <1>2, <1>3, <1>4, <1>5 DEF Next

\* What is open at the end is open because its close raised.
THEOREM ShutdownCloses == Spec => []ClosesWhatItOpened
<1>1. Progress => ClosesWhatItOpened
  BY DEF Progress, ClosesWhatItOpened, Resources, Done
<1> QED
  BY <1>1, InitProgress, ProgressStep, PTL DEF Spec

-----------------------------------------------------------------------------
(* The conversation *)

Messages == Replies \cup Results

\* The message at i has its counterparts: a reply the results of its calls, a
\* result the call it is of.
Matched(i) ==
  IF IsReply(i)
  THEN \A k \in 1 .. messages[i].calls :
         /\ i + k \in DOMAIN messages
         /\ ~IsReply(i + k)
         /\ messages[i + k].of = k
  ELSE /\ i - messages[i].of \in DOMAIN messages
       /\ IsReply(i - messages[i].of)
       /\ messages[i].of <= messages[i - messages[i].of].calls

\* The reply whose calls are being made
Asking == Len(messages) + 1 - call

\* While tools run, the calls made so far have their results after the reply, and
\* all before it is matched.
HalfAnswered ==
  /\ Asking \in DOMAIN messages /\ IsReply(Asking)
  /\ messages[Asking].calls >= 1 /\ call - 1 <= messages[Asking].calls
  /\ \A k \in 1 .. call - 1 : ~IsReply(Asking + k) /\ messages[Asking + k].of = k
  /\ \A i \in 1 .. Asking - 1 : Matched(i)

\* Where the loop stands. A turn beyond the first follows results; groq asks for
\* tools on its first turn only, langchain never on its last.
Talk ==
  /\ ~InFlight => turns = 0 /\ messages = <<>> /\ answer = 0 /\ call = 1
  /\ InFlight => turns >= 1
  /\ phase \in {"model", "leaving"} => \A i \in DOMAIN messages : Matched(i)
  /\ phase = "tools" => HalfAnswered
  /\ phase \in {"model", "tools"} => answer = 0
  /\ phase = "model" /\ turns > 1 => \E i \in DOMAIN messages : ~IsReply(i)
  /\ phase = "tools" /\ llm = "groq" => turns = 1
  /\ phase = "tools" /\ llm = "langchain" => turns < MaxTurns
  /\ GroqAnswersNext
  /\ AnswerIsTheLastWord

LEMMA MessageTypes ==
  ASSUME AssistantTypeOK
  PROVE  /\ Len(messages) \in Nat /\ DOMAIN messages = 1 .. Len(messages)
         /\ \A i \in DOMAIN messages :
              \/ IsReply(i) /\ messages[i] \in Replies /\ messages[i].calls \in 0 .. MaxCalls
              \/ ~IsReply(i) /\ messages[i] \in Results /\ messages[i].of \in 1 .. MaxCalls
<1>1. messages \in Seq(Messages)
  BY DEF AssistantTypeOK, Messages
<1>2. Len(messages) \in Nat /\ DOMAIN messages = 1 .. Len(messages)
  BY <1>1, LenProperties
<1>3. \A i \in DOMAIN messages : messages[i] \in Messages
  BY <1>1, <1>2, ElementOfSeq
<1>4. QED
  BY <1>2, <1>3 DEF Messages, Replies, Results, IsReply

\* A message more leaves those before it as they were, and matched.
LEMMA OneMore ==
  ASSUME AssistantTypeOK, NEW m \in Messages, messages' = Append(messages, m)
  PROVE  /\ messages' \in Seq(Messages)
         /\ Len(messages') = Len(messages) + 1
         /\ DOMAIN messages' = 1 .. Len(messages) + 1
         /\ messages'[Len(messages) + 1] = m
         /\ \A i \in DOMAIN messages : messages'[i] = messages[i] /\ (IsReply(i)' <=> IsReply(i))
         /\ \A i \in DOMAIN messages : Matched(i) => Matched(i)'
<1>1. messages \in Seq(Messages)
  BY DEF AssistantTypeOK, Messages
<1>2. /\ messages' \in Seq(Messages)
      /\ Len(messages') = Len(messages) + 1
      /\ \A i \in 1 .. Len(messages) : messages'[i] = messages[i]
      /\ messages'[Len(messages) + 1] = m
  BY <1>1, AppendProperties
<1>3. /\ Len(messages) \in Nat /\ DOMAIN messages = 1 .. Len(messages)
      /\ DOMAIN messages' = 1 .. Len(messages) + 1
  BY <1>1, <1>2, LenProperties
<1>4. \A i \in DOMAIN messages : messages'[i] = messages[i] /\ (IsReply(i)' <=> IsReply(i))
  BY <1>2, <1>3 DEF IsReply
<1>5. ASSUME NEW i \in DOMAIN messages, Matched(i) PROVE Matched(i)'
  <2>1. CASE IsReply(i)
    BY <1>3, <1>4, <1>5, <2>1 DEF Matched
  <2>2. CASE ~IsReply(i)
    BY <1>3, <1>4, <1>5, <2>2 DEF Matched
  <2>3. QED
    BY <2>1, <2>2
<1>6. QED
  BY <1>2, <1>3, <1>4, <1>5

\* While tools run, the reply being answered is the last.
LEMMA AskingIsLast ==
  ASSUME AssistantTypeOK, HalfAnswered
  PROVE  LastReply = Asking
<1> USE MessageTypes DEF HalfAnswered, Asking, AssistantTypeOK
<1>1. \A j \in DOMAIN messages : j > Asking => ~IsReply(j)
  <2>1. ASSUME NEW j \in DOMAIN messages, j > Asking PROVE ~IsReply(j)
    <3>1. j - Asking \in 1 .. call - 1 /\ Asking + (j - Asking) = j
      BY <2>1
    <3>2. QED
      BY <3>1
  <2>2. QED
    BY <2>1
<1>2. ASSUME NEW i \in DOMAIN messages, IsReply(i), \A j \in DOMAIN messages : j > i => ~IsReply(j)
      PROVE  i = Asking
  BY <1>1, <1>2
<1>3. QED
  BY <1>1, <1>2 DEF LastReply

\* A set of numbers has a least one; a bounded one, if it is not empty, a largest.
LEMMA Smallest ==
  ASSUME NEW T, T \subseteq Nat, T # {}
  PROVE  \E x \in T : \A y \in T : x <= y
<1> DEFINE R == {ss \in Nat \X Nat : ss[1] < ss[2]}
<1>1. IsWellFoundedOn(R, Nat)
  BY NatLessThanWellFounded DEF OpToRel
<1>2. \A x, y \in Nat : y < x => <<y, x>> \in R
  OBVIOUS
<1> HIDE DEF R
<1>3. PICK x \in T : \A y \in T : ~ (<<y, x>> \in R)
  BY <1>1, WFMin
<1>4. ASSUME NEW y \in T PROVE x <= y
  <2>1. x \in Nat /\ y \in Nat
    OBVIOUS
  <2>2. ~ (y < x)
    BY <1>2, <1>3, <2>1
  <2>3. QED
    BY <2>1, <2>2
<1>5. QED
  BY <1>4

LEMMA Largest ==
  ASSUME NEW n \in Nat, NEW S, S \subseteq 0 .. n, S # {}
  PROVE  \E x \in S : \A y \in S : y <= x
<1> DEFINE T == {m \in 0 .. n : n - m \in S}
<1>1. PICK s \in S : TRUE
  OBVIOUS
<1>2. n - s \in T
  <2>1. s \in 0 .. n /\ n - s \in 0 .. n /\ n - (n - s) = s
    OBVIOUS
  <2>2. QED
    BY <2>1
<1>3. PICK m \in T : \A y \in T : m <= y
  <2>1. T \subseteq Nat /\ T # {}
    BY <1>2
  <2> HIDE DEF T
  <2>2. QED
    BY <2>1, Smallest
<1>4. n - m \in S
  OBVIOUS
<1>5. ASSUME NEW y \in S PROVE y <= n - m
  <2>1. y \in 0 .. n /\ n - y \in 0 .. n /\ n - (n - y) = y
    OBVIOUS
  <2>2. m <= n - y /\ m \in 0 .. n
    BY <1>3, <2>1
  <2>3. QED
    BY <2>1, <2>2
<1>6. QED
  BY <1>4, <1>5

\* The last word is one of the texts, if there are any.
LEMMA LastWordIsAText ==
  ASSUME AssistantTypeOK
  PROVE  /\ LastWord \in 0 .. Len(messages)
         /\ LastWord = 0 => \A i \in DOMAIN messages : ~Says(i)
<1> DEFINE texts == {i \in DOMAIN messages : Says(i)}
<1>1. texts \subseteq 1 .. Len(messages) /\ Len(messages) \in Nat
  BY MessageTypes
<1>2. LastWord = IF texts = {} THEN 0 ELSE CHOOSE i \in texts : \A j \in texts : j <= i
  BY DEF LastWord
<1>3. texts = {} => \A i \in DOMAIN messages : ~Says(i)
  OBVIOUS
<1> HIDE DEF texts
<1>4. CASE texts = {}
  BY <1>1, <1>2, <1>3, <1>4
<1>5. CASE texts # {}
  <2>1. \E i \in texts : \A j \in texts : j <= i
    <3>1. texts \subseteq 0 .. Len(messages)
      BY <1>1
    <3>2. QED
      BY <1>1, <1>5, <3>1, Largest
  <2>2. LastWord \in texts
    BY <1>2, <1>5, <2>1
  <2>3. QED
    BY <1>1, <2>2
<1> QED
  BY <1>4, <1>5

\* A last message that says something is the last word.
LEMMA LastSays ==
  AssistantTypeOK /\ Len(messages) > 0 /\ Says(Len(messages)) => LastWord = Len(messages)
<1> SUFFICES ASSUME AssistantTypeOK, Len(messages) > 0, Says(Len(messages))
             PROVE  LastWord = Len(messages)
  OBVIOUS
<1> DEFINE texts == {i \in DOMAIN messages : Says(i)}
<1>1. Len(messages) \in texts /\ \A j \in texts : j \in Nat /\ j <= Len(messages)
  BY MessageTypes
<1>2. ASSUME NEW i \in texts, \A j \in texts : j <= i PROVE i = Len(messages)
  BY <1>1, <1>2, MessageTypes
<1> HIDE DEF texts
<1>3. (CHOOSE i \in texts : \A j \in texts : j <= i) = Len(messages)
  BY <1>1, <1>2
<1>4. QED
  BY <1>1, <1>3 DEF LastWord, texts

\* All calls made, the whole conversation is matched and ends with results.
LEMMA AllAnswered ==
  ASSUME AssistantTypeOK, HalfAnswered, ~CallsLeft
  PROVE  /\ \A i \in DOMAIN messages : Matched(i)
         /\ ~IsReply(Len(messages)) /\ Len(messages) \in DOMAIN messages
<1> USE MessageTypes, AskingIsLast DEF AssistantTypeOK
<1>1. call - 1 = messages[Asking].calls /\ Asking \in DOMAIN messages /\ IsReply(Asking)
  BY DEF HalfAnswered, CallsLeft
<1>2. Len(messages) = Asking + (call - 1) /\ call - 1 \in 1 .. MaxCalls
  BY <1>1 DEF HalfAnswered, Asking
<1>3. \A k \in 1 .. call - 1 : ~IsReply(Asking + k) /\ messages[Asking + k].of = k
  BY DEF HalfAnswered
<1>4. Matched(Asking)
  BY <1>1, <1>2, <1>3 DEF Matched
<1>5. ASSUME NEW i \in DOMAIN messages, i > Asking PROVE Matched(i)
  <2>1. i - Asking \in 1 .. call - 1 /\ Asking + (i - Asking) = i
    BY <1>1, <1>2, <1>5
  <2>2. ~IsReply(i) /\ messages[i].of = i - Asking
    BY <1>3, <2>1
  <2>3. i - messages[i].of = Asking /\ messages[i].of <= messages[Asking].calls
    BY <1>1, <1>2, <2>1, <2>2
  <2>4. QED
    BY <1>1, <2>2, <2>3 DEF Matched
<1>6. \A i \in 1 .. Asking - 1 : Matched(i)
  BY DEF HalfAnswered
<1>7. \A i \in DOMAIN messages : Matched(i)
  BY <1>1, <1>4, <1>5, <1>6
<1>8. ~IsReply(Len(messages)) /\ Len(messages) \in DOMAIN messages
  <2>1. ~IsReply(Asking + (call - 1))
    BY <1>2, <1>3
  <2>2. Len(messages) >= 1
    BY <1>1
  <2>3. QED
    BY <1>2, <2>1, <2>2
<1>9. QED
  BY <1>7, <1>8

LEMMA LeaveStops ==
  ASSUME NEW p \in Ended, Leave(p), AssistantTypeOK, UNCHANGED <<llm, bound>>
  PROVE  AssistantTypeOK' /\ Talk'
<1>1. /\ phase' \in Ended /\ session' = "closed"
      /\ turns' = 0 /\ messages' = <<>> /\ call' = 1 /\ answer' = 0
  BY DEF Leave
<1>2. messages' \in Seq(Messages) /\ Len(messages') = 0
  BY <1>1
<1>3. AssistantTypeOK'
  BY <1>1, <1>2, AssistantAssumption DEF AssistantTypeOK, Messages, Ended
<1>4. Talk'
  BY <1>1 DEF Talk, InFlight, Ended, GroqAnswersNext, AnswerIsTheLastWord
<1>5. QED
  BY <1>3, <1>4

LEMMA FinalReplyStep ==
  ASSUME AssistantTypeOK, Talk, NEW text \in BOOLEAN, FinalReply(text)
  PROVE  AssistantTypeOK' /\ Talk'
<1> DEFINE m == [role |-> "assistant", said |-> text, calls |-> 0]
<1>1. m \in Messages /\ messages' = Append(messages, m)
  BY AssistantAssumption DEF FinalReply, Messages, Replies
<1>2. /\ phase = "model" /\ phase' = "leaving"
      /\ UNCHANGED <<llm, bound, turns, call, session>>
      /\ answer' = IF text THEN Len(messages) + 1 ELSE 0
  BY DEF FinalReply, Conclude
<1> PICK n \in Nat : n = Len(messages) + 1
  BY MessageTypes
<1> HIDE DEF m
<1>3. /\ n > 0 /\ Len(messages') = n /\ DOMAIN messages' = 1 .. n
      /\ DOMAIN messages = 1 .. n - 1 /\ messages'[n] = m
  BY <1>1, OneMore, MessageTypes
<1>4. IsReply(n)' /\ (Says(n)' <=> text)
  BY <1>3 DEF IsReply, Says, m
<1>5. AssistantTypeOK'
  BY <1>1, <1>2, <1>3, OneMore DEF AssistantTypeOK, Messages
<1>6. \A i \in DOMAIN messages' : Matched(i)'
  <2>1. Matched(n)'
    BY <1>3, <1>4 DEF Matched, m
  <2>2. \A i \in 1 .. n - 1 : Matched(i)'
    BY <1>1, <1>2, <1>3, OneMore DEF Talk
  <2>3. QED
    BY <1>3, <2>1, <2>2
<1>7. AnswerIsTheLastWord'
  <2>1. CASE text
    <3>1. answer' = n /\ Says(Len(messages))' /\ (Len(messages) > 0)'
      BY <1>2, <1>3, <1>4, <2>1
    <3>2. (AssistantTypeOK /\ Len(messages) > 0 /\ Says(Len(messages)) => LastWord = Len(messages))'
      BY LastSays, PTL
    <3>3. LastWord' = n
      BY <1>3, <1>5, <3>1, <3>2
    <3>4. QED
      BY <1>2, <1>3, <3>1, <3>3 DEF AnswerIsTheLastWord
  <2>2. CASE ~text
    BY <1>2, <1>3, <1>4, <2>2 DEF AnswerIsTheLastWord, Says
  <2>3. QED
    BY <2>1, <2>2
<1>8. QED
  BY <1>2, <1>5, <1>6, <1>7 DEF Talk, InFlight, GroqAnswersNext

LEMMA ToolReplyStep ==
  ASSUME AssistantTypeOK, Talk, NEW text \in BOOLEAN, NEW c \in 1 .. MaxCalls,
         ToolReply(text, c)
  PROVE  AssistantTypeOK' /\ Talk'
<1> DEFINE m == [role |-> "assistant", said |-> text, calls |-> c]
<1>1. m \in Messages /\ messages' = Append(messages, m)
  BY AssistantAssumption DEF ToolReply, Messages, Replies
<1>2. /\ phase = "model" /\ phase' = "tools" /\ call' = 1 /\ ~Forced
      /\ UNCHANGED <<llm, bound, turns, session, answer>>
  BY DEF ToolReply
<1> PICK n \in Nat : n = Len(messages) + 1
  BY MessageTypes
<1> HIDE DEF m
<1>3. /\ n > 0 /\ Len(messages') = n /\ DOMAIN messages' = 1 .. n
      /\ DOMAIN messages = 1 .. n - 1 /\ messages'[n] = m
  BY <1>1, OneMore, MessageTypes
<1>4. AssistantTypeOK'
  BY <1>1, <1>2, <1>3, OneMore, AssistantAssumption DEF AssistantTypeOK, Messages
<1>5. HalfAnswered'
  <2>1. Asking' = n
    BY <1>2, <1>3 DEF Asking
  <2>2. IsReply(n)' /\ messages'[n].calls = c
    BY <1>3 DEF IsReply, m
  <2>3. \A i \in 1 .. n - 1 : Matched(i)'
    BY <1>1, <1>2, <1>3, OneMore DEF Talk
  <2>4. QED
    BY <1>2, <1>3, <2>1, <2>2, <2>3 DEF HalfAnswered
<1>6. llm = "groq" => turns = 1
  <2>1. turns \in Nat /\ turns >= 1
    BY <1>2 DEF Talk, InFlight, AssistantTypeOK
  <2>2. llm = "groq" => ~(turns > 1)
    BY <1>2 DEF Forced, Talk
  <2>3. QED
    BY <2>1, <2>2
<1>7. llm = "langchain" => turns < MaxTurns
  <2>1. turns \in 0 .. MaxTurns /\ MaxTurns \in Nat
    BY AssistantAssumption DEF AssistantTypeOK
  <2>2. llm = "langchain" => turns # MaxTurns
    BY <1>2 DEF Forced
  <2>3. QED
    BY <2>1, <2>2
<1>8. QED
  BY <1>2, <1>4, <1>5, <1>6, <1>7 DEF Talk, InFlight, GroqAnswersNext, AnswerIsTheLastWord

\* A result more is that of the next call of the reply.
LEMMA ReportStep ==
  ASSUME AssistantTypeOK, Talk, NEW good \in BOOLEAN, phase = "tools", CallsLeft, Report(good),
         session' \in {session, "aborted"}, UNCHANGED <<llm, bound, phase, turns, answer>>
  PROVE  AssistantTypeOK' /\ Talk'
<1> DEFINE m == [role |-> "tool", of |-> call, ok |-> good]
<1>1. HalfAnswered /\ LastReply = Asking
  BY AskingIsLast DEF Talk
<1>2. /\ Asking \in DOMAIN messages /\ IsReply(Asking)
      /\ call \in 1 .. messages[Asking].calls /\ messages[Asking].calls \in 0 .. MaxCalls
  BY <1>1, MessageTypes DEF CallsLeft, AssistantTypeOK, HalfAnswered
<1>3. m \in Messages /\ messages' = Append(messages, m) /\ call' = call + 1
  <2>1. call \in 1 .. MaxCalls
    BY <1>2, AssistantAssumption
  <2>2. QED
    BY <2>1 DEF Report, Messages, Results
<1> PICK n \in Nat : n = Len(messages) + 1
  BY MessageTypes
<1> PICK a \in 1 .. n - 1 : a = Asking
  BY <1>2, MessageTypes
<1>4. call \in Nat /\ n = a + call
  BY DEF Asking, AssistantTypeOK
<1>5. m.of = call /\ m.role = "tool"
  OBVIOUS
<1> HIDE DEF m
<1>6. /\ Len(messages') = n /\ DOMAIN messages' = 1 .. n /\ DOMAIN messages = 1 .. n - 1
      /\ messages'[n] = m /\ messages'[a] = messages[a]
      /\ \A i \in 1 .. n - 1 : messages'[i] = messages[i] /\ (IsReply(i)' <=> IsReply(i))
  BY <1>3, OneMore, MessageTypes
<1>7. AssistantTypeOK'
  <2>1. messages' \in Seq(Messages) /\ call' \in 1 .. MaxCalls + 1
    BY <1>2, <1>3, AssistantAssumption, OneMore DEF AssistantTypeOK
  <2>2. answer' \in 0 .. n /\ session' \in {"closed", "open", "aborted"}
    BY <1>6, MessageTypes DEF AssistantTypeOK
  <2>3. QED
    BY <1>6, <2>1, <2>2 DEF AssistantTypeOK, Messages
<1>8. HalfAnswered'
  <2>1. Asking' = a
    BY <1>3, <1>4, <1>6 DEF Asking
  <2>2. IsReply(a)' /\ messages'[a].calls >= 1 /\ call' - 1 <= messages'[a].calls
    BY <1>1, <1>2, <1>3, <1>6 DEF HalfAnswered
  <2>3. ASSUME NEW k \in 1 .. call' - 1 PROVE ~IsReply(a + k)' /\ messages'[a + k].of = k
    <3>1. CASE k = call
      BY <1>4, <1>5, <1>6, <3>1 DEF IsReply
    <3>2. CASE k # call
      <4>1. k \in 1 .. call - 1 /\ a + k \in 1 .. n - 1
        BY <1>3, <1>4, <2>3, <3>2
      <4>2. ~IsReply(a + k) /\ messages[a + k].of = k
        BY <1>1, <4>1 DEF HalfAnswered
      <4>3. QED
        BY <1>6, <4>1, <4>2
    <3>3. QED
      BY <3>1, <3>2
  <2>4. \A i \in 1 .. a - 1 : Matched(i)'
    <3>1. \A i \in 1 .. a - 1 : Matched(i) /\ i \in DOMAIN messages
      BY <1>1, <1>6 DEF HalfAnswered
    <3>2. QED
      BY <1>3, <3>1, OneMore
  <2>5. QED
    BY <1>6, <2>1, <2>2, <2>3, <2>4 DEF HalfAnswered
<1>9. QED
  BY <1>7, <1>8 DEF Talk, InFlight, GroqAnswersNext, AnswerIsTheLastWord

LEMMA LoopStepTalks ==
  ASSUME AssistantTypeOK, Talk, LoopStep
  PROVE  AssistantTypeOK' /\ Talk'
<1>1. phase = "tools" /\ ~CallsLeft /\ UNCHANGED <<llm, bound, messages, call, session>>
  BY DEF LoopStep, NextTurn, LimitReached
<1>2. /\ \A i \in DOMAIN messages : Matched(i)
      /\ ~IsReply(Len(messages)) /\ Len(messages) \in DOMAIN messages
  BY <1>1, AllAnswered DEF Talk
<1>3. \A i \in DOMAIN messages : Matched(i)'
  BY <1>1, <1>2 DEF Matched, IsReply
<1>4. CASE NextTurn
  <2>1. turns' = turns + 1 /\ turns < MaxTurns /\ phase' = "model" /\ answer' = answer
    BY <1>4 DEF NextTurn
  <2>2. AssistantTypeOK'
    BY <1>1, <2>1, AssistantAssumption DEF AssistantTypeOK
  <2>3. \E i \in DOMAIN messages : ~IsReply(i)'
    BY <1>1, <1>2 DEF IsReply
  <2>4. turns' >= 1 /\ (llm = "groq" => turns' <= 2) /\ answer' = 0
    BY <1>1, <2>1 DEF Talk, InFlight, AssistantTypeOK
  <2>5. QED
    BY <1>1, <1>3, <2>1, <2>2, <2>3, <2>4 DEF Talk, InFlight, GroqAnswersNext, AnswerIsTheLastWord
<1>5. CASE LimitReached
  <2>1. turns' = turns /\ turns = MaxTurns /\ phase' = "leaving" /\ answer' = LastWord
    BY <1>5 DEF LimitReached, Conclude
  <2>2. /\ LastWord \in 0 .. Len(messages) /\ LastWord' = LastWord
        /\ LastWord = 0 => ~Says(Len(messages))
    BY <1>1, <1>2, LastWordIsAText DEF LastWord, Says, IsReply
  <2>3. AssistantTypeOK'
    BY <1>1, <2>1, <2>2 DEF AssistantTypeOK
  <2>4. llm # "langchain"
    BY <1>1, <2>1 DEF Talk, AssistantTypeOK
  <2>5. AnswerIsTheLastWord'
    BY <1>1, <2>1, <2>2, <2>4 DEF AnswerIsTheLastWord, Says, IsReply
  <2>6. QED
    BY <1>1, <1>3, <2>1, <2>3, <2>5 DEF Talk, InFlight, GroqAnswersNext
<1> QED
  BY <1>4, <1>5 DEF LoopStep

LEMMA AssistantTalks ==
  ASSUME AssistantTypeOK, Talk, AssistantNext
  PROVE  AssistantTypeOK' /\ Talk' /\ llm' = llm /\ bound' = bound
<1>1. CASE Ask
  <2>1. ~InFlight /\ UNCHANGED <<llm, bound>>
    BY <1>1 DEF Ask
  <2>2. CASE llm = "none"
    BY <1>1, <2>1, <2>2, LeaveStops DEF Ask, Ended
  <2>3. CASE llm # "none"
    <3>1. /\ phase' = "model" /\ session' = "open" /\ turns' = 1
          /\ UNCHANGED <<messages, call, answer>>
      BY <1>1, <2>3 DEF Ask
    <3>2. messages = <<>> /\ DOMAIN messages = {} /\ answer = 0
      BY <2>1, MessageTypes DEF Talk
    <3>3. AssistantTypeOK'
      BY <2>1, <3>1, AssistantAssumption DEF AssistantTypeOK
    <3>4. QED
      BY <2>1, <3>1, <3>2, <3>3 DEF Talk, InFlight, GroqAnswersNext, AnswerIsTheLastWord
  <2>4. QED
    BY <2>2, <2>3
<1>2. CASE ModelStep
  <2>1. ASSUME ModelFails PROVE Leave("failed") /\ UNCHANGED <<llm, bound>>
    BY <2>1 DEF ModelFails
  <2>2. ASSUME NEW text \in BOOLEAN, FinalReply(text) PROVE UNCHANGED <<llm, bound>>
    BY <2>2 DEF FinalReply
  <2>3. ASSUME NEW text \in BOOLEAN, NEW n \in 1 .. MaxCalls, ToolReply(text, n)
        PROVE  UNCHANGED <<llm, bound>>
    BY <2>3 DEF ToolReply
  <2>4. QED
    BY <1>2, <2>1, <2>2, <2>3, FinalReplyStep, ToolReplyStep, LeaveStops DEF ModelStep, Ended
<1>3. CASE ToolStep
  <2>1. phase = "tools" /\ CallsLeft /\ \E good \in BOOLEAN : Report(good)
    BY <1>3 DEF ToolStep, ToolAnswers, ToolRaises, QueryFails
  <2>2. session' \in {session, "aborted"} /\ UNCHANGED <<llm, bound, phase, turns, answer>>
    BY <1>3 DEF ToolStep, ToolAnswers, ToolRaises, QueryFails
  <2>3. QED
    BY <2>1, <2>2, ReportStep
<1>4. CASE LoopStep
  BY <1>4, LoopStepTalks DEF LoopStep, NextTurn, LimitReached
<1>5. CASE LeaveStep
  <2>1. PICK p \in Ended : Leave(p) /\ UNCHANGED <<llm, bound>>
    BY <1>5 DEF LeaveStep, Commit, CommitFails, Ended
  <2>2. QED
    BY <2>1, LeaveStops
<1>6. CASE DatabaseHangs
  <2>1. /\ InFlight /\ phase' = "hung"
        /\ UNCHANGED <<llm, bound, turns, messages, call, session, answer>>
    BY <1>6 DEF DatabaseHangs, InFlight
  <2>2. AssistantTypeOK'
    BY <2>1 DEF AssistantTypeOK
  <2>3. QED
    BY <2>1, <2>2 DEF Talk, InFlight, GroqAnswersNext, AnswerIsTheLastWord
<1> QED
  BY <1>1, <1>2, <1>3, <1>4, <1>5, <1>6 DEF AssistantNext

\* A step of the lifespan changes nothing of the conversation, and the provider
\* only while there is none.
LEMMA LifespanTalks ==
  ASSUME AssistantTypeOK, Talk, UNCHANGED assistant, bound' \in BOOLEAN,
         llm' \in Providers \cup {"none"}, llm' = llm \/ ~InFlight
  PROVE  AssistantTypeOK' /\ Talk'
<1>1. UNCHANGED <<phase, turns, messages, call, session, answer>>
  BY DEF assistant
<1>2. AssistantTypeOK'
  BY <1>1 DEF AssistantTypeOK
<1>3. CASE InFlight
  <2>1. llm' = llm
    BY <1>3
  <2>2. HalfAnswered' <=> HalfAnswered
    BY <1>1 DEF HalfAnswered, Asking, Matched, IsReply
  <2>3. (\A i \in DOMAIN messages : Matched(i))' <=> \A i \in DOMAIN messages : Matched(i)
    BY <1>1 DEF Matched, IsReply
  <2>4. LastWord' = LastWord /\ (AnswerIsTheLastWord' <=> AnswerIsTheLastWord)
    BY <1>1, <2>1 DEF LastWord, Says, IsReply, AnswerIsTheLastWord
  <2>5. QED
    BY <1>1, <1>2, <1>3, <2>1, <2>2, <2>3, <2>4 DEF Talk, InFlight, GroqAnswersNext, IsReply
<1>4. CASE ~InFlight
  <2>1. ~InFlight' /\ phase \notin {"model", "tools", "leaving"} /\ turns = 0
    BY <1>1, <1>4 DEF InFlight, Talk
  <2>2. QED
    BY <1>1, <1>2, <1>4, <2>1 DEF Talk, GroqAnswersNext, AnswerIsTheLastWord
<1> QED
  BY <1>3, <1>4

LEMMA StartUpTalks ==
  ASSUME TypeOK, Talk, Progress, StartUp
  PROVE  TypeOK' /\ Talk'
<1>1. ~InFlight /\ UNCHANGED assistant
  BY DEF StartUp, OpenRedis, RedisFails, OpenEngine, WirePipeline, StartFeed, OpenLLM, Progress
<1>2. stage' \in Stages /\ {window', wired'} \subseteq BOOLEAN
      /\ feed' \in {"none", "running", "over"} /\ stuck' \subseteq Resources
  BY DEF StartUp, OpenRedis, RedisFails, OpenEngine, WirePipeline, StartFeed, OpenLLM,
         TypeOK, Stages
<1>3. /\ bound' \in BOOLEAN /\ llm' \in Providers \cup {"none"}
      /\ resource' \in [Resources -> {"none", "open", "closed"}]
      /\ bound' <=> resource'["engine"] # "none"
      /\ llm' # "none" <=> resource'["llm"] # "none"
  <2> USE DEF TypeOK, AssistantTypeOK, Become, Resources
  <2>1. CASE OpenRedis \/ RedisFails
    BY <2>1 DEF OpenRedis, RedisFails
  <2>2. CASE OpenEngine
    <3>1. UNCHANGED llm /\ (\/ Become("engine", "open") /\ bound' = TRUE
                            \/ UNCHANGED <<resource, bound>>)
      BY <2>2 DEF OpenEngine
    <3>2. CASE Become("engine", "open") /\ bound' = TRUE
      BY <3>1, <3>2
    <3>3. CASE UNCHANGED <<resource, bound>>
      BY <3>1, <3>3
    <3>4. QED
      BY <3>1, <3>2, <3>3
  <2>3. CASE WirePipeline \/ StartFeed
    BY <2>3 DEF WirePipeline, StartFeed
  <2>4. CASE OpenLLM
    BY <2>4 DEF OpenLLM, Providers
  <2>5. QED
    BY <2>1, <2>2, <2>3, <2>4 DEF StartUp
<1>4. AssistantTypeOK' /\ Talk'
  BY <1>1, <1>3, LifespanTalks DEF TypeOK
<1>5. QED
  BY <1>2, <1>3, <1>4 DEF TypeOK

LEMMA StopTalks ==
  ASSUME TypeOK, Talk, Stop
  PROVE  TypeOK' /\ Talk'
<1>1. UNCHANGED <<llm, bound, assistant, window, wired>>
  BY DEF Stop, CancelFeed, CloseRedis, CloseEngine, CloseLLM
<1>2. stage' \in Stages /\ feed' \in {"none", "running", "over"}
  BY DEF Stop, CancelFeed, CloseRedis, CloseEngine, CloseLLM, Closing, TypeOK, Stages
<1>3. CASE CancelFeed
  <2>1. UNCHANGED <<resource, stuck>>
    BY <1>3 DEF CancelFeed
  <2>2. AssistantTypeOK' /\ Talk'
    BY <1>1, LifespanTalks DEF TypeOK, AssistantTypeOK
  <2>3. QED
    BY <1>1, <1>2, <2>1, <2>2 DEF TypeOK
<1>4. ASSUME NEW r \in Resources, NEW s \in Stages, Closing(r, s) PROVE TypeOK' /\ Talk'
  <2>1. /\ resource' \in [Resources -> {"none", "open", "closed"}]
        /\ \A q \in Resources : resource'[q] # "none" <=> resource[q] # "none"
        /\ stuck' \subseteq Resources
    BY <1>4 DEF Closing, Become, TypeOK
  <2>2. "engine" \in Resources /\ "llm" \in Resources
    BY DEF Resources
  <2>3. AssistantTypeOK' /\ Talk'
    BY <1>1, LifespanTalks DEF TypeOK, AssistantTypeOK
  <2>4. QED
    BY <1>1, <1>2, <2>1, <2>2, <2>3 DEF TypeOK
<1> QED
  BY <1>3, <1>4 DEF Stop, CloseRedis, CloseEngine, CloseLLM, Resources, Stages

LEMMA NextTalks == TypeOK /\ Talk /\ Progress /\ [Next]_vars => TypeOK' /\ Talk'
<1> SUFFICES ASSUME TypeOK, Talk, Progress, [Next]_vars PROVE TypeOK' /\ Talk'
  OBVIOUS
<1>1. CASE Serve
  <2>1. AssistantTypeOK' /\ Talk' /\ llm' = llm /\ bound' = bound
    BY <1>1, AssistantTalks DEF Serve, TypeOK
  <2>2. UNCHANGED <<stage, resource, window, wired, feed, stuck>>
    BY <1>1 DEF Serve, lifespan
  <2>3. QED
    BY <2>1, <2>2 DEF TypeOK
<1>2. CASE Shutdown \/ UNCHANGED vars
  <2>1. UNCHANGED <<llm, bound, assistant, resource, window, wired, feed, stuck>>
    BY <1>2 DEF Shutdown, vars, lifespan
  <2>2. stage' \in Stages
    BY <1>2 DEF Shutdown, vars, lifespan, TypeOK, Stages
  <2>3. AssistantTypeOK' /\ Talk'
    BY <2>1, LifespanTalks DEF TypeOK, AssistantTypeOK
  <2>4. QED
    BY <2>1, <2>2, <2>3 DEF TypeOK
<1> QED
  BY <1>1, <1>2, StartUpTalks, StopTalks DEF Next

LEMMA InitTalks == Init => TypeOK /\ Talk
<1> SUFFICES ASSUME Init PROVE TypeOK /\ Talk
  OBVIOUS
<1>1. messages \in Seq(Messages) /\ Len(messages) = 0
  BY DEF Init, AssistantInit
<1>2. AssistantTypeOK
  <2>1. 1 \in 1 .. MaxCalls + 1 /\ 0 \in 0 .. MaxTurns
    BY AssistantAssumption
  <2>2. llm \in Providers \cup {"none"} /\ bound \in BOOLEAN
    BY DEF Init, AssistantInit
  <2>3. /\ phase \in {"none", "model", "tools", "leaving", "hung"} \cup Ended
        /\ session \in {"closed", "open", "aborted"}
    BY DEF Init, AssistantInit
  <2>4. turns \in 0 .. MaxTurns /\ call \in 1 .. MaxCalls + 1 /\ answer \in 0 .. Len(messages)
    BY <1>1, <2>1 DEF Init, AssistantInit
  <2>5. QED
    BY <1>1, <2>2, <2>3, <2>4 DEF AssistantTypeOK, Messages
<1>3. TypeOK
  BY <1>2 DEF Init, AssistantInit, TypeOK, Resources, Stages
<1>4. Talk
  BY DEF Init, AssistantInit, Talk, InFlight, GroqAnswersNext, AnswerIsTheLastWord
<1>5. QED
  BY <1>3, <1>4

\* The invariant of the conversation, with that of the lifespan it rests on.
LEMMA Conversation == Spec => [](TypeOK /\ Talk)
  BY InitTalks, InitProgress, NextTalks, ProgressStep, PTL DEF Spec

\* Turns, messages, session and resources keep their shape for every limit.
THEOREM ApplicationTypeCorrect == Spec => []TypeOK
  BY Conversation, PTL

\* When the model is asked, each of its calls has one result, in order and right
\* after the reply, whichever tools failed (the tool loops of the providers).
THEOREM CallsAreAnswered == Spec => []EveryCallIsAnswered
<1>1. Talk => EveryCallIsAnswered
  BY DEF Talk, EveryCallIsAnswered, Matched
<1>2. QED
  BY <1>1, Conversation, PTL

\* What is returned is the model's last text, older than tool results only at the
\* turn limit (the exits of answer()).
THEOREM LastWordIsReturned == Spec => []AnswerIsTheLastWord
<1>1. Talk => AnswerIsTheLastWord
  BY DEF Talk
<1>2. QED
  BY <1>1, Conversation, PTL

\* groq's forced tool_choice ends its loop in two turns, whatever MAX_TURNS is.
THEOREM GroqNeedsTwoTurns == Spec => []GroqAnswersNext
<1>1. Talk => GroqAnswersNext
  BY DEF Talk
<1>2. QED
  BY <1>1, Conversation, PTL
=============================================================================
