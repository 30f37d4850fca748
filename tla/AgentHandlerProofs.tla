------------------------- MODULE AgentHandlerProofs -------------------------
(***************************************************************************)
(* Proofs about AgentHandler, for any number of sessions, prompts and      *)
(* cancel notifications.                                                   *)
(***************************************************************************)
EXTENDS AgentHandler, TLAPS

PromptSteps == {"new", "started", "invoking", "judging", "finishing", "answered"}
PromptAnswers == {"none", "end_turn", "canceled", "error", "refused"}
PromptRecords ==
  [pc : PromptSteps, session : Sessions \cup {Missing}, canceled : BOOLEAN,
   err : Errors, answer : PromptAnswers]
CancelRecords == [pc : {"new", "found", "marked", "over"}, active : Prompts \cup {None}]

(* The types, with what a notification that is under way must hold.        *)
HandlerType ==
  /\ ready \in BOOLEAN
  /\ sessions \in [Sessions -> Prompts \cup {None, Missing}]
  /\ prompts \in [Prompts -> PromptRecords]
  /\ done \subseteq Prompts
  /\ cancels \in [Cancels -> CancelRecords]
  /\ \A c \in Cancels : cancels[c].pc \in {"found", "marked"} => cancels[c].active \in Prompts
  /\ gone \in BOOLEAN
  /\ hit \subseteq Prompts

(* Of prompt p: it has no answer and no error before its time; its mark is *)
(* a notification's; its context ends because of its mark, the client or   *)
(* its own end, and what the agent says of the context goes back to that.  *)
PromptHistory(p) ==
  /\ prompts[p].pc \in {"new", "started", "invoking"} => prompts[p].err = "none"
  /\ prompts[p].pc \in {"new", "started", "invoking", "judging"} => prompts[p].answer = "none"
  /\ prompts[p].canceled => p \in hit
  /\ p \in done => gone \/ prompts[p].canceled \/ prompts[p].pc = "answered"
  /\ prompts[p].err = "context" => gone \/ prompts[p].canceled

(* Of notification c: it found its prompt in a session, and marks it       *)
(* before it ends its context.                                             *)
CancelHistory(c) ==
  /\ cancels[c].pc \in {"found", "marked"} => cancels[c].active \in hit
  /\ cancels[c].pc = "marked" => prompts[cancels[c].active].canceled

(* What makes CancellationsAreAttributed inductive.                        *)
Attribution ==
  /\ CancellationsAreAttributed
  /\ \A p \in Prompts : PromptHistory(p)
  /\ \A c \in Cancels : CancelHistory(c)

-----------------------------------------------------------------------------

(* A prompt that moves on, is answered or marked is still one.             *)
LEMMA PromptIsUpdated ==
  ASSUME NEW r \in PromptRecords, NEW step \in PromptSteps,
         NEW err \in Errors, NEW answer \in PromptAnswers
  PROVE  /\ [r EXCEPT !.pc = step, !.answer = answer] \in PromptRecords
         /\ [r EXCEPT !.pc = step, !.err = err] \in PromptRecords
         /\ [r EXCEPT !.pc = step] \in PromptRecords
         /\ [r EXCEPT !.canceled = TRUE] \in PromptRecords
  BY DEF PromptRecords

(* Every step of the handler is typed.                                     *)
LEMMA HandlerTypeIsInductive ==
  ASSUME HandlerType, [Next]_vars
  PROVE  HandlerType'
  <1> USE DEF HandlerType
  <1>1. CASE Initialize
    BY <1>1 DEF Initialize
  <1>2. ASSUME NEW s \in Sessions, NewSession(s) PROVE HandlerType'
    BY <1>2 DEF NewSession
  <1>3. ASSUME NEW p \in Prompts, NEW s \in Sessions, StartPrompt(p, s) PROVE HandlerType'
    BY <1>3 DEF StartPrompt, PromptRecords, PromptSteps, PromptAnswers
  <1>4. ASSUME NEW p \in Prompts, ReadPrompt(p) PROVE HandlerType'
    BY <1>4 DEF ReadPrompt, PromptRecords, PromptSteps, PromptAnswers
  <1>5. ASSUME NEW p \in Prompts, JudgePrompt(p) PROVE HandlerType'
    <2>1. AnswerOf(p) \in PromptAnswers
      BY DEF AnswerOf, PromptAnswers
    <2>2. [prompts[p] EXCEPT !.pc = "finishing", !.answer = AnswerOf(p)] \in PromptRecords
      BY <2>1, prompts[p] \in PromptRecords, "none" \in Errors, PromptIsUpdated
      DEF PromptSteps, Errors
    <2>3. prompts' \in [Prompts -> PromptRecords]
      BY <1>5, <2>2, Zenon DEF JudgePrompt
    <2> QED
      BY <1>5, <2>3 DEF JudgePrompt
  <1>6. ASSUME NEW p \in Prompts, FinishPrompt(p) PROVE HandlerType'
    <2>1. [prompts[p] EXCEPT !.pc = "answered"] \in PromptRecords
      BY prompts[p] \in PromptRecords, "none" \in Errors, "none" \in PromptAnswers,
         PromptIsUpdated DEF PromptSteps, Errors, PromptAnswers
    <2>2. prompts' \in [Prompts -> PromptRecords]
      BY <1>6, <2>1, Zenon DEF FinishPrompt
    <2> QED
      BY <1>6, <2>2 DEF FinishPrompt
  <1>7. ASSUME NEW p \in Prompts, NEW err \in Errors, AgentReturns(p, err) PROVE HandlerType'
    <2>1. [prompts[p] EXCEPT !.pc = "judging", !.err = err] \in PromptRecords
      BY prompts[p] \in PromptRecords, "none" \in Errors, "none" \in PromptAnswers,
         PromptIsUpdated DEF PromptSteps, Errors, PromptAnswers
    <2>2. prompts' \in [Prompts -> PromptRecords]
      BY <1>7, <2>1, Zenon DEF AgentReturns
    <2> QED
      BY <1>7, <2>2 DEF AgentReturns
  <1>8. ASSUME NEW c \in Cancels, NEW s \in Sessions, LookUp(c, s) PROVE HandlerType'
    BY <1>8 DEF LookUp, CancelRecords
  <1>9. ASSUME NEW c \in Cancels, Mark(c) PROVE HandlerType'
    <2> DEFINE p == cancels[c].active
    <2>1. p \in Prompts
      BY <1>9 DEF Mark
    <2>2. [prompts[p] EXCEPT !.canceled = TRUE] \in PromptRecords
      BY <2>1, PromptIsUpdated DEF PromptSteps, PromptAnswers, Errors
    <2>3. prompts' \in [Prompts -> PromptRecords]
      BY <1>9, <2>2, Zenon DEF Mark
    <2>4. cancels' \in [Cancels -> CancelRecords]
      BY <1>9 DEF Mark, CancelRecords
    <2> QED
      BY <1>9, <2>3, <2>4 DEF Mark, CancelRecords
  <1>10. ASSUME NEW c \in Cancels, EndContext(c) PROVE HandlerType'
    BY <1>10 DEF EndContext, CancelRecords
  <1>11. CASE ClientGone
    BY <1>11 DEF ClientGone
  <1>12. CASE UNCHANGED vars
    BY <1>12 DEF vars
  <1> QED
    BY <1>1, <1>2, <1>3, <1>4, <1>5, <1>6, <1>7, <1>8, <1>9, <1>10, <1>11, <1>12 DEF Next

(* Every reachable state of the handler is typed, and a notification under *)
(* way holds the prompt it found.                                          *)
THEOREM HandlerTypeCorrect == Spec => []HandlerType
  <1>1. Init => HandlerType
    <2> SUFFICES ASSUME Init PROVE HandlerType
      OBVIOUS
    <2>1. [pc |-> "new", session |-> Missing, canceled |-> FALSE, err |-> "none",
           answer |-> "none"] \in PromptRecords
      BY DEF PromptRecords, PromptSteps, PromptAnswers, Errors
    <2>2. prompts \in [Prompts -> PromptRecords]
      BY <2>1 DEF Init
    <2>3. cancels \in [Cancels -> CancelRecords]
      BY DEF Init, CancelRecords
    <2> QED
      BY <2>2, <2>3 DEF Init, HandlerType
  <1>2. HandlerType /\ [Next]_vars => HandlerType'
    BY HandlerTypeIsInductive
  <1> QED
    BY <1>1, <1>2, PTL DEF Spec

-----------------------------------------------------------------------------

(* startPrompt takes a session only when no prompt holds it, finishPrompt  *)
(* frees it only for its own prompt: with any number of prompts in any     *)
(* order, a session holds exactly the prompt that runs in it.              *)
THEOREM SessionsAreHeld == Spec => []SessionsHoldWhatRuns
  <1>1. Init => SessionsHoldWhatRuns
    BY NoneIsNoPrompt DEF Init, SessionsHoldWhatRuns, Running
  <1>2. ASSUME HandlerType, SessionsHoldWhatRuns, [Next]_vars
        PROVE  SessionsHoldWhatRuns'
    <2> USE <1>2, NoneIsNoPrompt
        DEF HandlerType, PromptRecords, PromptSteps, SessionsHoldWhatRuns, Running
    <2>1. ASSUME NEW s \in Sessions, NewSession(s) PROVE SessionsHoldWhatRuns'
      BY <2>1 DEF NewSession
    <2>2. ASSUME NEW p \in Prompts, NEW s \in Sessions, StartPrompt(p, s)
          PROVE  SessionsHoldWhatRuns'
      BY <2>2 DEF StartPrompt
    <2>3. ASSUME NEW p \in Prompts, ReadPrompt(p) \/ JudgePrompt(p)
          PROVE  SessionsHoldWhatRuns'
      BY <2>3 DEF ReadPrompt, JudgePrompt
    <2>4. ASSUME NEW p \in Prompts, NEW err \in Errors, AgentReturns(p, err)
          PROVE  SessionsHoldWhatRuns'
      BY <2>4 DEF AgentReturns
    <2>5. ASSUME NEW p \in Prompts, FinishPrompt(p) PROVE SessionsHoldWhatRuns'
      BY <2>5 DEF FinishPrompt
    <2>6. ASSUME NEW c \in Cancels, Mark(c) PROVE SessionsHoldWhatRuns'
      BY <2>6 DEF Mark
    <2>7. CASE UNCHANGED <<sessions, prompts>>
      BY <2>7
    <2> QED
      BY <2>1, <2>2, <2>3, <2>4, <2>5, <2>6, <2>7
      DEF Next, vars, Initialize, LookUp, EndContext, ClientGone
  <1> QED
    BY <1>1, <1>2, HandlerTypeCorrect, PTL DEF Spec

-----------------------------------------------------------------------------

(* AgentReturns changes two fields of one prompt.                          *)
LEMMA ReturnIsOneUpdate ==
  ASSUME NEW f, NEW p \in Prompts, NEW err, f \in [Prompts -> PromptRecords]
  PROVE  [f EXCEPT ![p].pc = "judging", ![p].err = err]
           = [f EXCEPT ![p] = [f[p] EXCEPT !.pc = "judging", !.err = err]]
  <1> DEFINE g == [f EXCEPT ![p].pc = "judging"]
  <1>1. g[p] = [f[p] EXCEPT !.pc = "judging"]
    BY Zenon
  <1>2. [g EXCEPT ![p].err = err] = [g EXCEPT ![p] = [g[p] EXCEPT !.err = err]]
    BY Zenon
  <1> HIDE DEF g
  <1> QED
    BY <1>1, <1>2, Zenon DEF g

(* The steps of a prompt keep the attribution.                             *)
LEMMA PromptsKeepAttribution ==
  ASSUME HandlerType, Attribution, NEW p \in Prompts,
         \/ \E s \in Sessions : StartPrompt(p, s)
         \/ ReadPrompt(p) \/ JudgePrompt(p) \/ FinishPrompt(p)
         \/ \E err \in Errors : AgentReturns(p, err)
  PROVE  Attribution'
  <1> USE DEF HandlerType, PromptRecords, PromptSteps, CancelRecords, Attribution,
              CancellationsAreAttributed, PromptHistory, CancelHistory
  <1>1. ASSUME NEW s \in Sessions, StartPrompt(p, s) PROVE Attribution'
    <2>1. /\ prompts'[p].canceled = prompts[p].canceled /\ prompts'[p].err = "none"
          /\ \/ prompts'[p].pc = "started" /\ prompts'[p].answer = "none"
             \/ prompts'[p].pc = "answered" /\ prompts'[p].answer = "refused"
      BY <1>1 DEF StartPrompt
    <2>2. \A q \in Prompts \ {p} : prompts'[q] = prompts[q]
      BY <1>1 DEF StartPrompt
    <2>3. /\ done' \subseteq done \cup {p}
          /\ p \in done' => gone \/ prompts[p].canceled \/ prompts'[p].pc = "answered"
      BY <1>1 DEF StartPrompt
    <2> QED
      BY <1>1, <2>1, <2>2, <2>3 DEF StartPrompt
  <1>2. CASE ReadPrompt(p)
    BY <1>2 DEF ReadPrompt
  <1>3. CASE JudgePrompt(p)
    BY <1>3 DEF JudgePrompt, AnswerOf
  <1>4. CASE FinishPrompt(p)
    BY <1>4 DEF FinishPrompt
  <1>5. ASSUME NEW err \in Errors, AgentReturns(p, err) PROVE Attribution'
    <2>1. prompts' = [prompts EXCEPT ![p] = [prompts[p] EXCEPT !.pc = "judging", !.err = err]]
      BY <1>5, ReturnIsOneUpdate DEF AgentReturns
    <2>2. /\ prompts'[p].canceled = prompts[p].canceled /\ prompts'[p].err = err
          /\ prompts'[p].pc = "judging" /\ prompts'[p].answer = prompts[p].answer
      BY <2>1, p \in Prompts, prompts[p] \in PromptRecords, prompts \in [Prompts -> PromptRecords]
    <2>3. prompts[p].answer = "none" /\ (p \in done => gone \/ prompts[p].canceled)
      BY <1>5, PromptHistory(p) DEF AgentReturns
    <2>4. /\ err = "context" => gone \/ prompts[p].canceled
          /\ UNCHANGED <<cancels, done, gone, hit>>
      BY <1>5, <2>3 DEF AgentReturns
    <2>5. \A q \in Prompts \ {p} : prompts'[q] = prompts[q]
      BY <2>1
    <2>6. \A q \in Prompts : PromptHistory(q)'
      BY <2>2, <2>3, <2>4, <2>5
    <2>7. CancellationsAreAttributed'
      BY <2>2, <2>3, <2>4, <2>5
    <2>8. \A c \in Cancels : CancelHistory(c)'
      BY <2>2, <2>4, <2>5
    <2> QED
      BY <2>6, <2>7, <2>8
  <1> QED
    BY <1>1, <1>2, <1>3, <1>4, <1>5

(* The steps of a notification keep the attribution.                       *)
LEMMA CancelsKeepAttribution ==
  ASSUME HandlerType, Attribution, NEW c \in Cancels,
         \/ \E s \in Sessions : LookUp(c, s)
         \/ Mark(c) \/ EndContext(c)
  PROVE  Attribution'
  <1> USE DEF HandlerType, PromptRecords, PromptSteps, CancelRecords, Attribution,
              CancellationsAreAttributed, PromptHistory, CancelHistory
  <1>1. ASSUME NEW s \in Sessions, LookUp(c, s) PROVE Attribution'
    BY <1>1 DEF LookUp
  <1>2. CASE Mark(c)
    BY <1>2 DEF Mark
  <1>3. CASE EndContext(c)
    BY <1>3 DEF EndContext
  <1> QED
    BY <1>1, <1>2, <1>3

(* A cancellation is answered to the prompt a notification found, however  *)
(* slow the notification, and the error of an ended context only when the  *)
(* client went away: promptError reads the mark that Cancel stored before  *)
(* it ended the context.                                                   *)
THEOREM CancellationsAreTrue == Spec => []CancellationsAreAttributed
  <1>1. Init => Attribution
    BY DEF Init, Attribution, CancellationsAreAttributed, PromptHistory, CancelHistory
  <1>2. ASSUME HandlerType, Attribution, [Next]_vars
        PROVE  Attribution'
    <2>1. ASSUME UNCHANGED <<prompts, cancels, done, hit>>, gone => gone'
          PROVE  Attribution'
      BY <1>2, <2>1 DEF Attribution, CancellationsAreAttributed, PromptHistory, CancelHistory
    <2>2. CASE ClientGone
      BY <1>2, <2>2 DEF ClientGone, Attribution, CancellationsAreAttributed,
                        PromptHistory, CancelHistory
    <2> QED
      BY <1>2, <2>1, <2>2, PromptsKeepAttribution, CancelsKeepAttribution
      DEF Next, vars, Initialize, NewSession
  <1>3. Attribution => CancellationsAreAttributed
    BY DEF Attribution
  <1> QED
    BY <1>1, <1>2, <1>3, HandlerTypeCorrect, PTL DEF Spec

=============================================================================
