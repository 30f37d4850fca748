---------------------------- MODULE AgentHandler ----------------------------
(***************************************************************************)
(* The handler that serves an agent over the Agent Client Protocol         *)
(* (src/acp/acp.go): its sessions, the prompts that run in them, and the   *)
(* cancel notifications that arrive beside them.  Every request and every  *)
(* notification is a goroutine of its own; the handler's mutex makes one   *)
(* step of each locked region, and what happens outside of it is a step    *)
(* for itself: a prompt's result is judged after the agent returned, and a *)
(* notification looks its prompt up, marks it, and cancels it in turn.     *)
(*                                                                         *)
(* The agent and the connection are not part of the handler.  An agent may *)
(* return a result or an error of its own at any time, and the context's   *)
(* error once its context is done; the client may go away, which ends the  *)
(* context of every request without any notification.                      *)
(***************************************************************************)
EXTENDS Naturals, FiniteSets

CONSTANTS
  Sessions,  \* bound: the session names that the handler may draw
  Prompts,   \* bound: the prompt requests of the client
  Cancels,   \* bound: the cancel notifications of the client
  None       \* nil: no prompt

Missing == "missing"

ASSUME NoneIsNoPrompt == None \notin Prompts /\ Missing \notin Prompts

VARIABLES
  ready,      \* handler.ready: Initialize has been answered
  sessions,   \* handler.sessions: Missing, or the prompt that is active
  prompts,    \* [pc, session, canceled, err, answer] of each prompt request;
              \* err is in Errors, answer none, end_turn, canceled, error or refused
  done,       \* the prompts whose context is done
  cancels,    \* [pc, active] of each cancel notification
  gone,       \* the client has gone away
  hit         \* history: the prompts that a notification found active

vars == <<ready, sessions, prompts, done, cancels, gone, hit>>

Errors == {"none", "own", "context"}

Init ==
  /\ ready = FALSE
  /\ sessions = [s \in Sessions |-> Missing]
  /\ prompts = [p \in Prompts |-> [pc |-> "new", session |-> Missing, canceled |-> FALSE,
                                   err |-> "none", answer |-> "none"]]
  /\ done = {}
  /\ cancels = [c \in Cancels |-> [pc |-> "new", active |-> None]]
  /\ gone = FALSE
  /\ hit = {}

-----------------------------------------------------------------------------
(* Requests that set the handler up. *)

Initialize ==
  /\ ~ gone
  /\ ready' = TRUE
  /\ UNCHANGED <<sessions, prompts, done, cancels, gone, hit>>

NewSession(s) ==
  /\ ~ gone
  /\ ready
  /\ sessions[s] = Missing
  /\ sessions' = [sessions EXCEPT ![s] = None]
  /\ UNCHANGED <<ready, prompts, done, cancels, gone, hit>>

-----------------------------------------------------------------------------
(* A prompt. *)

(* Fault: a prompt takes the session over from the one that is active.     *)
StartPromptFaultTakes(p, s) ==
  /\ prompts[p].pc = "new"
  /\ sessions[s] # Missing
  /\ sessions' = [sessions EXCEPT ![s] = p]
  /\ prompts' = [prompts EXCEPT ![p].pc = "started", ![p].session = s]
  /\ done' = IF gone THEN done \cup {p} ELSE done
  /\ UNCHANGED <<ready, cancels, gone, hit>>

(* startPrompt: the prompt becomes the session's, or is refused.  A client *)
(* that went away left requests behind whose context is done.              *)
StartPrompt(p, s) ==
  /\ prompts[p].pc = "new"
  /\ \/ /\ sessions[s] = None
        /\ sessions' = [sessions EXCEPT ![s] = p]
        /\ prompts' = [prompts EXCEPT ![p].pc = "started", ![p].session = s]
        /\ done' = IF gone THEN done \cup {p} ELSE done
     \/ /\ sessions[s] # None
        /\ prompts' = [prompts EXCEPT ![p].pc = "answered", ![p].answer = "refused"]
        /\ done' = done \cup {p}
        /\ UNCHANGED sessions
  /\ UNCHANGED <<ready, cancels, gone, hit>>

(* promptRequest: content that the agent cannot take is an error.          *)
ReadPrompt(p) ==
  /\ prompts[p].pc = "started"
  /\ \/ prompts' = [prompts EXCEPT ![p].pc = "invoking"]
     \/ prompts' = [prompts EXCEPT ![p].pc = "finishing", ![p].answer = "error"]
  /\ UNCHANGED <<ready, sessions, done, cancels, gone, hit>>

(* The agent's call, streaming or not, and the updates sent to the client. *)
AgentReturns(p, err) ==
  /\ prompts[p].pc = "invoking"
  /\ err = "context" => p \in done
  /\ prompts' = [prompts EXCEPT ![p].pc = "judging", ![p].err = err]
  /\ UNCHANGED <<ready, sessions, done, cancels, gone, hit>>

(* Fault: an error is answered before the mark is read.                    *)
AnswerOfFaultErrorFirst(p) ==
  IF prompts[p].err # "none" THEN "error"
  ELSE IF prompts[p].canceled THEN "canceled" ELSE "end_turn"

(* promptError and promptResult read the mark once the agent returned.     *)
AnswerOf(p) ==
  IF prompts[p].canceled THEN "canceled"
  ELSE IF prompts[p].err # "none" THEN "error" ELSE "end_turn"

JudgePrompt(p) ==
  /\ prompts[p].pc = "judging"
  /\ prompts' = [prompts EXCEPT ![p].pc = "finishing", ![p].answer = AnswerOf(p)]
  /\ UNCHANGED <<ready, sessions, done, cancels, gone, hit>>

(* The deferred cancel and finishPrompt; then the answer is sent.          *)
FinishPrompt(p) ==
  /\ prompts[p].pc = "finishing"
  /\ done' = done \cup {p}
  /\ sessions' = IF sessions[prompts[p].session] = p
                 THEN [sessions EXCEPT ![prompts[p].session] = None] ELSE sessions
  /\ prompts' = [prompts EXCEPT ![p].pc = "answered"]
  /\ UNCHANGED <<ready, cancels, gone, hit>>

-----------------------------------------------------------------------------
(* A cancel notification. *)

LookUp(c, s) ==
  /\ cancels[c].pc = "new"
  /\ cancels' = [cancels EXCEPT ![c] =
       IF sessions[s] \in Prompts THEN [pc |-> "found", active |-> sessions[s]]
                                  ELSE [pc |-> "over", active |-> None]]
  /\ hit' = hit \cup ({sessions[s]} \cap Prompts)
  /\ UNCHANGED <<ready, sessions, prompts, done, gone>>

(* The mark is set before the context ends.                                *)
Mark(c) ==
  /\ cancels[c].pc = "found"
  /\ prompts' = [prompts EXCEPT ![cancels[c].active].canceled = TRUE]
  /\ cancels' = [cancels EXCEPT ![c].pc = "marked"]
  /\ UNCHANGED <<ready, sessions, done, gone, hit>>

EndContext(c) ==
  /\ cancels[c].pc = "marked"
  /\ done' = done \cup {cancels[c].active}
  /\ cancels' = [cancels EXCEPT ![c].pc = "over"]
  /\ UNCHANGED <<ready, sessions, prompts, gone, hit>>

(* The connection ends: so do the contexts of the requests it carried.     *)
ClientGone ==
  /\ ~ gone
  /\ gone' = TRUE
  /\ done' = done \cup {p \in Prompts : prompts[p].pc # "new"}
  /\ UNCHANGED <<ready, sessions, prompts, cancels, hit>>

Next ==
  \/ Initialize
  \/ \E s \in Sessions : NewSession(s)
  \/ \E p \in Prompts, s \in Sessions : StartPrompt(p, s)
  \/ \E p \in Prompts : ReadPrompt(p) \/ JudgePrompt(p) \/ FinishPrompt(p)
  \/ \E p \in Prompts, err \in Errors : AgentReturns(p, err)
  \/ \E c \in Cancels, s \in Sessions : LookUp(c, s)
  \/ \E c \in Cancels : Mark(c) \/ EndContext(c)
  \/ ClientGone

Spec == Init /\ [][Next]_vars

-----------------------------------------------------------------------------
(* Properties. *)

Running(p) == prompts[p].pc \in {"started", "invoking", "judging", "finishing"}

(* A session is held by the prompt that runs in it and by no other: two    *)
(* agents never run in one session, and no way out of a prompt leaves its  *)
(* session taken.  Code: startPrompt, finishPrompt and the deferred call   *)
(* in Prompt, acp.go:101, 136, 149.                                        *)
SessionsHoldWhatRuns ==
  \A p \in Prompts, s \in Sessions :
    sessions[s] = p <=> Running(p) /\ prompts[p].session = s

(* Canceling is attributed: only a prompt that a notification found in its *)
(* session is answered as canceled, so that a notification slow to act     *)
(* cannot reach the prompt that follows; and the error that ending a       *)
(* context causes is answered only when the client went away, never when   *)
(* it is a notification's doing.  Code: the mark on the prompt, stored     *)
(* before its context ends, in Cancel, and promptError, acp.go:125, 157.   *)
CancellationsAreAttributed ==
  \A p \in Prompts :
    /\ prompts[p].answer = "canceled" => p \in hit
    /\ prompts[p].answer = "error" /\ prompts[p].err = "context" => gone

=============================================================================
