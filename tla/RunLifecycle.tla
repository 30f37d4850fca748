---------------------------- MODULE RunLifecycle ----------------------------
(***************************************************************************)
(* What a run promises, with no Store protocol in sight: a status, a log   *)
(* of events that is only ever appended to, and a succession of owners.    *)
(*                                                                         *)
(* The log is open while the current ownership may add to it.  The event   *)
(* that announces an interruption or an end closes it; the status follows  *)
(* the log, whoever the owner is by then.  Only taking over an interrupted *)
(* run opens a closed log again, and an ended run stays ended.             *)
(***************************************************************************)
EXTENDS Naturals, Sequences

CONSTANTS
  EventTypes,   \* types of the events of a run
  EndTypes      \* those that end it; each is also the status it leads to

VARIABLES status, owner, log, open
vars == <<status, owner, log, open>>

Init ==
  /\ status = "absent" /\ owner = 0
  /\ log = <<>> /\ open = FALSE

Begin ==
  /\ status = "absent"
  /\ status' = "running" /\ owner' = 1 /\ open' = TRUE
  /\ UNCHANGED log

Record(type) ==
  /\ status = "running" /\ open
  /\ log' = Append(log, type)
  /\ open' = (type \notin EndTypes \cup {"interrupted"})
  /\ UNCHANGED <<status, owner>>

TakeOver ==
  /\ status \in {"running", "interrupted"}
  /\ status' = "running" /\ owner' = owner + 1
  /\ open' = (open \/ status = "interrupted")
  /\ UNCHANGED log

\* The status catches up with a closed log.
Suspend ==
  /\ status = "running" /\ ~open /\ log[Len(log)] = "interrupted"
  /\ status' = "interrupted"
  /\ UNCHANGED <<owner, log, open>>

End ==
  /\ status = "running" /\ ~open /\ log[Len(log)] \in EndTypes
  /\ status' = log[Len(log)]
  /\ UNCHANGED <<owner, log, open>>

Next ==
  \/ Begin \/ TakeOver \/ Suspend \/ End
  \/ \E type \in EventTypes : Record(type)

Spec == Init /\ [][Next]_vars
=============================================================================
