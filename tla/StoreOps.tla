------------------------------ MODULE StoreOps ------------------------------
(***************************************************************************)
(* The decisions of the authoritative workflow Store, as pure operators.   *)
(*                                                                         *)
(* MemoryCheckpointer (workflow/checkpoint_store.go) holds one mutex over  *)
(* every operation, reads its clock while holding it, decides, and either  *)
(* returns an error or installs a whole new head record.  Each operation   *)
(* is therefore two operators here: an Outcome, the error it returns or    *)
(* "ok", in the order the code tests for them, and the record it installs. *)
(* CheckpointStore drives them with arbitrary callers and a clock;         *)
(* WorkflowRun drives them with the executions that really call them.      *)
(*                                                                         *)
(* A record is the part of CheckpointRecord the decisions read:            *)
(*   id       the identity fields compared by sameCheckpointIdentity       *)
(*   version, status, owner (OwnerID), claim (ClaimSequence),              *)
(*   expires  LeaseExpiresAt; 0 is the zero time                           *)
(*   body     everything else (payload, ConfirmedSequence, ...), never     *)
(*            read by the Store                                            *)
(* A run with no record has the record of version 0.                       *)
(***************************************************************************)
EXTENDS Naturals

\* XFaultY is a seeded fault: a plausible wrong version of X, which no
\* specification uses, kept to show that the properties would notice it.

NoOwner == "none"               \* OwnerID == ""

TerminalStatuses == {"completed", "failed", "canceled", "terminated"}
Statuses == {"running", "interrupted"} \cup TerminalStatuses

checkpointTerminal(status) == status \in TerminalStatuses

Exists(rec) == rec.version > 0

sameCheckpointIdentity(left, right) == left.id = right.id

\* LeaseExpiresAt.After(now)
Unexpired(rec, now) == rec.expires > now

\* leaseExpiry for the only durations the runtime passes, positive ones: the
\* expiry is derived from the Store's own clock.
leaseExpiry(now, duration) == now + duration

Later(a, b) == IF a > b THEN a ELSE b

-----------------------------------------------------------------------------

CreateOutcome(current, rec) ==
  IF rec.version # 1 \/ rec.status # "running" THEN "invalid"
  ELSE IF Exists(current) THEN "exists"
  ELSE "ok"

Created(rec, now, duration) ==
  [rec EXCEPT !.expires = leaseExpiry(now, duration)]

\* Fault: claims over a lease that still runs.
ClaimOutcomeFaultEager(current, candidate, now) ==
  IF ~Exists(current) THEN "notFound"
  ELSE IF \/ current.version # candidate.version
          \/ current.status \notin {"running", "interrupted"}
          \/ candidate.claim # current.claim + 1
  THEN "conflict"
  ELSE "ok"

\* Fault: does not compare the version and the claim it was computed from.
ClaimOutcomeFaultStale(current, candidate, now) ==
  IF ~Exists(current) THEN "notFound"
  ELSE IF \/ current.status \notin {"running", "interrupted"}
          \/ Unexpired(current, now)
  THEN "conflict"
  ELSE "ok"

\* Fault: does not look at the status.
ClaimOutcomeFaultRevive(current, candidate, now) ==
  IF ~Exists(current) THEN "notFound"
  ELSE IF \/ current.version # candidate.version
          \/ Unexpired(current, now)
          \/ candidate.claim # current.claim + 1
  THEN "conflict"
  ELSE "ok"

ClaimOutcome(current, candidate, now) ==
  IF \/ candidate.version = 0
     \/ candidate.status # "running"
     \/ candidate.owner = NoOwner
     \/ candidate.claim = 0
  THEN "invalid"
  ELSE IF ~Exists(current) THEN "notFound"
  ELSE IF \/ current.version # candidate.version
          \/ current.status \notin {"running", "interrupted"}
  THEN "conflict"
  ELSE IF ~sameCheckpointIdentity(current, candidate) THEN "mismatch"
  ELSE IF Unexpired(current, now) \/ candidate.claim # current.claim + 1
  THEN "conflict"
  ELSE "ok"

Claimed(candidate, now, duration) ==
  [candidate EXCEPT !.version = @ + 1, !.expires = leaseExpiry(now, duration)]

\* Fault: renews for whoever asks.
RenewOutcomeFaultAnyone(current, owner, claim, now) ==
  IF Exists(current) /\ current.status = "running" /\ Unexpired(current, now)
  THEN "ok"
  ELSE "leaseLost"

RenewOutcome(current, owner, claim, now) ==
  IF owner = NoOwner \/ claim = 0 THEN "invalid"
  ELSE IF /\ Exists(current)
          /\ current.status = "running"
          /\ current.owner = owner
          /\ current.claim = claim
          /\ Unexpired(current, now)
  THEN "ok"
  ELSE "leaseLost"

\* Fault: a renewal makes a version, but no history.
RenewedFaultVersion(current, now, duration) ==
  [current EXCEPT !.version = @ + 1,
                  !.expires = Later(@, leaseExpiry(now, duration))]

\* A renewal that would not extend the lease leaves the record alone.
Renewed(current, now, duration) ==
  [current EXCEPT !.expires = Later(@, leaseExpiry(now, duration))]

\* write: the shared body of Save and Finish.
WriteOutcome(current, rec, terminal, now) ==
  IF rec.version = 0 THEN "conflict"
  ELSE IF terminal # checkpointTerminal(rec.status) THEN "invalid"
  ELSE IF ~Exists(current) THEN "notFound"
  ELSE IF ~sameCheckpointIdentity(current, rec) THEN "mismatch"
  ELSE IF \/ rec.claim # current.claim
          \/ rec.owner # NoOwner /\ rec.owner # current.owner
  THEN "leaseLost"
  ELSE IF current.owner # NoOwner /\ ~Unexpired(current, now) THEN "leaseLost"
  ELSE IF checkpointTerminal(current.status) THEN "conflict"
  ELSE IF current.version # rec.version THEN "conflict"
  ELSE "ok"

\* Fault: the lease of a Save starts to run when it was asked for, for no time.
WrittenFaultNoDuration(current, rec, now, duration) ==
  [rec EXCEPT !.version = @ + 1,
              !.expires = IF rec.owner = NoOwner THEN 0 ELSE leaseExpiry(now, 0)]

\* A record without an owner drops the lease; one with an owner keeps the
\* later of the stored expiry (a concurrent renewal) and a fresh one.
Written(current, rec, now, duration) ==
  [rec EXCEPT !.version = @ + 1,
              !.expires = IF rec.owner = NoOwner THEN 0
                          ELSE Later(current.expires,
                                     leaseExpiry(now, duration))]

\* Fault: any unexpired lease of the run is good enough.
FenceOutcomeFaultAnyone(current, owner, claim, now) ==
  IF owner = NoOwner \/ claim = 0 THEN "invalid"
  ELSE IF Exists(current) /\ current.status = "running" /\ Unexpired(current, now)
  THEN "ok"
  ELSE "leaseLost"

\* AppendFenced: the ownership test made before MemoryLog.Append.
FenceOutcome(current, owner, claim, now) ==
  IF owner = NoOwner \/ claim = 0 THEN "invalid"
  ELSE IF /\ Exists(current)
          /\ current.status = "running"
          /\ current.owner = owner
          /\ current.claim = claim
          /\ Unexpired(current, now)
  THEN "ok"
  ELSE "leaseLost"
=============================================================================
