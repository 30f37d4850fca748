--------------------------- MODULE CheckpointStore ---------------------------
(***************************************************************************)
(* The slice of workflow.MemoryStore that belongs to one RunID, driven by  *)
(* concurrent invocations and a clock.                                     *)
(*                                                                         *)
(* Every Store method runs under one mutex, so each is one action.  The    *)
(* invocations are the callers: each has a unique OwnerID, keeps the last  *)
(* record it was given (execution.checkpoint) and may act on it long after *)
(* it became stale.  An invocation that crashes just stops taking steps.   *)
(* A call that returns an error changes nothing and is not an action.      *)
(***************************************************************************)
EXTENDS StoreOps, Sequences

CONSTANTS
  Owners,        \* OwnerIDs, one per invocation (generateID(IDKindOwner))
  Identities,    \* values of the identity fields of a record
  Contents,      \* contents of journal records, compared by DeepEqual
  Duration,      \* WithCheckpointLease duration
  MaxTime,       \* bound on the clock
  MaxVersion,    \* bound on checkpoint versions
  MaxSequence    \* bound on journal sequences

ASSUME OwnersAssumption == NoOwner \notin Owners
ASSUME IdentitiesAssumption == Identities # {}
ASSUME BoundsAssumption ==
  /\ Duration \in Nat \ {0}
  /\ MaxTime \in Nat
  /\ MaxVersion \in Nat
  /\ MaxSequence \in Nat

VARIABLES
  now,       \* the Store's clock
  head,      \* records[RunID]; version 0 when absent
  history,   \* history[RunID]
  journal,   \* MemoryLog records of the run, in append order
  phase,     \* invocation -> "new", "loaded", "holding" or "done"
  ckpt,      \* invocation -> execution.checkpoint, its copy of the record
  until      \* invocation -> expiry of the lease the last reply granted it

vars == <<now, head, history, journal, phase, ckpt, until>>

Record ==
  [id : Identities, version : Nat, status : Statuses,
   owner : Owners \cup {NoOwner}, claim : Nat, expires : Nat]

\* One RunLog record.  by is the claim of the fence it was appended under, 0
\* for an append that was not fenced; it is not part of the stored record.
Entry == [seq : Nat \ {0}, content : Contents, by : Nat]

Absent ==
  [id |-> CHOOSE i \in Identities : TRUE, version |-> 0, status |-> "running",
   owner |-> NoOwner, claim |-> 0, expires |-> 0]

Init ==
  /\ now = 0
  /\ head = Absent
  /\ history = <<>>
  /\ journal = <<>>
  /\ phase = [o \in Owners |-> "new"]
  /\ ckpt = [o \in Owners |-> Absent]
  /\ until = [o \in Owners |-> 0]

-----------------------------------------------------------------------------

\* The Store installs rec as the head and as the next history version.
Install(rec) ==
  /\ head' = rec
  /\ history' = Append(history, rec)

\* The caller replaces execution.checkpoint by rec and learns of its lease.
Remember(o, rec, expiry) ==
  /\ ckpt' = [ckpt EXCEPT ![o] = rec]
  /\ until' = [until EXCEPT ![o] = expiry]

Create(o, i) ==
  LET rec == [id |-> i, version |-> 1, status |-> "running", owner |-> o,
              claim |-> 1, expires |-> leaseExpiry(now, Duration)]
  IN /\ phase[o] = "new"
     /\ CreateOutcome(head, rec) = "ok"
     /\ Install(Created(rec, now, Duration))
     /\ Remember(o, rec, leaseExpiry(now, Duration))
     /\ phase' = [phase EXCEPT ![o] = "holding"]
     /\ UNCHANGED <<now, journal>>

Load(o) ==
  /\ phase[o] \in {"new", "loaded"}
  /\ Exists(head)
  /\ ckpt' = [ckpt EXCEPT ![o] = head]
  /\ phase' = [phase EXCEPT ![o] = "loaded"]
  /\ UNCHANGED <<now, head, history, journal, until>>

\* Claim of the record the caller loaded, as claimCheckpoint builds it.
Claim(o) ==
  LET candidate == [ckpt[o] EXCEPT !.status = "running", !.owner = o,
                                   !.claim = @ + 1,
                                   !.expires = leaseExpiry(now, Duration)]
  IN /\ phase[o] = "loaded"
     /\ head.version < MaxVersion
     /\ ClaimOutcome(head, candidate, now) = "ok"
     /\ Install(Claimed(candidate, now, Duration))
     /\ Remember(o, [candidate EXCEPT !.version = @ + 1],
                 leaseExpiry(now, Duration))
     /\ phase' = [phase EXCEPT ![o] = "holding"]
     /\ UNCHANGED <<now, journal>>

\* The heartbeat renews the claim the invocation started with.  No version,
\* no history entry.
RenewLease(o) ==
  /\ phase[o] = "holding"
  /\ RenewOutcome(head, o, ckpt[o].claim, now) = "ok"
  /\ head' = Renewed(head, now, Duration)
  /\ until' = [until EXCEPT ![o] = leaseExpiry(now, Duration)]
  /\ UNCHANGED <<now, history, journal, phase, ckpt>>

\* The common part of Save and Finish: write rec, derived from ckpt[o].
Write(o, rec, terminal) ==
  /\ phase[o] = "holding"
  /\ head.version < MaxVersion
  /\ WriteOutcome(head, rec, terminal, now) = "ok"
  /\ Install(Written(head, rec, now, Duration))
  /\ UNCHANGED <<now, journal>>

\* A Save returns; the caller's copy becomes what it asked for, one version on.
SaveRecord(o, rec) ==
  /\ Write(o, rec, FALSE)
  /\ Remember(o, [rec EXCEPT !.version = @ + 1],
              IF rec.owner = NoOwner THEN 0 ELSE leaseExpiry(now, Duration))
  /\ UNCHANGED phase

\* saveCheckpoint: the record goes back to running under the owner the
\* caller's copy names, which is nobody once it gave the lease up.
Save(o) ==
  SaveRecord(o, [ckpt[o] EXCEPT !.status = "running",
                                !.expires = leaseExpiry(now, Duration)])

\* releaseCheckpointLease: the owner is cleared and the status kept, unless
\* the caller's copy shows there is nothing left to release.
Release(o) ==
  /\ ckpt[o].owner # NoOwner \/ ckpt[o].expires # 0
  /\ SaveRecord(o, [ckpt[o] EXCEPT !.owner = NoOwner, !.expires = 0])

\* Fault: an interrupted run keeps its owner.
InterruptFaultKeepsOwner(o) ==
  SaveRecord(o, [ckpt[o] EXCEPT !.status = "interrupted"])

\* interruptCheckpoint: interrupted, and the owner cleared.
Interrupt(o) ==
  SaveRecord(o, [ckpt[o] EXCEPT !.status = "interrupted", !.owner = NoOwner,
                                !.expires = 0])

\* finishCheckpoint; the invocation is over.
Finish(o, status) ==
  /\ Write(o, [ckpt[o] EXCEPT !.status = status, !.owner = NoOwner,
                              !.expires = 0], TRUE)
  /\ phase' = [phase EXCEPT ![o] = "done"]
  /\ UNCHANGED <<ckpt, until>>

\* MemoryLog.Append: idempotent by sequence; a different record under a known
\* sequence is a conflict and changes nothing.
JournalAppend(seq, content, by) ==
  IF \E k \in DOMAIN journal : journal[k].seq = seq
  THEN /\ \E k \in DOMAIN journal :
            journal[k].seq = seq /\ journal[k].content = content
       /\ UNCHANGED journal
  ELSE journal' = Append(journal, [seq |-> seq, content |-> content, by |-> by])

AppendFenced(o, seq, content) ==
  /\ phase[o] = "holding"
  /\ FenceOutcome(head, ckpt[o].owner, ckpt[o].claim, now) = "ok"
  /\ JournalAppend(seq, content, ckpt[o].claim)
  /\ UNCHANGED <<now, head, history, phase, ckpt, until>>

\* Lifecycle hooks of a fresh invocation append before there is a checkpoint,
\* so without a fence.
AppendUnfenced(o, seq, content) ==
  /\ phase[o] = "new"
  /\ JournalAppend(seq, content, 0)
  /\ UNCHANGED <<now, head, history, phase, ckpt, until>>

Tick ==
  /\ now < MaxTime
  /\ now' = now + 1
  /\ UNCHANGED <<head, history, journal, phase, ckpt, until>>

Next ==
  \/ Tick
  \/ \E o \in Owners :
       \/ \E i \in Identities : Create(o, i)
       \/ Load(o)
       \/ Claim(o)
       \/ RenewLease(o)
       \/ Save(o)
       \/ Release(o)
       \/ Interrupt(o)
       \/ \E status \in TerminalStatuses : Finish(o, status)
       \/ \E seq \in 1..MaxSequence, content \in Contents :
            AppendFenced(o, seq, content) \/ AppendUnfenced(o, seq, content)

Spec == Init /\ [][Next]_vars

-----------------------------------------------------------------------------

\* The types; and, of a head, that only a running one has an owner and only an
\* owned one a lease.
TypeOK ==
  /\ now \in Nat
  /\ head \in Record
  /\ history \in Seq(Record)
  /\ journal \in Seq(Entry)
  /\ phase \in [Owners -> {"new", "loaded", "holding", "done"}]
  /\ ckpt \in [Owners -> Record]
  /\ until \in [Owners -> Nat]
  /\ head.status # "running" => head.owner = NoOwner
  /\ head.owner = NoOwner => head.expires = 0

\* o has been told that it owns the run and that this is still so: its last
\* reply granted a lease the clock has not passed.
Believes(o) ==
  phase[o] = "holding" /\ ckpt[o].owner = o /\ until[o] > now

\* Two invocations never both believe, each by its own last reply, that they
\* own the run: claims, renewals, saves and releases keep leases disjoint.
\* (MemoryCheckpointer.Claim / RenewLease / write)
ExclusiveOwnership ==
  \A o1, o2 \in Owners : Believes(o1) /\ Believes(o2) => o1 = o2

\* A claim sequence is never granted twice, and none is ahead of the head's.
ClaimsAreUnique ==
  /\ \A o \in Owners : phase[o] = "holding" =>
       /\ ckpt[o].claim \in 1..head.claim
       /\ ckpt[o].owner \in {o, NoOwner}
  /\ \A o1, o2 \in Owners :
       /\ phase[o1] = "holding" /\ phase[o2] = "holding"
       /\ ckpt[o1].claim = ckpt[o2].claim
       => o1 = o2

\* What an invocation that believes it owns the run believes is true of the
\* head: its claim is current, the run is running, and the stored lease lasts
\* at least as long as it was told.
BeliefIsTrue ==
  \A o \in Owners : Believes(o) =>
    /\ head.owner = o
    /\ head.claim = ckpt[o].claim
    /\ head.status = "running"
    /\ head.expires >= until[o]

\* ListCheckpoints returns every version exactly once, in order, the last one
\* being the head up to lease renewals, which make no version; claims never go
\* back along it, and only the last version may be terminal.
\* (MemoryCheckpointer.history)
HistoryIsTheRun ==
  /\ head.version = Len(history)
  /\ \A k \in DOMAIN history : history[k].version = k
  /\ \A k \in DOMAIN history : k > 1 =>
       history[k].claim \in {history[k-1].claim, history[k-1].claim + 1}
  /\ \A k \in DOMAIN history :
       checkpointTerminal(history[k].status) => k = Len(history)
  /\ \A k \in DOMAIN history : k = Len(history) =>
       [history[k] EXCEPT !.expires = 0] = [head EXCEPT !.expires = 0]

\* A record appended under an old claim never lands behind one appended under
\* a newer claim: the journal is ordered by ownership. (AppendFenced)
JournalFollowsOwnership ==
  /\ \A j, k \in DOMAIN journal :
       j < k /\ journal[j].by > 0 /\ journal[k].by > 0
         => journal[j].by <= journal[k].by
  /\ \A k \in DOMAIN journal : journal[k].by <= head.claim

\* At most one journal record per sequence. (MemoryLog.Append)
OneRecordPerSequence ==
  \A j, k \in DOMAIN journal : journal[j].seq = journal[k].seq => j = k

\* The expiry of a claim is only ever moved forward while the claim keeps its
\* owner: a late renewal or a Save computed from an older copy never shortens
\* it.  (RenewLease: "must never shorten the current expiry")
LeaseNeverShortened ==
  [][ head'.claim = head.claim /\ head'.owner = head.owner
        => head'.expires >= head.expires ]_vars

\* A terminal head is final, and so is its journal: nothing is written or
\* appended for the run any more by an invocation that held it.
TerminalIsFinal ==
  [][ checkpointTerminal(head.status) =>
        /\ head' = head
        /\ history' = history
        /\ \A k \in DOMAIN journal' : k > Len(journal) => journal'[k].by = 0
    ]_vars
=============================================================================
