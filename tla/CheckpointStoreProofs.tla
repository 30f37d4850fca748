------------------------ MODULE CheckpointStoreProofs ------------------------
(***************************************************************************)
(* Type correctness and safety of CheckpointStore, for any set of          *)
(* invocations, any lease duration and any bounds: leases are exclusive,   *)
(* claims are unique, the journal follows the ownership, a terminal run is *)
(* final.                                                                  *)
(*                                                                         *)
(* Every action that writes the head is first reduced to an Effect lemma,  *)
(* what it says about the fields of the head and of its caller; the        *)
(* invariants are then proved from the effects alone.                      *)
(***************************************************************************)
EXTENDS CheckpointStore, TLAPS

\* The record of a run that does not exist is a record.
LEMMA AbsentIsRecord == Absent \in Record
  BY IdentitiesAssumption DEF Absent, Record, Statuses

\* leaseExpiry and Later stay within the instants.
LEMMA ExpiryType ==
  ASSUME NEW t \in Nat, NEW u \in Nat
  PROVE  leaseExpiry(t, Duration) \in Nat /\ Later(t, u) \in Nat
  BY BoundsAssumption DEF leaseExpiry, Later

\* Installing a well-formed record that respects the two head rules, whatever
\* becomes of the callers, keeps the Store's part of the type invariant.
LEMMA InstallType ==
  ASSUME TypeOK, NEW rec \in Record, Install(rec)
  PROVE  head' \in Record /\ history' \in Seq(Record)
  BY DEF TypeOK, Install

\* Remember keeps the callers' part.
LEMMA RememberType ==
  ASSUME TypeOK, NEW o \in Owners, NEW rec \in Record, NEW expiry \in Nat,
         Remember(o, rec, expiry)
  PROVE  ckpt' \in [Owners -> Record] /\ until' \in [Owners -> Nat]
  BY DEF TypeOK, Remember

\* Updating the fields of a record with values of their types keeps it one.
LEMMA UpdateType ==
  ASSUME NEW r \in Record, NEW v \in Nat, NEW s \in Statuses,
         NEW w \in Owners \cup {NoOwner}, NEW c \in Nat, NEW e \in Nat
  PROVE  /\ [r EXCEPT !.version = v, !.expires = e] \in Record
         /\ [r EXCEPT !.status = s, !.owner = w, !.claim = c, !.expires = e]
              \in Record
  BY DEF Record

\* What a claim installs, and the copy its caller keeps.
LEMMA ClaimedType ==
  ASSUME NEW r \in Record, NEW t \in Nat
  PROVE  /\ Claimed(r, t, Duration) \in Record
         /\ Claimed(r, t, Duration).status = r.status
         /\ Claimed(r, t, Duration).owner = r.owner
         /\ [r EXCEPT !.version = @ + 1] \in Record
  <1>1. leaseExpiry(t, Duration) \in Nat
    BY ExpiryType
  <1>2. r.version + 1 \in Nat
    BY DEF Record
  <1> QED
    BY <1>1, <1>2 DEF Claimed, Record

\* What Write installs.
LEMMA WriteInstalls ==
  ASSUME TypeOK, NEW o \in Owners, NEW rec \in Record, NEW terminal \in BOOLEAN,
         Write(o, rec, terminal),
         rec.status # "running" => rec.owner = NoOwner
  PROVE  /\ head' \in Record /\ history' \in Seq(Record)
         /\ head'.status # "running" => head'.owner = NoOwner
         /\ head'.owner = NoOwner => head'.expires = 0
  <1> DEFINE new == Written(head, rec, now, Duration)
  <1>1. leaseExpiry(now, Duration) \in Nat
    BY ExpiryType DEF TypeOK
  <1>2. Later(head.expires, leaseExpiry(now, Duration)) \in Nat
    BY <1>1 DEF Later, TypeOK, Record
  <1> DEFINE e == IF rec.owner = NoOwner THEN 0
                  ELSE Later(head.expires, leaseExpiry(now, Duration))
  <1>3. new \in Record
    <2>1. e \in Nat /\ rec.version + 1 \in Nat
      BY <1>2 DEF Record
    <2>2. new = [rec EXCEPT !.version = rec.version + 1, !.expires = e]
      BY DEF Written
    <2> HIDE DEF e, new
    <2>3. [rec EXCEPT !.version = rec.version + 1, !.expires = e] \in Record
      BY <2>1, UpdateType DEF Statuses
    <2> QED
      BY <2>2, <2>3
  <1>4. /\ new.status = rec.status
        /\ new.owner = rec.owner
        /\ rec.owner = NoOwner => new.expires = 0
    BY DEF Written, Record
  <1>5. Install(new)
    BY DEF Write
  <1>6. head' = new
    BY <1>5 DEF Install
  <1> HIDE DEF new
  <1> QED
    BY <1>3, <1>4, <1>5, <1>6, InstallType

\* A Save by any caller keeps the type invariant.
LEMMA SaveRecordType ==
  ASSUME TypeOK, NEW o \in Owners, NEW rec \in Record, SaveRecord(o, rec),
         rec.status # "running" => rec.owner = NoOwner
  PROVE  TypeOK'
  <1>1. Write(o, rec, FALSE)
    BY DEF SaveRecord
  <1>2. /\ head' \in Record /\ history' \in Seq(Record)
        /\ head'.status # "running" => head'.owner = NoOwner
        /\ head'.owner = NoOwner => head'.expires = 0
    BY <1>1, WriteInstalls
  <1>3. UNCHANGED <<now, journal, phase>>
    BY DEF SaveRecord, Write
  <1>4. [rec EXCEPT !.version = @ + 1] \in Record
    BY DEF Record
  <1>5. (IF rec.owner = NoOwner THEN 0 ELSE leaseExpiry(now, Duration)) \in Nat
    BY ExpiryType DEF TypeOK
  <1>6. ckpt' \in [Owners -> Record] /\ until' \in [Owners -> Nat]
    BY <1>4, <1>5, RememberType DEF SaveRecord
  <1> QED
    BY <1>2, <1>3, <1>6 DEF TypeOK

\* The Store holds what it should at all times.
THEOREM TypeCorrect == Spec => []TypeOK
  <1>1. Init => TypeOK
    <2> SUFFICES ASSUME Init PROVE TypeOK
      OBVIOUS
    <2>1. head \in Record /\ ckpt \in [Owners -> Record]
      BY AbsentIsRecord DEF Init
    <2>2. head.status = "running" /\ head.expires = 0
      BY DEF Init, Absent
    <2> QED
      BY <2>1, <2>2 DEF Init, TypeOK
  <1>2. TypeOK /\ [Next]_vars => TypeOK'
    <2> SUFFICES ASSUME TypeOK, [Next]_vars PROVE TypeOK'
      OBVIOUS
    <2> USE DEF TypeOK
    <2>0. leaseExpiry(now, Duration) \in Nat
      BY ExpiryType
    <2>1. ASSUME NEW o \in Owners, NEW i \in Identities, Create(o, i)
          PROVE  TypeOK'
      <3> DEFINE rec == [id |-> i, version |-> 1, status |-> "running",
                         owner |-> o, claim |-> 1,
                         expires |-> leaseExpiry(now, Duration)]
      <3>1. rec \in Record
        BY <2>0 DEF Record, Statuses
      <3>2. Created(rec, now, Duration) = rec
        BY <3>1 DEF Created
      <3>3. /\ Install(rec) /\ Remember(o, rec, leaseExpiry(now, Duration))
            /\ phase' = [phase EXCEPT ![o] = "holding"]
            /\ UNCHANGED <<now, journal>>
        BY <2>1, <3>2 DEF Create
      <3>4. head' = rec /\ rec.status = "running" /\ rec.owner = o
        BY <3>3 DEF Install
      <3> HIDE DEF rec
      <3>5. head' \in Record /\ history' \in Seq(Record)
        BY <3>1, <3>3, InstallType
      <3>6. ckpt' \in [Owners -> Record] /\ until' \in [Owners -> Nat]
        BY <2>0, <3>1, <3>3, RememberType
      <3> QED
        BY <3>3, <3>4, <3>5, <3>6, OwnersAssumption
    <2>2. ASSUME NEW o \in Owners, Load(o) PROVE TypeOK'
      BY <2>2 DEF Load
    <2>3. ASSUME NEW o \in Owners, Claim(o) PROVE TypeOK'
      <3> DEFINE candidate == [ckpt[o] EXCEPT !.status = "running", !.owner = o,
                                 !.claim = @ + 1,
                                 !.expires = leaseExpiry(now, Duration)]
                 new == Claimed(candidate, now, Duration)
      <3>0. ckpt[o] \in Record /\ ckpt[o].claim + 1 \in Nat
              /\ "running" \in Statuses
        BY DEF Record, Statuses
      <3>1. candidate \in Record /\ candidate.status = "running"
              /\ candidate.owner = o
        BY <2>0, <3>0, UpdateType DEF Record
      <3> HIDE DEF candidate
      <3>2. new \in Record /\ new.status = "running" /\ new.owner = o
        BY <3>1, ClaimedType
      <3>3. [candidate EXCEPT !.version = @ + 1] \in Record
        BY <3>1, ClaimedType
      <3>4. /\ Install(new)
            /\ Remember(o, [candidate EXCEPT !.version = @ + 1],
                        leaseExpiry(now, Duration))
            /\ phase' = [phase EXCEPT ![o] = "holding"]
            /\ UNCHANGED <<now, journal>>
        BY <2>3 DEF Claim, candidate
      <3> HIDE DEF new
      <3>5. head' \in Record /\ history' \in Seq(Record) /\ head' = new
        BY <3>2, <3>4, InstallType DEF Install
      <3>6. ckpt' \in [Owners -> Record] /\ until' \in [Owners -> Nat]
        BY <2>0, <3>3, <3>4, RememberType
      <3> QED
        BY <3>2, <3>4, <3>5, <3>6, OwnersAssumption
    <2>4. ASSUME NEW o \in Owners, RenewLease(o) PROVE TypeOK'
      <3>1. head' = [head EXCEPT !.expires = Later(@, leaseExpiry(now, Duration))]
        BY <2>4 DEF RenewLease, Renewed
      <3>2. Later(head.expires, leaseExpiry(now, Duration)) \in Nat
        BY <2>0 DEF Later, Record
      <3>3. head' \in Record /\ head'.status = head.status
              /\ head'.owner = head.owner
        BY <3>1, <3>2 DEF Record
      <3>4. head.owner = o
        BY <2>4 DEF RenewLease, RenewOutcome
      <3> QED
        BY <2>0, <2>4, <3>3, <3>4, OwnersAssumption DEF RenewLease
    <2>5. ASSUME NEW o \in Owners, Save(o) PROVE TypeOK'
      <3> DEFINE rec == [ckpt[o] EXCEPT !.status = "running",
                                        !.expires = leaseExpiry(now, Duration)]
      <3>1. rec \in Record /\ rec.status = "running"
        BY <2>0 DEF Record, Statuses
      <3> QED
        BY <2>5, <3>1, SaveRecordType DEF Save
    <2>6. ASSUME NEW o \in Owners, Release(o) PROVE TypeOK'
      <3> DEFINE rec == [ckpt[o] EXCEPT !.owner = NoOwner, !.expires = 0]
      <3>1. rec \in Record /\ rec.owner = NoOwner
        BY DEF Record
      <3> QED
        BY <2>6, <3>1, SaveRecordType DEF Release
    <2>7. ASSUME NEW o \in Owners, Interrupt(o) PROVE TypeOK'
      <3> DEFINE rec == [ckpt[o] EXCEPT !.status = "interrupted",
                                        !.owner = NoOwner, !.expires = 0]
      <3>1. rec \in Record /\ rec.owner = NoOwner
        BY DEF Record, Statuses
      <3> QED
        BY <2>7, <3>1, SaveRecordType DEF Interrupt
    <2>8. ASSUME NEW o \in Owners, NEW status \in TerminalStatuses,
                 Finish(o, status)
          PROVE  TypeOK'
      <3> DEFINE rec == [ckpt[o] EXCEPT !.status = status, !.owner = NoOwner,
                                        !.expires = 0]
      <3>1. rec \in Record /\ rec.owner = NoOwner
        BY DEF Record, Statuses
      <3>2. Write(o, rec, TRUE)
        BY <2>8 DEF Finish
      <3>3. /\ head' \in Record /\ history' \in Seq(Record)
            /\ head'.status # "running" => head'.owner = NoOwner
            /\ head'.owner = NoOwner => head'.expires = 0
        BY <3>1, <3>2, WriteInstalls
      <3> QED
        BY <2>8, <3>3 DEF Finish, Write
    <2>9. ASSUME NEW seq \in 1..MaxSequence, NEW content \in Contents,
                 NEW by \in Nat, JournalAppend(seq, content, by)
          PROVE  journal' \in Seq(Entry)
      <3>1. [seq |-> seq, content |-> content, by |-> by] \in Entry
        BY BoundsAssumption DEF Entry
      <3>2. \/ UNCHANGED journal
            \/ journal' = Append(journal, [seq |-> seq, content |-> content,
                                           by |-> by])
        BY <2>9 DEF JournalAppend
      <3>3. journal \in Seq(Entry)
        OBVIOUS
      <3> HIDE DEF TypeOK
      <3> QED
        BY <3>1, <3>2, <3>3
    <2>10. ASSUME NEW o \in Owners, NEW seq \in 1..MaxSequence,
                  NEW content \in Contents, AppendFenced(o, seq, content)
           PROVE  TypeOK'
      BY <2>9, <2>10 DEF AppendFenced, Record
    <2>11. ASSUME NEW o \in Owners, NEW seq \in 1..MaxSequence,
                  NEW content \in Contents, AppendUnfenced(o, seq, content)
           PROVE  TypeOK'
      BY <2>9, <2>11 DEF AppendUnfenced
    <2>12. CASE Tick
      BY <2>12 DEF Tick
    <2>13. CASE UNCHANGED vars
      BY <2>13 DEF vars
    <2> QED
      BY <2>1, <2>2, <2>3, <2>4, <2>5, <2>6, <2>7, <2>8, <2>10, <2>11, <2>12,
         <2>13 DEF Next
  <1> QED
    BY <1>1, <1>2, PTL DEF Spec

-----------------------------------------------------------------------------
\* The inductive invariant.  What an invocation that believes it owns the run
\* believes is true; that can only be kept because claims are unique and
\* nobody holds a run that does not exist.
Held(o) == phase[o] = "holding"

AbsentIsUnclaimed ==
  /\ head.version = 0 => head.claim = 0 /\ head.status = "running"
  /\ \A o \in Owners : Held(o) => head.version > 0

Ownership ==
  /\ TypeOK
  /\ AbsentIsUnclaimed
  /\ ClaimsAreUnique
  /\ BeliefIsTrue

\* The variables of the other invocations stay as they are.
OthersUnchanged(o) ==
  \A q \in Owners \ {o} :
    phase'[q] = phase[q] /\ ckpt'[q] = ckpt[q] /\ until'[q] = until[q]

-----------------------------------------------------------------------------

LEMMA CreateEffect ==
  ASSUME TypeOK, NEW o \in Owners, NEW i \in Identities, Create(o, i)
  PROVE  /\ head.version = 0
         /\ head'.version = 1 /\ head'.claim = 1 /\ head'.owner = o
         /\ head'.status = "running" /\ head'.expires = now + Duration
         /\ ckpt'[o].claim = 1 /\ ckpt'[o].owner = o
         /\ phase'[o] = "holding" /\ until'[o] = now + Duration
         /\ history' = Append(history, head')
         /\ OthersUnchanged(o) /\ UNCHANGED <<now, journal>>
  <1> DEFINE rec == [id |-> i, version |-> 1, status |-> "running", owner |-> o,
                     claim |-> 1, expires |-> leaseExpiry(now, Duration)]
  <1>1. CreateOutcome(head, rec) = "ok" /\ Install(Created(rec, now, Duration))
          /\ Remember(o, rec, leaseExpiry(now, Duration))
          /\ phase' = [phase EXCEPT ![o] = "holding"]
          /\ UNCHANGED <<now, journal>>
    BY DEF Create
  <1>2. ~Exists(head)
    BY <1>1 DEF CreateOutcome
  <1>3. head.version = 0
    BY <1>2 DEF Exists, TypeOK, Record
  <1>4. Created(rec, now, Duration) = rec /\ rec.expires = now + Duration
    BY DEF Created, leaseExpiry
  <1>5. head' = rec /\ history' = Append(history, rec)
    BY <1>1, <1>4 DEF Install
  <1>6. ckpt' = [ckpt EXCEPT ![o] = rec]
          /\ until' = [until EXCEPT ![o] = now + Duration]
    BY <1>1 DEF Remember, leaseExpiry
  <1>7. phase \in [Owners -> {"new", "loaded", "holding", "done"}]
          /\ ckpt \in [Owners -> Record] /\ until \in [Owners -> Nat]
    BY DEF TypeOK
  <1>8. ckpt'[o] = rec /\ until'[o] = now + Duration /\ phase'[o] = "holding"
    BY <1>1, <1>6, <1>7
  <1>9. OthersUnchanged(o)
    BY <1>1, <1>6, <1>7 DEF OthersUnchanged
  <1> QED
    BY <1>1, <1>3, <1>4, <1>5, <1>8, <1>9

LEMMA ClaimEffect ==
  ASSUME TypeOK, NEW o \in Owners, Claim(o)
  PROVE  /\ head.version > 0 /\ head.status \in {"running", "interrupted"}
         /\ head.expires <= now
         /\ head'.version = head.version + 1 /\ head'.claim = head.claim + 1
         /\ head'.owner = o /\ head'.status = "running"
         /\ head'.expires = now + Duration
         /\ ckpt'[o].claim = head.claim + 1 /\ ckpt'[o].owner = o
         /\ phase'[o] = "holding" /\ until'[o] = now + Duration
         /\ history' = Append(history, head')
         /\ OthersUnchanged(o) /\ UNCHANGED <<now, journal>>
  <1> DEFINE candidate == [ckpt[o] EXCEPT !.status = "running", !.owner = o,
                             !.claim = @ + 1,
                             !.expires = leaseExpiry(now, Duration)]
  <1>0. phase \in [Owners -> {"new", "loaded", "holding", "done"}]
          /\ ckpt \in [Owners -> Record] /\ until \in [Owners -> Nat]
          /\ head \in Record /\ now \in Nat
    BY DEF TypeOK
  <1>1. /\ ClaimOutcome(head, candidate, now) = "ok"
        /\ Install(Claimed(candidate, now, Duration))
        /\ Remember(o, [candidate EXCEPT !.version = @ + 1],
                    leaseExpiry(now, Duration))
        /\ phase' = [phase EXCEPT ![o] = "holding"]
        /\ UNCHANGED <<now, journal>>
    BY DEF Claim
  <1>2. candidate \in Record /\ candidate.status = "running"
          /\ candidate.owner = o
    <2>1. leaseExpiry(now, Duration) \in Nat
      BY <1>0, ExpiryType
    <2>2. ckpt[o] \in Record /\ ckpt[o].claim + 1 \in Nat
            /\ "running" \in Statuses
      BY <1>0 DEF Record, Statuses
    <2> QED
      BY <2>1, <2>2, UpdateType DEF Record
  <1> HIDE DEF candidate
  <1>3. /\ Exists(head) /\ head.version = candidate.version
        /\ head.status \in {"running", "interrupted"}
        /\ ~Unexpired(head, now) /\ candidate.claim = head.claim + 1
    BY <1>1 DEF ClaimOutcome
  <1>4. /\ Claimed(candidate, now, Duration).version = candidate.version + 1
        /\ Claimed(candidate, now, Duration).claim = candidate.claim
        /\ Claimed(candidate, now, Duration).owner = candidate.owner
        /\ Claimed(candidate, now, Duration).status = candidate.status
        /\ Claimed(candidate, now, Duration).expires = now + Duration
    BY <1>2 DEF Claimed, Record, leaseExpiry
  <1>5. head' = Claimed(candidate, now, Duration)
          /\ history' = Append(history, head')
    BY <1>1 DEF Install
  <1>6. ckpt' = [ckpt EXCEPT ![o] = [candidate EXCEPT !.version = @ + 1]]
          /\ until' = [until EXCEPT ![o] = now + Duration]
    BY <1>1 DEF Remember, leaseExpiry
  <1>7. /\ ckpt'[o] = [candidate EXCEPT !.version = @ + 1]
        /\ until'[o] = now + Duration /\ phase'[o] = "holding"
    BY <1>0, <1>1, <1>6
  <1>8. ckpt'[o].claim = candidate.claim /\ ckpt'[o].owner = candidate.owner
    BY <1>2, <1>7 DEF Record
  <1>9. OthersUnchanged(o)
    BY <1>0, <1>1, <1>6 DEF OthersUnchanged
  <1>10. head.version > 0 /\ head.expires <= now
    BY <1>0, <1>3 DEF Exists, Unexpired, Record
  <1> QED
    BY <1>1, <1>2, <1>3, <1>4, <1>5, <1>7, <1>8, <1>9, <1>10

\* What a successful Save or Finish of rec does to the head.
LEMMA WriteEffect ==
  ASSUME TypeOK, NEW o \in Owners, NEW rec \in Record, NEW terminal \in BOOLEAN,
         Write(o, rec, terminal)
  PROVE  /\ phase[o] = "holding"
         /\ head.version > 0 /\ head.version = rec.version
         /\ ~checkpointTerminal(head.status)
         /\ rec.claim = head.claim /\ rec.owner \in {NoOwner, head.owner}
         /\ head'.version = head.version + 1 /\ head'.claim = head.claim
         /\ head'.owner = rec.owner /\ head'.status = rec.status
         /\ rec.owner = NoOwner => head'.expires = 0
         /\ rec.owner # NoOwner =>
              head'.expires >= head.expires /\ head'.expires >= now + Duration
         /\ history' = Append(history, head')
         /\ UNCHANGED <<now, journal>>
  <1> DEFINE new == Written(head, rec, now, Duration)
  <1>0. head \in Record /\ now \in Nat /\ Duration \in Nat
    BY BoundsAssumption DEF TypeOK
  <1>1. /\ phase[o] = "holding"
        /\ WriteOutcome(head, rec, terminal, now) = "ok"
        /\ head' = new /\ history' = Append(history, new)
        /\ UNCHANGED <<now, journal>>
    BY DEF Write, Install
  <1>2. /\ Exists(head) /\ head.version = rec.version
        /\ ~checkpointTerminal(head.status)
        /\ rec.claim = head.claim /\ rec.owner \in {NoOwner, head.owner}
    BY <1>1 DEF WriteOutcome
  <1> DEFINE e == IF rec.owner = NoOwner THEN 0
                  ELSE Later(head.expires, leaseExpiry(now, Duration))
  <1>3. new = [rec EXCEPT !.version = @ + 1, !.expires = e]
    BY DEF Written
  <1>4. /\ rec.owner = NoOwner => e = 0
        /\ rec.owner # NoOwner => e >= head.expires /\ e >= now + Duration
    BY <1>0 DEF Later, leaseExpiry, Record
  <1> HIDE DEF e, new
  <1>5. /\ new.version = rec.version + 1 /\ new.claim = rec.claim
        /\ new.owner = rec.owner /\ new.status = rec.status /\ new.expires = e
    BY <1>3 DEF Record
  <1>6. head.version > 0
    BY <1>2 DEF Exists
  <1> QED
    BY <1>1, <1>2, <1>4, <1>5, <1>6

\* Save, Release and Interrupt, seen together: the caller keeps its claim and
\* its owner or gives it up, and its lease is the one it was told of.
LEMMA SaveEffect ==
  ASSUME TypeOK, NEW o \in Owners, Save(o) \/ Release(o) \/ Interrupt(o)
  PROVE  /\ phase[o] = "holding" /\ phase' = phase
         /\ head.version > 0 /\ ~checkpointTerminal(head.status)
         /\ ckpt[o].claim = head.claim
         /\ head'.version = head.version + 1 /\ head'.claim = head.claim
         /\ head'.owner \in {NoOwner, head.owner}
         /\ head'.owner = NoOwner => head'.expires = 0
         /\ head'.owner # NoOwner =>
              /\ head'.status = "running" /\ head'.owner = ckpt[o].owner
              /\ head'.expires >= head.expires /\ head'.expires >= until'[o]
         /\ ~checkpointTerminal(head'.status)
         /\ ckpt'[o].claim = head.claim /\ ckpt'[o].owner = head'.owner
         /\ history' = Append(history, head')
         /\ OthersUnchanged(o) /\ UNCHANGED <<now, journal>>
  <1>0. phase \in [Owners -> {"new", "loaded", "holding", "done"}]
          /\ ckpt \in [Owners -> Record] /\ until \in [Owners -> Nat]
          /\ head \in Record /\ now \in Nat
    BY DEF TypeOK
  <1>1. PICK rec \in Record :
          /\ SaveRecord(o, rec)
          /\ rec.claim = ckpt[o].claim
          /\ rec.owner # NoOwner =>
               rec.status = "running" /\ rec.owner = ckpt[o].owner
          /\ checkpointTerminal(rec.status) => rec.status = ckpt[o].status
    <2> DEFINE saved == [ckpt[o] EXCEPT !.status = "running",
                                        !.expires = leaseExpiry(now, Duration)]
               released == [ckpt[o] EXCEPT !.owner = NoOwner, !.expires = 0]
               stopped == [ckpt[o] EXCEPT !.status = "interrupted",
                                          !.owner = NoOwner, !.expires = 0]
    <2>0. ckpt[o] \in Record /\ leaseExpiry(now, Duration) \in Nat
      BY <1>0, ExpiryType
    <2>1. CASE Save(o)
      <3>1. SaveRecord(o, saved)
        BY <2>1 DEF Save
      <3>2. saved \in Record /\ saved.claim = ckpt[o].claim
              /\ saved.status = "running" /\ saved.owner = ckpt[o].owner
        BY <2>0 DEF Record, Statuses
      <3> QED
        BY <3>1, <3>2 DEF checkpointTerminal, TerminalStatuses
    <2>2. CASE Release(o)
      <3>1. SaveRecord(o, released)
        BY <2>2 DEF Release
      <3>2. released \in Record /\ released.claim = ckpt[o].claim
              /\ released.owner = NoOwner /\ released.status = ckpt[o].status
        BY <2>0 DEF Record
      <3> QED
        BY <3>1, <3>2
    <2>3. CASE Interrupt(o)
      <3>1. SaveRecord(o, stopped)
        BY <2>3 DEF Interrupt
      <3>2. stopped \in Record /\ stopped.claim = ckpt[o].claim
              /\ stopped.owner = NoOwner /\ stopped.status = "interrupted"
        BY <2>0 DEF Record, Statuses
      <3> QED
        BY <3>1, <3>2 DEF checkpointTerminal, TerminalStatuses
    <2> QED
      BY <2>1, <2>2, <2>3
  <1> DEFINE expiry == IF rec.owner = NoOwner THEN 0 ELSE now + Duration
  <1>2. /\ Write(o, rec, FALSE)
        /\ ckpt' = [ckpt EXCEPT ![o] = [rec EXCEPT !.version = @ + 1]]
        /\ until' = [until EXCEPT ![o] = expiry]
        /\ phase' = phase
    BY <1>1 DEF SaveRecord, Remember, leaseExpiry
  <1>3. WriteOutcome(head, rec, FALSE, now) = "ok"
    BY <1>2 DEF Write
  <1>4. ~checkpointTerminal(rec.status)
    BY <1>3 DEF WriteOutcome
  <1>5. /\ ckpt'[o].claim = rec.claim /\ ckpt'[o].owner = rec.owner
        /\ until'[o] = expiry
    <2>1. ckpt'[o] = [rec EXCEPT !.version = @ + 1] /\ until'[o] = expiry
      BY <1>0, <1>2
    <2> QED
      BY <1>1, <2>1 DEF Record
  <1>6. OthersUnchanged(o)
    BY <1>0, <1>2 DEF OthersUnchanged
  <1>7. /\ phase[o] = "holding"
        /\ head.version > 0 /\ ~checkpointTerminal(head.status)
        /\ rec.claim = head.claim /\ rec.owner \in {NoOwner, head.owner}
        /\ head'.version = head.version + 1 /\ head'.claim = head.claim
        /\ head'.owner = rec.owner /\ head'.status = rec.status
        /\ rec.owner = NoOwner => head'.expires = 0
        /\ rec.owner # NoOwner =>
             head'.expires >= head.expires /\ head'.expires >= now + Duration
        /\ history' = Append(history, head')
        /\ UNCHANGED <<now, journal>>
    BY <1>2, WriteEffect
  <1> QED
    BY <1>1, <1>2, <1>4, <1>5, <1>6, <1>7

LEMMA FinishEffect ==
  ASSUME TypeOK, NEW o \in Owners, NEW status \in TerminalStatuses,
         Finish(o, status)
  PROVE  /\ phase[o] = "holding" /\ phase'[o] = "done"
         /\ head.version > 0 /\ ~checkpointTerminal(head.status)
         /\ ckpt[o].claim = head.claim
         /\ head'.version = head.version + 1 /\ head'.claim = head.claim
         /\ head'.owner = NoOwner /\ head'.expires = 0
         /\ head'.status = status
         /\ history' = Append(history, head')
         /\ OthersUnchanged(o) /\ UNCHANGED <<now, journal>>
  <1> DEFINE rec == [ckpt[o] EXCEPT !.status = status, !.owner = NoOwner,
                                    !.expires = 0]
  <1>0. phase \in [Owners -> {"new", "loaded", "holding", "done"}]
          /\ ckpt[o] \in Record
    BY DEF TypeOK
  <1>1. rec \in Record /\ rec.owner = NoOwner /\ rec.status = status
          /\ rec.claim = ckpt[o].claim
    BY <1>0 DEF Record, Statuses
  <1>2. /\ Write(o, rec, TRUE)
        /\ phase' = [phase EXCEPT ![o] = "done"]
        /\ UNCHANGED <<ckpt, until>>
    BY DEF Finish
  <1> HIDE DEF rec
  <1>3. OthersUnchanged(o) /\ phase'[o] = "done"
    BY <1>0, <1>2 DEF OthersUnchanged
  <1> QED
    BY <1>1, <1>2, <1>3, WriteEffect

LEMMA RenewEffect ==
  ASSUME TypeOK, NEW o \in Owners, RenewLease(o)
  PROVE  /\ phase[o] = "holding"
         /\ head.version > 0 /\ head.status = "running"
         /\ head.owner = o /\ head.claim = ckpt[o].claim
         /\ head'.version = head.version /\ head'.claim = head.claim
         /\ head'.owner = o /\ head'.status = "running"
         /\ head'.expires >= head.expires /\ head'.expires >= until'[o]
         /\ [head' EXCEPT !.expires = 0] = [head EXCEPT !.expires = 0]
         /\ OthersUnchanged(o)
         /\ UNCHANGED <<now, history, journal, phase, ckpt>>
  <1>0. until \in [Owners -> Nat] /\ head \in Record /\ now \in Nat
          /\ Duration \in Nat
    BY BoundsAssumption DEF TypeOK
  <1>1. /\ phase[o] = "holding"
        /\ RenewOutcome(head, o, ckpt[o].claim, now) = "ok"
        /\ head' = [head EXCEPT !.expires = Later(@, now + Duration)]
        /\ until' = [until EXCEPT ![o] = now + Duration]
        /\ UNCHANGED <<now, history, journal, phase, ckpt>>
    BY DEF RenewLease, Renewed, leaseExpiry
  <1>2. /\ Exists(head) /\ head.status = "running"
        /\ head.owner = o /\ head.claim = ckpt[o].claim
    BY <1>1 DEF RenewOutcome
  <1>3. /\ Later(head.expires, now + Duration) >= head.expires
        /\ Later(head.expires, now + Duration) >= now + Duration
    BY <1>0 DEF Later, Record
  <1>4. /\ head'.version = head.version /\ head'.claim = head.claim
        /\ head'.owner = head.owner /\ head'.status = head.status
        /\ head'.expires = Later(head.expires, now + Duration)
        /\ [head' EXCEPT !.expires = 0] = [head EXCEPT !.expires = 0]
    BY <1>0, <1>1 DEF Record
  <1>5. until'[o] = now + Duration /\ OthersUnchanged(o)
    BY <1>0, <1>1 DEF OthersUnchanged
  <1>6. head.version > 0
    BY <1>2 DEF Exists
  <1> QED
    BY <1>1, <1>2, <1>3, <1>4, <1>5, <1>6

\* Load is a reader, the appends leave everything but the journal alone.
LEMMA LoadEffect ==
  ASSUME TypeOK, NEW o \in Owners, Load(o)
  PROVE  /\ phase[o] # "holding" /\ phase'[o] = "loaded"
         /\ \A q \in Owners \ {o} : phase'[q] = phase[q] /\ ckpt'[q] = ckpt[q]
         /\ UNCHANGED <<now, head, history, journal, until>>
  BY DEF TypeOK, Load

LEMMA AppendEffect ==
  ASSUME TypeOK, NEW o \in Owners, NEW seq \in 1..MaxSequence,
         NEW content \in Contents,
         AppendFenced(o, seq, content) \/ AppendUnfenced(o, seq, content)
  PROVE  /\ UNCHANGED <<now, head, history, phase, ckpt, until>>
         /\ \/ UNCHANGED journal
            \/ \E by \in Nat :
                 /\ journal' = Append(journal, [seq |-> seq, content |-> content,
                                                by |-> by])
                 /\ \A k \in DOMAIN journal : journal[k].seq # seq
                 /\ by # 0 => by = head.claim /\ head.status = "running"
  <1>1. CASE AppendFenced(o, seq, content)
    <2>1. /\ FenceOutcome(head, ckpt[o].owner, ckpt[o].claim, now) = "ok"
          /\ JournalAppend(seq, content, ckpt[o].claim)
          /\ UNCHANGED <<now, head, history, phase, ckpt, until>>
      BY <1>1 DEF AppendFenced
    <2>2. head.claim = ckpt[o].claim /\ head.status = "running"
      BY <2>1 DEF FenceOutcome
    <2>3. ckpt[o].claim \in Nat
      BY DEF TypeOK, Record
    <2> QED
      BY <2>1, <2>2, <2>3 DEF JournalAppend
  <1>2. CASE AppendUnfenced(o, seq, content)
    BY <1>2 DEF AppendUnfenced, JournalAppend
  <1> QED
    BY <1>1, <1>2

-----------------------------------------------------------------------------

\* Ownership is inductive.
LEMMA OwnershipInit == Init => Ownership
  <1> SUFFICES ASSUME Init PROVE Ownership
    OBVIOUS
  <1>1. TypeOK
    <2>1. head \in Record /\ ckpt \in [Owners -> Record]
      BY AbsentIsRecord DEF Init
    <2>2. head.status = "running" /\ head.expires = 0
      BY DEF Init, Absent
    <2> QED
      BY <2>1, <2>2 DEF Init, TypeOK
  <1>2. \A o \in Owners : ~Held(o)
    BY DEF Init, Held
  <1>3. head.claim = 0 /\ head.status = "running"
    BY DEF Init, Absent
  <1> QED
    BY <1>1, <1>2, <1>3
    DEF Ownership, AbsentIsUnclaimed, ClaimsAreUnique, BeliefIsTrue, Believes, Held

\* Claims stay unique when o acts and its claim stays what it was, or becomes
\* one that nobody had.
LEMMA OwnershipNext == Ownership /\ TypeOK' /\ [Next]_vars => Ownership'
  <1> SUFFICES ASSUME Ownership, TypeOK', [Next]_vars PROVE Ownership'
    OBVIOUS
  <1>0. /\ TypeOK /\ AbsentIsUnclaimed /\ ClaimsAreUnique /\ BeliefIsTrue
        /\ head.version \in Nat /\ head.claim \in Nat /\ head.expires \in Nat
        /\ now \in Nat /\ Duration \in Nat /\ NoOwner \notin Owners
        /\ \A o \in Owners : ckpt[o].claim \in Nat /\ until[o] \in Nat
    BY BoundsAssumption, OwnersAssumption DEF Ownership, TypeOK, Record
  <1> USE DEF Held
  <1>1. ASSUME NEW o \in Owners, NEW i \in Identities, Create(o, i)
        PROVE  Ownership'
    <2>1. /\ head.version = 0
          /\ head'.version = 1 /\ head'.claim = 1 /\ head'.owner = o
          /\ head'.status = "running" /\ head'.expires = now + Duration
          /\ ckpt'[o].claim = 1 /\ ckpt'[o].owner = o
          /\ phase'[o] = "holding" /\ until'[o] = now + Duration
          /\ OthersUnchanged(o) /\ UNCHANGED now
      BY <1>0, <1>1, CreateEffect
    <2>2. \A q \in Owners \ {o} : phase'[q] # "holding"
      BY <1>0, <2>1 DEF AbsentIsUnclaimed, OthersUnchanged
    <2>3. AbsentIsUnclaimed'
      BY <2>1 DEF AbsentIsUnclaimed
    <2>4. ClaimsAreUnique'
      BY <2>1, <2>2 DEF ClaimsAreUnique
    <2>5. BeliefIsTrue'
      BY <1>0, <2>1, <2>2 DEF BeliefIsTrue, Believes
    <2> QED
      BY <2>3, <2>4, <2>5 DEF Ownership
  <1>2. ASSUME NEW o \in Owners, Load(o) PROVE Ownership'
    <2>1. /\ phase[o] # "holding" /\ phase'[o] = "loaded"
          /\ \A q \in Owners \ {o} : phase'[q] = phase[q] /\ ckpt'[q] = ckpt[q]
          /\ UNCHANGED <<now, head, until>>
      BY <1>0, <1>2, LoadEffect
    <2> QED
      BY <1>0, <2>1 DEF Ownership, AbsentIsUnclaimed, ClaimsAreUnique,
                        BeliefIsTrue, Believes
  <1>3. ASSUME NEW o \in Owners, Claim(o) PROVE Ownership'
    <2>1. /\ head.version > 0 /\ head.expires <= now
          /\ head'.version = head.version + 1 /\ head'.claim = head.claim + 1
          /\ head'.owner = o /\ head'.status = "running"
          /\ head'.expires = now + Duration
          /\ ckpt'[o].claim = head.claim + 1 /\ ckpt'[o].owner = o
          /\ phase'[o] = "holding" /\ until'[o] = now + Duration
          /\ OthersUnchanged(o) /\ UNCHANGED now
      BY <1>0, <1>3, ClaimEffect
    <2>2. \A q \in Owners \ {o} : ~Believes(q)
      BY <1>0, <2>1 DEF BeliefIsTrue, Believes
    <2>3. AbsentIsUnclaimed'
      BY <1>0, <2>1 DEF AbsentIsUnclaimed
    <2>4. ClaimsAreUnique'
      BY <1>0, <2>1 DEF ClaimsAreUnique, OthersUnchanged
    <2>5. BeliefIsTrue'
      BY <1>0, <2>1, <2>2 DEF BeliefIsTrue, Believes, OthersUnchanged
    <2> QED
      BY <2>3, <2>4, <2>5 DEF Ownership
  <1>4. ASSUME NEW o \in Owners, RenewLease(o) PROVE Ownership'
    <2>1. /\ head.version > 0
          /\ head.owner = o /\ head.claim = ckpt[o].claim
          /\ head'.version = head.version /\ head'.claim = head.claim
          /\ head'.owner = o /\ head'.status = "running"
          /\ head'.expires >= head.expires /\ head'.expires >= until'[o]
          /\ OthersUnchanged(o) /\ UNCHANGED <<now, phase, ckpt>>
      BY <1>0, <1>4, RenewEffect
    <2>2. \A q \in Owners \ {o} : ~Believes(q)
      BY <1>0, <2>1 DEF BeliefIsTrue
    <2>3. AbsentIsUnclaimed' /\ ClaimsAreUnique'
      BY <1>0, <2>1 DEF AbsentIsUnclaimed, ClaimsAreUnique
    <2>4. BeliefIsTrue'
      BY <1>0, <2>1, <2>2 DEF BeliefIsTrue, Believes, OthersUnchanged
    <2> QED
      BY <2>3, <2>4 DEF Ownership
  <1>5. ASSUME NEW o \in Owners, Save(o) \/ Release(o) \/ Interrupt(o)
        PROVE  Ownership'
    <2>1. /\ phase[o] = "holding" /\ phase' = phase
          /\ head.version > 0 /\ ckpt[o].claim = head.claim
          /\ head'.version = head.version + 1 /\ head'.claim = head.claim
          /\ head'.owner \in {NoOwner, head.owner}
          /\ head'.owner # NoOwner =>
               /\ head'.status = "running" /\ head'.owner = ckpt[o].owner
               /\ head'.expires >= until'[o]
          /\ ckpt'[o].claim = head.claim /\ ckpt'[o].owner = head'.owner
          /\ OthersUnchanged(o) /\ UNCHANGED now
      BY <1>0, <1>5, SaveEffect
    <2>2. \A q \in Owners \ {o} : ~Believes(q)
      BY <1>0, <2>1 DEF BeliefIsTrue, Believes, ClaimsAreUnique
    <2>3. AbsentIsUnclaimed'
      BY <1>0, <2>1 DEF AbsentIsUnclaimed
    <2>4. head'.owner \in {o, NoOwner}
      BY <1>0, <2>1 DEF ClaimsAreUnique
    <2>5. ClaimsAreUnique'
      BY <1>0, <2>1, <2>4 DEF ClaimsAreUnique, OthersUnchanged
    <2>6. BeliefIsTrue'
      BY <1>0, <2>1, <2>2 DEF BeliefIsTrue, Believes, OthersUnchanged
    <2> QED
      BY <2>3, <2>5, <2>6 DEF Ownership
  <1>6. ASSUME NEW o \in Owners, NEW status \in TerminalStatuses,
               Finish(o, status)
        PROVE  Ownership'
    <2>1. /\ phase[o] = "holding" /\ phase'[o] = "done"
          /\ head.version > 0 /\ ckpt[o].claim = head.claim
          /\ head'.version = head.version + 1 /\ head'.claim = head.claim
          /\ OthersUnchanged(o) /\ UNCHANGED now
      BY <1>0, <1>6, FinishEffect
    <2>2. \A q \in Owners \ {o} : ~Believes(q)
      BY <1>0, <2>1 DEF BeliefIsTrue, Believes, ClaimsAreUnique
    <2>3. AbsentIsUnclaimed'
      BY <1>0, <2>1 DEF AbsentIsUnclaimed
    <2>4. ClaimsAreUnique'
      BY <1>0, <2>1 DEF ClaimsAreUnique, OthersUnchanged
    <2>5. BeliefIsTrue'
      BY <2>1, <2>2 DEF BeliefIsTrue, Believes, OthersUnchanged
    <2> QED
      BY <2>3, <2>4, <2>5 DEF Ownership
  <1>7. ASSUME NEW o \in Owners, NEW seq \in 1..MaxSequence,
               NEW content \in Contents,
               AppendFenced(o, seq, content) \/ AppendUnfenced(o, seq, content)
        PROVE  Ownership'
    <2>1. UNCHANGED <<now, head, history, phase, ckpt, until>>
      BY <1>0, <1>7, AppendEffect
    <2> QED
      BY <1>0, <2>1 DEF Ownership, AbsentIsUnclaimed, ClaimsAreUnique,
                        BeliefIsTrue, Believes
  <1>8. CASE Tick
    BY <1>0, <1>8 DEF Tick, Ownership, AbsentIsUnclaimed, ClaimsAreUnique,
                      BeliefIsTrue, Believes
  <1>9. CASE UNCHANGED vars
    BY <1>0, <1>9 DEF vars, Ownership, AbsentIsUnclaimed, ClaimsAreUnique,
                      BeliefIsTrue, Believes
  <1> QED
    BY <1>1, <1>2, <1>3, <1>4, <1>5, <1>6, <1>7, <1>8, <1>9 DEF Next

\* The claims of the run are granted once, and whoever believes it owns the
\* run is right. (MemoryCheckpointer.Claim, RenewLease, write)
THEOREM OwnershipCorrect == Spec => []Ownership
  BY OwnershipInit, OwnershipNext, TypeCorrect, PTL DEF Spec

\* No two invocations believe, each by the Store's last reply to it, that they
\* own the run.
THEOREM OwnershipIsExclusive == Spec => []ExclusiveOwnership
  <1>1. Ownership => ExclusiveOwnership
    BY DEF Ownership, BeliefIsTrue, ExclusiveOwnership
  <1> QED
    BY <1>1, OwnershipCorrect, PTL

\* Claim hands out every claim sequence once, and no invocation holds one the
\* Store has not reached.
THEOREM ClaimsAreGrantedOnce == Spec => []ClaimsAreUnique
  <1>1. Ownership => ClaimsAreUnique
    BY DEF Ownership
  <1> QED
    BY <1>1, OwnershipCorrect, PTL

\* What the Store's last reply lets an invocation believe - that it owns the
\* run, under which claim and until when - is what the head says.
THEOREM BeliefsAreTrue == Spec => []BeliefIsTrue
  <1>1. Ownership => BeliefIsTrue
    BY DEF Ownership
  <1> QED
    BY <1>1, OwnershipCorrect, PTL

-----------------------------------------------------------------------------

\* Once the run is terminal the Store lets nobody who held it change its
\* record, its history or its journal.
THEOREM TerminalStaysFinal == Spec => TerminalIsFinal
  <1> DEFINE Final ==
        checkpointTerminal(head.status) =>
          /\ head' = head
          /\ history' = history
          /\ \A k \in DOMAIN journal' : k > Len(journal) => journal'[k].by = 0
  <1>1. Ownership /\ [Next]_vars => [Final]_vars
    <2> SUFFICES ASSUME Ownership, Next, checkpointTerminal(head.status)
                 PROVE  Final
      BY DEF vars
    <2>0. /\ TypeOK /\ journal \in Seq(Entry)
          /\ head.status \notin {"running", "interrupted"} /\ head.version # 0
      BY DEF Ownership, TypeOK, AbsentIsUnclaimed, checkpointTerminal,
             TerminalStatuses
    <2>1. ASSUME UNCHANGED <<head, history, journal>> PROVE Final
      BY <2>0, <2>1
    <2>2. ASSUME NEW o \in Owners, NEW i \in Identities, Create(o, i)
          PROVE  FALSE
      BY <2>0, <2>2, CreateEffect
    <2>3. ASSUME NEW o \in Owners, Claim(o) PROVE FALSE
      BY <2>0, <2>3, ClaimEffect
    <2>4. ASSUME NEW o \in Owners, RenewLease(o) PROVE FALSE
      BY <2>0, <2>4, RenewEffect
    <2>5. ASSUME NEW o \in Owners, Save(o) \/ Release(o) \/ Interrupt(o)
          PROVE  FALSE
      BY <2>0, <2>5, SaveEffect
    <2>6. ASSUME NEW o \in Owners, NEW status \in TerminalStatuses,
                 Finish(o, status)
          PROVE  FALSE
      BY <2>0, <2>6, FinishEffect
    <2>7. ASSUME NEW o \in Owners, NEW seq \in 1..MaxSequence,
                 NEW content \in Contents,
                 AppendFenced(o, seq, content) \/ AppendUnfenced(o, seq, content)
          PROVE  Final
      <3>1. /\ head' = head /\ history' = history
            /\ \/ UNCHANGED journal
               \/ \E by \in Nat :
                    /\ journal' = Append(journal, [seq |-> seq,
                                      content |-> content, by |-> by])
                    /\ by # 0 => head.status = "running"
        BY <2>0, <2>7, AppendEffect
      <3>2. CASE UNCHANGED journal
        BY <2>1, <3>1, <3>2
      <3>3. CASE journal' = Append(journal, [seq |-> seq, content |-> content,
                                             by |-> 0])
        <4> DEFINE entry == [seq |-> seq, content |-> content, by |-> 0]
        <4>1. entry.by = 0
          OBVIOUS
        <4> HIDE DEF entry
        <4>2. journal' = Append(journal, entry)
          BY <3>3 DEF entry
        <4>3. /\ DOMAIN journal' = 1..(Len(journal) + 1)
              /\ journal'[Len(journal) + 1] = entry
          BY <2>0, <4>2
        <4>4. \A k \in DOMAIN journal' : k > Len(journal) => k = Len(journal) + 1
          BY <2>0, <4>3
        <4> QED
          BY <3>1, <4>1, <4>3, <4>4
      <3> QED
        BY <2>0, <3>1, <3>2, <3>3
    <2>8. ASSUME NEW o \in Owners, Load(o) PROVE Final
      BY <2>0, <2>1, <2>8, LoadEffect
    <2>9. CASE Tick
      BY <2>1, <2>9 DEF Tick
    <2> QED
      BY <2>2, <2>3, <2>4, <2>5, <2>6, <2>7, <2>8, <2>9 DEF Next
  <1> QED
    BY <1>1, OwnershipCorrect, PTL DEF Spec, TerminalIsFinal

-----------------------------------------------------------------------------

\* Every step leaves the head alone, renews its lease, or installs the next
\* version with the same claim or the next one.
LEMMA HeadEffect ==
  ASSUME Ownership, Next
  PROVE  \/ UNCHANGED <<head, history>>
         \/ /\ head'.claim = head.claim /\ head'.version = head.version
            /\ history' = history /\ journal' = journal
            /\ [head' EXCEPT !.expires = 0] = [head EXCEPT !.expires = 0]
         \/ /\ head'.version = head.version + 1
            /\ head'.claim \in {head.claim, head.claim + 1}
            /\ head.version > 0 => ~checkpointTerminal(head.status)
            /\ history' = Append(history, head')
            /\ journal' = journal
  <1>0. TypeOK /\ (head.version = 0 => head.claim = 0)
    BY DEF Ownership, AbsentIsUnclaimed
  <1>1. ASSUME NEW o \in Owners, NEW i \in Identities, Create(o, i)
        PROVE  /\ head.version = 0 /\ head'.version = 1 /\ head'.claim = 1
               /\ history' = Append(history, head') /\ journal' = journal
    BY <1>0, <1>1, CreateEffect
  <1>2. ASSUME NEW o \in Owners, Load(o) PROVE UNCHANGED <<head, history>>
    BY <1>2 DEF Load
  <1>3. ASSUME NEW o \in Owners, Claim(o)
        PROVE  /\ head'.version = head.version + 1 /\ head'.claim = head.claim + 1
               /\ ~checkpointTerminal(head.status)
               /\ history' = Append(history, head') /\ journal' = journal
    <2>1. head.status \in {"running", "interrupted"}
      BY <1>0, <1>3, ClaimEffect
    <2> QED
      BY <1>0, <1>3, <2>1, ClaimEffect DEF checkpointTerminal, TerminalStatuses
  <1>4. ASSUME NEW o \in Owners, RenewLease(o)
        PROVE  /\ head'.claim = head.claim /\ head'.version = head.version
               /\ history' = history /\ journal' = journal
               /\ [head' EXCEPT !.expires = 0] = [head EXCEPT !.expires = 0]
    BY <1>0, <1>4, RenewEffect
  <1>5. ASSUME NEW o \in Owners, Save(o) \/ Release(o) \/ Interrupt(o)
        PROVE  /\ head'.version = head.version + 1 /\ head'.claim = head.claim
               /\ ~checkpointTerminal(head.status)
               /\ history' = Append(history, head') /\ journal' = journal
    BY <1>0, <1>5, SaveEffect
  <1>6. ASSUME NEW o \in Owners, NEW status \in TerminalStatuses,
               Finish(o, status)
        PROVE  /\ head'.version = head.version + 1 /\ head'.claim = head.claim
               /\ ~checkpointTerminal(head.status)
               /\ history' = Append(history, head') /\ journal' = journal
    BY <1>0, <1>6, FinishEffect
  <1>7. ASSUME NEW o \in Owners, NEW seq \in 1..MaxSequence,
               NEW content \in Contents,
               AppendFenced(o, seq, content) \/ AppendUnfenced(o, seq, content)
        PROVE  UNCHANGED <<head, history>>
    BY <1>7 DEF AppendFenced, AppendUnfenced
  <1>8. CASE Tick
    BY <1>8 DEF Tick
  <1> QED
    BY <1>0, <1>1, <1>2, <1>3, <1>4, <1>5, <1>6, <1>7, <1>8 DEF Next

\* ListCheckpoints shows every version once and in order, claims never go back
\* along it, and nothing follows a terminal version. (MemoryCheckpointer.write)
THEOREM HistoryIsComplete == Spec => []HistoryIsTheRun
  <1>1. Init => HistoryIsTheRun
    <2> SUFFICES ASSUME Init PROVE HistoryIsTheRun
      OBVIOUS
    <2>1. head.version = 0 /\ history = <<>>
      BY DEF Init, Absent
    <2> QED
      BY <2>1 DEF HistoryIsTheRun
  <1>2. Ownership /\ TypeOK' /\ HistoryIsTheRun /\ [Next]_vars => HistoryIsTheRun'
    <2> SUFFICES ASSUME Ownership, TypeOK', HistoryIsTheRun, [Next]_vars
                 PROVE  HistoryIsTheRun'
      OBVIOUS
    <2>0. /\ history \in Seq(Record) /\ history' \in Seq(Record)
          /\ head \in Record /\ head' \in Record
          /\ head.version \in Nat /\ head.claim \in Nat
      BY DEF Ownership, TypeOK, Record
    <2>1. CASE UNCHANGED <<head, history>>
      BY <2>1 DEF HistoryIsTheRun
    <2>2. CASE /\ head'.version = head.version /\ history' = history
               /\ [head' EXCEPT !.expires = 0] = [head EXCEPT !.expires = 0]
      BY <2>2 DEF HistoryIsTheRun
    <2>3. CASE /\ head'.version = head.version + 1
               /\ head'.claim \in {head.claim, head.claim + 1}
               /\ head.version > 0 => ~checkpointTerminal(head.status)
               /\ history' = Append(history, head')
      <3> DEFINE n == Len(history)
      <3>1. /\ n \in Nat /\ head.version = n /\ DOMAIN history = 1..n
            /\ Len(history') = n + 1 /\ DOMAIN history' = 1..(n + 1)
            /\ history'[n + 1] = head'
            /\ \A k \in 1..n : history'[k] = history[k]
        BY <2>0, <2>3 DEF HistoryIsTheRun
      <3>2. n > 0 => /\ history[n].claim = head.claim
                     /\ history[n].status = head.status
        <4> SUFFICES ASSUME n > 0 PROVE /\ history[n].claim = head.claim
                                        /\ history[n].status = head.status
          OBVIOUS
        <4>1. history[n] \in Record
                /\ [history[n] EXCEPT !.expires = 0] = [head EXCEPT !.expires = 0]
          BY <2>0, <3>1 DEF HistoryIsTheRun
        <4>2. /\ [history[n] EXCEPT !.expires = 0].claim = history[n].claim
              /\ [history[n] EXCEPT !.expires = 0].status = history[n].status
              /\ [head EXCEPT !.expires = 0].claim = head.claim
              /\ [head EXCEPT !.expires = 0].status = head.status
          BY <2>0, <4>1 DEF Record
        <4> QED
          BY <4>1, <4>2
      <3> HIDE DEF n
      <3>3. head'.version = Len(history')
        BY <2>3, <3>1
      <3>4. \A k \in DOMAIN history' : history'[k].version = k
        <4>1. \A k \in 1..n : history[k].version = k
          BY <3>1 DEF HistoryIsTheRun
        <4> QED
          BY <2>3, <3>1, <4>1
      <3>5. \A k \in DOMAIN history' : k > 1 =>
              history'[k].claim \in {history'[k-1].claim, history'[k-1].claim + 1}
        <4> SUFFICES ASSUME NEW k \in 2..(n + 1)
                     PROVE  history'[k].claim
                              \in {history'[k-1].claim, history'[k-1].claim + 1}
          BY <3>1
        <4>1. CASE k = n + 1
          BY <2>3, <3>1, <3>2, <4>1
        <4>2. CASE k # n + 1
          <5>1. k \in 1..n /\ k - 1 \in 1..n /\ k > 1
            BY <3>1, <4>2
          <5>2. history[k].claim \in {history[k-1].claim, history[k-1].claim + 1}
            BY <3>1, <5>1 DEF HistoryIsTheRun
          <5> QED
            BY <3>1, <5>1, <5>2
        <4> QED
          BY <4>1, <4>2
      <3>6. \A k \in DOMAIN history' :
              checkpointTerminal(history'[k].status) => k = Len(history')
        <4> SUFFICES ASSUME NEW k \in 1..n
                     PROVE  ~checkpointTerminal(history[k].status)
          BY <3>1
        <4>1. checkpointTerminal(history[k].status) => k = n
          BY <3>1 DEF HistoryIsTheRun, n
        <4> QED
          BY <2>3, <3>1, <3>2, <4>1
      <3>7. \A k \in DOMAIN history' : k = Len(history') =>
              [history'[k] EXCEPT !.expires = 0] = [head' EXCEPT !.expires = 0]
        BY <3>1
      <3> QED
        BY <3>3, <3>4, <3>5, <3>6, <3>7 DEF HistoryIsTheRun
    <2>4. CASE UNCHANGED vars
      BY <2>1, <2>4 DEF vars
    <2> QED
      BY <2>1, <2>2, <2>3, <2>4, HeadEffect
  <1> QED
    BY <1>1, <1>2, OwnershipCorrect, TypeCorrect, PTL DEF Spec

\* No record appended by a former owner lands behind one of its successors.
\* (MemoryStore.AppendFenced)
THEOREM JournalIsOrdered == Spec => []JournalFollowsOwnership
  <1>1. Init => JournalFollowsOwnership
    BY DEF Init, JournalFollowsOwnership
  <1>2. Ownership /\ JournalFollowsOwnership /\ [Next]_vars
          => JournalFollowsOwnership'
    <2> SUFFICES ASSUME Ownership, JournalFollowsOwnership, [Next]_vars
                 PROVE  JournalFollowsOwnership'
      OBVIOUS
    <2>0. /\ TypeOK /\ journal \in Seq(Entry) /\ head.claim \in Nat
          /\ \A k \in DOMAIN journal : journal[k].by \in Nat
      <3>1. TypeOK /\ journal \in Seq(Entry) /\ head.claim \in Nat
        BY DEF Ownership, TypeOK, Record
      <3>2. \A k \in DOMAIN journal : journal[k] \in Entry
        BY <3>1
      <3> QED
        BY <3>1, <3>2 DEF Entry
    <2>1. ASSUME UNCHANGED journal, head'.claim \in {head.claim, head.claim + 1}
          PROVE  JournalFollowsOwnership'
      BY <2>0, <2>1 DEF JournalFollowsOwnership
    <2>2. ASSUME NEW o \in Owners, NEW seq \in 1..MaxSequence,
                 NEW content \in Contents,
                 AppendFenced(o, seq, content) \/ AppendUnfenced(o, seq, content)
          PROVE  JournalFollowsOwnership'
      <3>1. /\ UNCHANGED head
            /\ \/ UNCHANGED journal
               \/ \E by \in Nat :
                    /\ journal' = Append(journal, [seq |-> seq,
                                      content |-> content, by |-> by])
                    /\ by # 0 => by = head.claim
        BY <2>0, <2>2, AppendEffect
      <3>2. ASSUME NEW by \in Nat, by # 0 => by = head.claim,
                   journal' = Append(journal, [seq |-> seq, content |-> content,
                                               by |-> by])
            PROVE  JournalFollowsOwnership'
        <4> DEFINE entry == [seq |-> seq, content |-> content, by |-> by]
                   n == Len(journal)
        <4>1. entry.by = by
          OBVIOUS
        <4> HIDE DEF entry
        <4>2. journal' = Append(journal, entry)
          BY <3>2 DEF entry
        <4>3. /\ n \in Nat /\ DOMAIN journal = 1..n
              /\ DOMAIN journal' = 1..(n + 1)
              /\ journal'[n + 1] = entry
              /\ \A k \in 1..n : journal'[k] = journal[k]
          BY <2>0, <4>2
        <4> HIDE DEF n
        <4>4. \A k \in 1..(n + 1) : journal'[k].by <= head.claim
          BY <2>0, <3>2, <4>1, <4>3 DEF JournalFollowsOwnership
        <4>5. ASSUME NEW j \in 1..(n + 1), NEW k \in 1..(n + 1), j < k,
                     journal'[j].by > 0, journal'[k].by > 0
              PROVE  journal'[j].by <= journal'[k].by
          <5>1. j \in 1..n
            BY <4>3, <4>5
          <5>2. CASE k = n + 1
            BY <3>2, <4>1, <4>3, <4>4, <4>5, <5>2
          <5>3. CASE k \in 1..n
            BY <4>3, <4>5, <5>1, <5>3 DEF JournalFollowsOwnership
          <5> QED
            BY <4>3, <5>2, <5>3
        <4> QED
          BY <3>1, <4>3, <4>4, <4>5 DEF JournalFollowsOwnership
      <3>3. CASE UNCHANGED journal
        BY <2>1, <3>1, <3>3
      <3> QED
        BY <3>1, <3>2, <3>3
    <2>3. CASE UNCHANGED vars
      BY <2>1, <2>3 DEF vars
    <2>4. ASSUME NEW o \in Owners, Load(o) PROVE JournalFollowsOwnership'
      BY <2>1, <2>4 DEF Load
    <2>5. CASE Tick
      BY <2>1, <2>5 DEF Tick
    <2>6. ASSUME NEW o \in Owners, NEW i \in Identities, Create(o, i)
          PROVE  JournalFollowsOwnership'
      <3>1. head.claim = 0 /\ head'.claim = 1 /\ UNCHANGED journal
        BY <2>0, <2>6, CreateEffect DEF Ownership, AbsentIsUnclaimed
      <3> QED
        BY <2>1, <3>1
    <2>7. ASSUME NEW o \in Owners, Claim(o) PROVE JournalFollowsOwnership'
      BY <2>0, <2>1, <2>7, ClaimEffect
    <2>8. ASSUME NEW o \in Owners, RenewLease(o) PROVE JournalFollowsOwnership'
      BY <2>0, <2>1, <2>8, RenewEffect
    <2>9. ASSUME NEW o \in Owners, Save(o) \/ Release(o) \/ Interrupt(o)
          PROVE  JournalFollowsOwnership'
      BY <2>0, <2>1, <2>9, SaveEffect
    <2>10. ASSUME NEW o \in Owners, NEW status \in TerminalStatuses,
                  Finish(o, status)
           PROVE  JournalFollowsOwnership'
      BY <2>0, <2>1, <2>10, FinishEffect
    <2> QED
      BY <2>2, <2>3, <2>4, <2>5, <2>6, <2>7, <2>8, <2>9, <2>10 DEF Next
  <1> QED
    BY <1>1, <1>2, OwnershipCorrect, PTL DEF Spec

\* Neither a late renewal nor a Save from an older copy moves the expiry of a
\* claim back while it keeps its owner. (RenewLease, write)
THEOREM LeaseOnlyGrows == Spec => LeaseNeverShortened
  <1> DEFINE Grows == head'.claim = head.claim /\ head'.owner = head.owner
                        => head'.expires >= head.expires
  <1>1. Ownership /\ [Next]_vars => [Grows]_vars
    <2> SUFFICES ASSUME Ownership, Next, head'.claim = head.claim,
                        head'.owner = head.owner
                 PROVE  head'.expires >= head.expires
      BY DEF vars
    <2>0. /\ TypeOK /\ head.expires \in Nat /\ head.claim \in Nat
          /\ head.owner = NoOwner => head.expires = 0
          /\ head.version = 0 => head.claim = 0
      BY DEF Ownership, TypeOK, AbsentIsUnclaimed, Record
    <2>1. ASSUME UNCHANGED head PROVE head'.expires >= head.expires
      BY <2>0, <2>1
    <2>2. ASSUME NEW o \in Owners, NEW i \in Identities, Create(o, i)
          PROVE  FALSE
      BY <2>0, <2>2, CreateEffect
    <2>3. ASSUME NEW o \in Owners, Claim(o) PROVE FALSE
      BY <2>0, <2>3, ClaimEffect
    <2>4. ASSUME NEW o \in Owners, RenewLease(o)
          PROVE  head'.expires >= head.expires
      BY <2>0, <2>4, RenewEffect
    <2>5. ASSUME NEW o \in Owners, Save(o) \/ Release(o) \/ Interrupt(o)
          PROVE  head'.expires >= head.expires
      BY <2>0, <2>5, SaveEffect
    <2>6. ASSUME NEW o \in Owners, NEW status \in TerminalStatuses,
                 Finish(o, status)
          PROVE  head'.expires >= head.expires
      BY <2>0, <2>6, FinishEffect
    <2>7. ASSUME NEW o \in Owners, NEW seq \in 1..MaxSequence,
                 NEW content \in Contents,
                 AppendFenced(o, seq, content) \/ AppendUnfenced(o, seq, content)
          PROVE  head'.expires >= head.expires
      BY <2>1, <2>7 DEF AppendFenced, AppendUnfenced
    <2>8. ASSUME NEW o \in Owners, Load(o) PROVE head'.expires >= head.expires
      BY <2>1, <2>8 DEF Load
    <2>9. CASE Tick
      BY <2>1, <2>9 DEF Tick
    <2> QED
      BY <2>2, <2>3, <2>4, <2>5, <2>6, <2>7, <2>8, <2>9 DEF Next
  <1> QED
    BY <1>1, OwnershipCorrect, PTL DEF Spec, LeaseNeverShortened

\* The journal has at most one record for a sequence, whoever appends, with a
\* fence or without. (MemoryLog.Append)
THEOREM SequencesAreUnique == Spec => []OneRecordPerSequence
  <1>1. Init => OneRecordPerSequence
    BY DEF Init, OneRecordPerSequence
  <1>2. TypeOK /\ OneRecordPerSequence /\ [Next]_vars => OneRecordPerSequence'
    <2> SUFFICES ASSUME TypeOK, OneRecordPerSequence, [Next]_vars
                 PROVE  OneRecordPerSequence'
      OBVIOUS
    <2>1. ASSUME UNCHANGED journal PROVE OneRecordPerSequence'
      BY <2>1 DEF OneRecordPerSequence
    <2>2. ASSUME NEW seq \in 1..MaxSequence, NEW content \in Contents, NEW by,
                 JournalAppend(seq, content, by)
          PROVE  OneRecordPerSequence'
      <3> DEFINE entry == [seq |-> seq, content |-> content, by |-> by]
                 n == Len(journal)
      <3>1. CASE \E k \in DOMAIN journal : journal[k].seq = seq
        BY <2>1, <2>2, <3>1 DEF JournalAppend
      <3>2. CASE ~\E k \in DOMAIN journal : journal[k].seq = seq
        <4>1. journal' = Append(journal, entry) /\ entry.seq = seq
          BY <2>2, <3>2 DEF JournalAppend
        <4> HIDE DEF entry
        <4>2. /\ n \in Nat /\ DOMAIN journal = 1..n
              /\ DOMAIN journal' = 1..(n + 1)
              /\ journal'[n + 1] = entry
              /\ \A k \in 1..n : journal'[k] = journal[k]
          BY <4>1 DEF TypeOK
        <4> HIDE DEF n
        <4> QED
          BY <3>2, <4>1, <4>2 DEF OneRecordPerSequence
      <3> QED
        BY <3>1, <3>2
    <2>3. ASSUME NEW o \in Owners, NEW seq \in 1..MaxSequence,
                 NEW content \in Contents,
                 AppendFenced(o, seq, content) \/ AppendUnfenced(o, seq, content)
          PROVE  OneRecordPerSequence'
      BY <2>2, <2>3 DEF AppendFenced, AppendUnfenced
    <2>4. CASE UNCHANGED vars
      BY <2>1, <2>4 DEF vars
    <2>5. CASE Tick
      BY <2>1, <2>5 DEF Tick
    <2>6. ASSUME NEW o \in Owners,
                 \/ \E i \in Identities : Create(o, i)
                 \/ Load(o) \/ Claim(o) \/ RenewLease(o)
                 \/ Save(o) \/ Release(o) \/ Interrupt(o)
                 \/ \E status \in TerminalStatuses : Finish(o, status)
          PROVE  UNCHANGED journal
      BY <2>6 DEF Create, Load, Claim, RenewLease, Save, Release, Interrupt,
                  SaveRecord, Finish, Write
    <2> QED
      BY <2>1, <2>3, <2>4, <2>5, <2>6 DEF Next
  <1> QED
    BY <1>1, <1>2, TypeCorrect, PTL DEF Spec
=============================================================================
