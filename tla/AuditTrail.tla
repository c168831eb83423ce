----------------------------- MODULE AuditTrail -----------------------------
(***************************************************************************)
(* PostgresAuditTrail: log() chains an entry to the one before and puts it *)
(* into a buffer; a task flushes the buffer into the database now and      *)
(* then, and close() once more.  A flush awaits every write and goes over  *)
(* the live buffer by index, so entries come and go under it: log() drops  *)
(* the oldest of a full buffer, log_async() removes what it wrote itself.  *)
(*                                                                         *)
(* Entries are numbered; the number of an entry stands for its hash and    *)
(* the one before it for prev_hash, 0 for GENESIS.                         *)
(***************************************************************************)
EXTENDS Naturals, Sequences, FiniteSets, SequencesExt

CONSTANTS
    MaxBuffer,      \* max_buffer_size
    MaxEntries      \* bound: entries logged

ASSUME AuditAssumption == MaxBuffer \in Nat \ {0} /\ MaxEntries \in Nat

VARIABLES
    lastHash,   \* _last_hash
    buffer,     \* _buffer, a sequence of [hash, prev]
    dropped,    \* the counter AUDIT_BUFFER_DROPS
    pool,       \* there is a connection pool
    auditor,    \* "start" | "run" | "closing" | "closed": connect, periodic flush, close
    flushing,   \* [on, i, entry, remaining]: the write the flush awaits
    writing,    \* entries whose log_async awaits its write
    auditLog,   \* the table: a set of entries, the copies of one not told apart
    shifted     \* history: entries log_async removed while a flush went over the buffer

auditVars == <<lastHash, buffer, dropped, pool, auditor, flushing, writing, auditLog, shifted>>

NotFlushing == [on |-> FALSE, i |-> 0, entry |-> [hash |-> 0, prev |-> 0], remaining |-> <<>>]

\* compute_audit_hash.
NewEntry == [hash |-> lastHash + 1, prev |-> lastHash]

\* A write commits and returns, fails, or commits and fails.
Outcomes == {"ok", "failed", "unknown"}

Inserted(entry, outcome) == IF outcome = "failed" THEN auditLog ELSE auditLog \cup {entry}

\* connect; without a database the entries stay in the buffer.
ConnectAudit(ok) ==
    /\ auditor = "start"
    /\ auditor' = "run" /\ pool' = ok
    /\ UNCHANGED <<lastHash, buffer, dropped, flushing, writing, auditLog, shifted>>

\* _persist.
Persist(entry) ==
    IF Len(buffer) >= MaxBuffer
    THEN buffer' = Append(Tail(buffer), entry) /\ dropped' = dropped + 1
    ELSE buffer' = Append(buffer, entry) /\ UNCHANGED dropped

Log ==
    /\ auditor = "run" /\ lastHash < MaxEntries
    /\ Persist(NewEntry)
    /\ lastHash' = NewEntry.hash
    /\ UNCHANGED <<pool, auditor, flushing, writing, auditLog, shifted>>

LogAsync ==
    /\ auditor = "run" /\ lastHash < MaxEntries
    /\ Persist(NewEntry)
    /\ lastHash' = NewEntry.hash
    /\ writing' = IF pool THEN writing \cup {NewEntry} ELSE writing
    /\ UNCHANGED <<pool, auditor, flushing, auditLog, shifted>>

\* Where the entry is in the buffer, which holds it once.
PlaceOf(entry) == CHOOSE p \in DOMAIN buffer : buffer[p] = entry

AsyncWritten(entry, outcome) ==
    LET there == outcome = "ok" /\ Contains(buffer, entry)
    IN  /\ entry \in writing
        /\ writing' = writing \ {entry}
        /\ auditLog' = Inserted(entry, outcome)
        /\ buffer' = IF there THEN RemoveAt(buffer, PlaceOf(entry)) ELSE buffer
        /\ shifted' = IF there /\ flushing.on THEN shifted + 1 ELSE shifted
        /\ UNCHANGED <<lastHash, dropped, pool, auditor, flushing>>

FlushBegins ==
    flushing' = [on |-> TRUE, i |-> 1, entry |-> buffer[1], remaining |-> <<>>]

\* The interval is over.
PeriodicFlush ==
    /\ auditor = "run" /\ ~flushing.on
    /\ pool /\ buffer # <<>>
    /\ FlushBegins
    /\ UNCHANGED <<lastHash, buffer, dropped, pool, auditor, writing, auditLog, shifted>>

\* Sensitivity variant: what could not be written is given up.
KeptNone(outcome) == <<>>

Kept(outcome) ==
    IF outcome = "ok" THEN flushing.remaining ELSE Append(flushing.remaining, flushing.entry)

\* A write of the flush is over; then the next index, or the end.
FlushWritten(outcome) ==
    LET i == flushing.i + 1
    IN  /\ flushing.on
        /\ auditLog' = Inserted(flushing.entry, outcome)
        /\ IF i <= Len(buffer)
           THEN /\ flushing' = [on |-> TRUE, i |-> i, entry |-> buffer[i], remaining |-> Kept(outcome)]
                /\ UNCHANGED <<buffer, auditor>>
           ELSE /\ flushing' = NotFlushing
                /\ buffer' = Kept(outcome)
                /\ auditor' = IF auditor = "closing" THEN "closed" ELSE auditor
        /\ UNCHANGED <<lastHash, dropped, pool, writing, shifted>>

\* close: the task is cancelled, in the middle of a flush too, which then leaves the
\* buffer as it was; whether the write it awaited was committed is open.
CloseAudit(outcome) ==
    /\ auditor = "run"
    /\ auditLog' = IF flushing.on THEN Inserted(flushing.entry, outcome) ELSE auditLog
    /\ IF pool /\ buffer # <<>>
       THEN auditor' = "closing" /\ FlushBegins
       ELSE auditor' = "closed" /\ flushing' = NotFlushing
    /\ UNCHANGED <<lastHash, buffer, dropped, pool, writing, shifted>>

AuditInit ==
    /\ lastHash = 0 /\ buffer = <<>> /\ dropped = 0 /\ pool = FALSE /\ auditor = "start"
    /\ flushing = NotFlushing /\ writing = {} /\ auditLog = {} /\ shifted = 0

AuditNext ==
    \/ \E ok \in BOOLEAN : ConnectAudit(ok)
    \/ Log \/ LogAsync \/ PeriodicFlush
    \/ \E outcome \in Outcomes :
          \/ \E entry \in writing : AsyncWritten(entry, outcome)
          \/ FlushWritten(outcome)
          \/ CloseAudit(outcome)

AuditSpec == AuditInit /\ [][AuditNext]_auditVars

\* What has a place: in the table, in the buffer, or to be put back into it by the flush.
Held == auditLog \cup ToSet(buffer) \cup ToSet(flushing.remaining)
        \cup (IF flushing.on THEN {flushing.entry} ELSE {})

Logged == {[hash |-> h, prev |-> h - 1] : h \in 1..lastHash}

\* An entry disappears only where the counter says that one was dropped (though it may be
\* another one, which was written already) or where log_async removed one during a
\* flush, whose index then passes over the next (PostgresAuditTrail.flush).
AuditLossesCounted == Cardinality(Logged \ Held) <= dropped + shifted
=============================================================================
