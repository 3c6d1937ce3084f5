------------------------------ MODULE AuditTrail ------------------------------
(***************************************************************************)
(* The audit log of the backend (services/audit_service.rs) and what       *)
(* writes it (middleware/audit.rs, handlers/auth.rs): every request that   *)
(* passed authentication, and every login, is logged by a task of its own, *)
(* which reads the newest hash and then inserts a row chained to it.       *)
(* verify_chain recomputes the chain; rows may meanwhile be altered or     *)
(* deleted by somebody who has the database and not the key.  Rows without *)
(* a hash, which are from before there was a chain, are no part of it.     *)
(*                                                                         *)
(* An HMAC is an injective function of what it covers.  Rows are in the    *)
(* order of their insertion; texts and their redaction are left out.       *)
(***************************************************************************)
EXTENDS Integers, Sequences, SequencesExt, Filtering

CONSTANTS
  Writer,         \* tasks that log
  HttpRequest,    \* requests: [method, path, status, address]
  RetentionDays,  \* audit_retention_days
  MaxRows,        \* bound on rows that are written
  MaxDays,        \* bound on days
  MaxAlterations  \* bound on changes from outside

ASSUME AuditAssumption == RetentionDays \in Nat /\ MaxRows \in Nat

VARIABLES
  auditRows,    \* audit_logs, oldest first
  task,         \* the event a task is to log and the hash it has read
  today,
  written,      \* history: every row that was inserted
  alterations,  \* changes from outside so far
  raced         \* history: two tasks were at work together, or rows were purged

auditVars == <<auditRows, task, today, written, alterations, raced>>

NoHash == <<>>
NoTask == [at |-> "none", event |-> [kind |-> "none"], prev |-> NoHash]

------------------------------------------------------------------------------
(* What is logged of a request.                                            *)

ShouldSkip(path) == path \in {"/health", "/docs"}
IsBusinessPath(path) == path \in {"/products", "/carbon"}

ClassifyEvent(r) ==
  CASE r.status \in {401, 403, 429} \/ r.status >= 500 -> "security_event"
    [] IsBusinessPath(r.path) /\ r.method # "GET" /\ r.status \notin {401, 403, 429}
         /\ r.status < 500 -> "business_event"
    [] OTHER -> IF r.method = "GET" THEN "data_access" ELSE "user_action"

ClassifySeverity(status) ==
  CASE status >= 500 -> "error" [] status \in 400 .. 499 -> "warn" [] OTHER -> "info"

HttpEvent(r) ==
  [kind |-> "http_request", category |-> ClassifyEvent(r), severity |-> ClassifySeverity(r.status),
   path |-> r.path, success |-> r.status \in 200 .. 299, address |-> r.address]

\* login: a failure is a security event.
LoginEvent(success, address) ==
  [kind |-> "login", category |-> IF success THEN "auth_event" ELSE "security_event",
   severity |-> IF success THEN "info" ELSE "warn", path |-> "/login", success |-> success,
   address |-> address]

Spawn(w, event) ==
  /\ task[w] = NoTask
  /\ Len(written) < MaxRows
  /\ task' = [task EXCEPT ![w] = [at |-> "read", event |-> event, prev |-> NoHash]]
  /\ raced' = (raced \/ \E v \in Writer : task[v] # NoTask)
  /\ UNCHANGED <<auditRows, today, written, alterations>>

SpawnHttpAudit(w, r) == ~ShouldSkip(r.path) /\ Spawn(w, HttpEvent(r))

SpawnLoginAudit(w, success, address) == Spawn(w, LoginEvent(success, address))

------------------------------------------------------------------------------
(* log.                                                                    *)

\* Both queries leave out the rows whose hash is NULL.
Chained(rows) == Kept(rows, {row \in ToSet(rows) : row.hash # NoHash})
Chain == Chained(auditRows)

LatestHash == IF Chain = <<>> THEN NoHash ELSE Last(Chain).hash

\* The address and the user agent are not covered.
Covered(event) == [f \in DOMAIN event \ {"address"} |-> event[f]]

\* Mutant: what the row says is not covered either.
HmacOfPrev(event, prev) == <<"row", prev>>

Hmac(event, prev) == <<Covered(event), prev>>

ReadLatest(w) ==
  /\ task[w].at = "read"
  /\ task' = [task EXCEPT ![w].at = "insert", ![w].prev = LatestHash]
  /\ UNCHANGED <<auditRows, today, written, alterations, raced>>

Insert(w) ==
  LET t == task[w]
      row == [event |-> t.event, prev |-> t.prev, hash |-> Hmac(t.event, t.prev), day |-> today]
  IN  /\ t.at = "insert"
      /\ auditRows' = Append(auditRows, row)
      /\ written' = Append(written, row)
      /\ task' = [task EXCEPT ![w] = NoTask]
      /\ UNCHANGED <<today, alterations, raced>>

\* A failure is a warning in the process's own log; so is nothing at all.
LogFails(w) ==
  /\ task[w] # NoTask
  /\ task' = [task EXCEPT ![w] = NoTask]
  /\ UNCHANGED <<auditRows, today, written, alterations, raced>>

NextDay ==
  /\ today < MaxDays /\ today' = today + 1
  /\ UNCHANGED <<auditRows, task, written, alterations, raced>>

\* purge_expired, which nothing schedules yet.
PurgeExpired ==
  /\ auditRows # <<>>
  /\ auditRows' = Kept(auditRows, {row \in ToSet(auditRows) : row.day >= today - RetentionDays})
  /\ raced' = (raced \/ auditRows' # auditRows)
  /\ UNCHANGED <<task, today, written, alterations>>

\* verify_chain: every row points to the one before it and is covered by its hash.
Valid ==
  LET rows == Chain
  IN  \A i \in 1 .. Len(rows) :
        /\ rows[i].prev = (IF i = 1 THEN NoHash ELSE rows[i - 1].hash)
        /\ rows[i].hash = Hmac(rows[i].event, rows[i].prev)

------------------------------------------------------------------------------
(* Changes from outside, with hashes that were seen in the table.          *)

KnownHashes == {NoHash} \union {auditRows[i].hash : i \in 1 .. Len(auditRows)}

Altered(i) ==
  \/ \E r \in HttpRequest : auditRows' = [auditRows EXCEPT ![i].event = HttpEvent(r)]
  \/ \E h \in KnownHashes : auditRows' = [auditRows EXCEPT ![i].prev = h]
  \/ \E h \in KnownHashes : auditRows' = [auditRows EXCEPT ![i].hash = h]
  \/ auditRows' = RemoveAt(auditRows, i)
  \/ \E j \in 1 .. Len(auditRows) :
       auditRows' = [auditRows EXCEPT ![i] = auditRows[j], ![j] = auditRows[i]]

Alter ==
  /\ alterations < MaxAlterations /\ alterations' = alterations + 1
  /\ \E i \in 1 .. Len(auditRows) : Altered(i)
  /\ UNCHANGED <<task, today, written, raced>>

\* A row from before the chain.
OldRow(r) == [event |-> HttpEvent(r), prev |-> NoHash, hash |-> NoHash, day |-> 0]

AuditInit ==
  /\ auditRows = <<>> \/ \E r \in HttpRequest : ~ShouldSkip(r.path) /\ auditRows = <<OldRow(r)>>
  /\ written = <<>> /\ today = 0 /\ alterations = 0 /\ raced = FALSE
  /\ task = [w \in Writer |-> NoTask]

AuditNext ==
  \/ \E w \in Writer :
       \/ \E r \in HttpRequest : SpawnHttpAudit(w, r) \/ SpawnLoginAudit(w, r.status = 200, r.address)
       \/ ReadLatest(w) \/ Insert(w) \/ LogFails(w)
  \/ NextDay \/ PurgeExpired \/ Alter

AuditSpec == AuditInit /\ [][AuditNext]_auditVars

------------------------------------------------------------------------------

AllWritten ==
  LET rows == Chain
  IN  \A i \in 1 .. Len(rows) :
        \E k \in 1 .. Len(written) :
          /\ Covered(written[k].event) = Covered(rows[i].event)
          /\ written[k].prev = rows[i].prev
          /\ i > 1 => \E j \in 1 .. k - 1 : Covered(written[j].event) = Covered(rows[i - 1].event)

(***************************************************************************)
(* What verify_chain says is so.  If it finds the table valid, every row   *)
(* with a hash is one the service wrote, with the event it wrote then but  *)
(* for the address, and these rows are in the order they were written,     *)
(* whatever was altered, purged or logged in between.  Of rows without a   *)
(* hash it says nothing: who takes a row's hash away takes the row out of  *)
(* what is verified.  And it finds a log nobody touched valid, after any   *)
(* sequence of events and failures, as long as no two tasks are at work    *)
(* together and no row is purged or altered.                               *)
(***************************************************************************)
VerifyTellsTruth ==
  /\ Valid => AllWritten
  /\ ~raced /\ alterations = 0 => Valid
=============================================================================
