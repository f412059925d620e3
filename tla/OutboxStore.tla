----------------------------- MODULE OutboxStore -----------------------------
(***************************************************************************)
(* The SQLite tables violation_outbox and violation_events, with one       *)
(* operator per SQL statement of persistence/repository_outbox.py and      *)
(* repository_violations.py.  The sqlite3 module opens a transaction only  *)
(* before a write, so a SELECT and the write after it are two steps: the   *)
(* modules that call these operators put them in separate actions.         *)
(*                                                                         *)
(* A row is keyed by its idempotency key.  Times are abstracted to ready   *)
(* (available_at <= now), created_at and id to the insertion order id.     *)
(***************************************************************************)
EXTENDS Naturals, FiniteSets

CONSTANTS
    Key,             \* idempotency keys of outbox entries
    MessageIdKeys,   \* the keys derived from a platform message id
    MaxPending,      \* setting violation_outbox_max_pending
    MaxAttempts      \* setting violation_outbox_max_attempts

ASSUME StoreAssumption == /\ IsFiniteSet(Key)
                          /\ MessageIdKeys \subseteq Key
                          /\ MaxPending \in Nat \ {0}
                          /\ MaxAttempts \in Nat \ {0}

VARIABLES
    row,     \* row[k]: the violation_outbox row with idempotency key k
    audit    \* audit[k]: how many violation_events rows record message k

storeVars == <<row, audit>>

NoViolation == 0      \* violation_id IS NULL

Status == {"absent", "pending", "processing", "done", "failed"}

Row == [status: Status, id: Nat, attempts: Nat,
        ready: BOOLEAN, vid: Nat]

AbsentRow == [status |-> "absent", id |-> 0, attempts |-> 0,
              ready |-> FALSE, vid |-> NoViolation]

Persisted == {k \in Key : row[k].status # "absent"}
Active    == {k \in Key : row[k].status \in {"pending", "processing"}}

(* Mutant: the limit is exceeded by one. *)
OutboxFullOffByOne == Cardinality(Active) > MaxPending

(* SELECT COUNT( * ) ... WHERE status IN ('pending', 'processing') *)
OutboxFull == Cardinality(Active) >= MaxPending

(* INSERT INTO violation_outbox; the caller has checked the UNIQUE key. *)
Insert(k) ==
    row' = [row EXCEPT ![k] = [status |-> "pending",
                               id |-> Cardinality(Persisted) + 1,
                               attempts |-> 0, ready |-> TRUE,
                               vid |-> NoViolation]]

-----------------------------------------------------------------------------
(* The claim: ORDER BY priority DESC, created_at ASC, id ASC LIMIT 1. *)

Priority(k) == IF k \in MessageIdKeys THEN 100 ELSE 50

(* Mutant: the last attempt is never claimed. *)
ClaimableButLast == {k \in Key : /\ row[k].status = "pending"
                                 /\ row[k].ready
                                 /\ row[k].attempts + 1 < MaxAttempts}

Claimable == {k \in Key : /\ row[k].status = "pending"
                          /\ row[k].ready
                          /\ row[k].attempts < MaxAttempts}

Precedes(j, k) == \/ Priority(j) > Priority(k)
                  \/ Priority(j) = Priority(k) /\ row[j].id < row[k].id

NextClaimable == {k \in Claimable : \A j \in Claimable \ {k} : Precedes(k, j)}

(* UPDATE ... SET status = 'processing' WHERE id = k AND status = 'pending' *)
ClaimRow(k) == IF row[k].status = "pending"
               THEN row' = [row EXCEPT ![k].status = "processing"]
               ELSE row' = row

-----------------------------------------------------------------------------
(* The updates by id: none of them looks at the status it overwrites. *)

SetRowViolation(k, v) == row' = [row EXCEPT ![k].vid = v]

(* violation_id = COALESCE(?, violation_id) *)
MarkRowDone(k, v) ==
    row' = [row EXCEPT ![k].status = "done",
                       ![k].vid = IF v = NoViolation THEN @ ELSE v]

(* Mutant: one attempt too many before the row is given up. *)
RetryRowOffByOne(k, n) ==
    row' = [row EXCEPT ![k].status = IF n + 1 > MaxAttempts THEN "failed"
                                                            ELSE "pending",
                       ![k].attempts = n + 1,
                       ![k].ready = FALSE]

(* n is the attempt_count the SELECT of the same call returned. *)
RetryRow(k, n) ==
    row' = [row EXCEPT ![k].status = IF n + 1 >= MaxAttempts THEN "failed"
                                                             ELSE "pending",
                       ![k].attempts = n + 1,
                       ![k].ready = FALSE]

(* Mutant: a deferred job is charged an attempt. *)
DeferRowCharged(k) == row' = [row EXCEPT ![k].status = "pending", ![k].ready = FALSE,
                                         ![k].attempts = @ + 1]

DeferRow(k) == row' = [row EXCEPT ![k].status = "pending", ![k].ready = FALSE]

(* Mutant: the recovery takes everything that has not failed. *)
RecoverRowsAndDone ==
    row' = [k \in Key |-> IF row[k].status \in {"processing", "done"}
                          THEN [row[k] EXCEPT !.status = "pending", !.ready = TRUE]
                          ELSE row[k]]

(* UPDATE ... SET status = 'pending' WHERE status = 'processing' *)
RecoverRows ==
    row' = [k \in Key |-> IF row[k].status = "processing"
                          THEN [row[k] EXCEPT !.status = "pending", !.ready = TRUE]
                          ELSE row[k]]

-----------------------------------------------------------------------------
(* record_violation: UNIQUE (platform, group_id, message_id) holds only where
   message_id <> '', so a message without an id gets a new row every time.  *)
RecordedViolation(k) == IF k \in MessageIdKeys /\ audit[k] > 0
                        THEN 1
                        ELSE audit[k] + 1

RecordViolation(k) ==
    audit' = [audit EXCEPT ![k] = IF @ >= RecordedViolation(k)
                                  THEN @ ELSE RecordedViolation(k)]

-----------------------------------------------------------------------------
(* available_at passes. *)
BecomeAvailable(k) == /\ row[k].status = "pending"
                      /\ ~row[k].ready
                      /\ row' = [row EXCEPT ![k].ready = TRUE]

StoreTypeOK == /\ row \in [Key -> Row]
               /\ audit \in [Key -> Nat]

StoreInit == /\ row = [k \in Key |-> AbsentRow]
             /\ audit = [k \in Key |-> 0]
=============================================================================
