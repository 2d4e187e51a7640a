----------------------------- MODULE FraudOutbox -----------------------------
(***************************************************************************)
(* The fraud outbox and its publishers (services/fraud_outbox_publisher).  *)
(* The event processor inserts a row in the transaction that creates the   *)
(* alert; publishers claim due rows in batches under a token and a TTL,    *)
(* publish each to Kafka, and mark it published, due again later, or       *)
(* failed for good.  Publishers crash, outlive their claims, and lose      *)
(* Kafka or the database between any two of these steps.                   *)
(***************************************************************************)
EXTENDS Integers, FiniteSets

CONSTANTS
    NumRows,        \* bound: outbox rows, numbered in order of creation
    Corrupt,        \* rows whose stored payload publish() rejects
    Publisher,      \* publisher processes
    Token,          \* claim tokens (uuid4)
    BatchSize,      \* fraud_outbox_batch_size
    MaxAttempts,    \* fraud_outbox_max_attempts
    FaultKinds,     \* the disturbances that may happen
    MaxFaults,      \* bound: how many disturbances happen in a behaviour
    NoToken

Row == 1 .. NumRows

ASSUME OutboxAssumption ==
    /\ NumRows \in Nat
    /\ Corrupt \subseteq Row
    /\ BatchSize \in Nat \ {0}
    /\ MaxAttempts \in Nat \ {0}
    /\ MaxFaults \in Nat
    /\ NoToken \notin Token

VARIABLES
    \* the fraud_outbox table: status, claim_token, attempts, whether
    \* available_at has been reached and whether claimed_at is older than
    \* the claim TTL
    status, claimToken, attempts, due, old,
    \* alert events on the topic (duplicates carry the same event id)
    topic,
    \* the publishers: control point, rows of the batch not yet finished,
    \* the batch's token, OutboxRecord.attempts, and messages handed to the
    \* Kafka client that are not acknowledged
    pc, batch, token, tries, unacked,
    \* disturbances left
    budget

tableVars  == <<status, claimToken, attempts, due, old>>
workerVars == <<batch, token, tries>>
vars == <<tableVars, topic, pc, workerVars, unacked, budget>>

Status == {"ABSENT", "PENDING", "PUBLISHING", "PUBLISHED", "FAILED"}
PC == {"down", "claim", "publish", "mark", "fail"}

TypeOK ==
    /\ status \in [Row -> Status]
    /\ claimToken \in [Row -> Token \cup {NoToken}]
    /\ attempts \in [Row -> Nat]
    /\ due \in [Row -> BOOLEAN]
    /\ old \in [Row -> BOOLEAN]
    /\ topic \subseteq Row
    /\ pc \in [Publisher -> PC]
    /\ batch \in [Publisher -> SUBSET Row]
    /\ \A p \in Publisher : Cardinality(batch[p]) <= BatchSize
    /\ token \in [Publisher -> Token \cup {NoToken}]
    /\ tries \in [Publisher -> [Row -> Nat]]
    /\ unacked \in [Publisher -> SUBSET Row]
    /\ budget \in 0 .. MaxFaults

Init ==
    /\ status = [r \in Row |-> "ABSENT"]
    /\ claimToken = [r \in Row |-> NoToken]
    /\ attempts = [r \in Row |-> 0]
    /\ due = [r \in Row |-> FALSE]
    /\ old = [r \in Row |-> FALSE]
    /\ topic = {}
    /\ pc = [p \in Publisher |-> "down"]
    /\ batch = [p \in Publisher |-> {}]
    /\ token = [p \in Publisher |-> NoToken]
    /\ tries = [p \in Publisher |-> [r \in Row |-> 0]]
    /\ unacked = [p \in Publisher |-> {}]
    /\ budget = MaxFaults

-----------------------------------------------------------------------------
Goto(p, l) == pc' = [pc EXCEPT ![p] = l]

Fault(kind) ==
    /\ kind \in FaultKinds
    /\ budget > 0
    /\ budget' = budget - 1

(* The first n rows of S in order of creation. *)
Oldest(S, n) == {r \in S : Cardinality({s \in S : s < r}) < n}

(* The record the loop over the batch is at. *)
Current(p) == CHOOSE r \in batch[p] : \A s \in batch[p] : r <= s

(* A faulty variant: the claim token is not compared. *)
ClaimedByAnyone(p) == TRUE

(* p still holds the claim on the record it is at. *)
Claimed(p) == claimToken[Current(p)] = token[p]

(* uuid4 never repeats a token that a row or a publisher still has. *)
FreshToken ==
    Token \ ({claimToken[r] : r \in Row} \cup {token[p] : p \in Publisher})

-----------------------------------------------------------------------------
(* FraudRepository.persist inserts the row in the processor's transaction. *)
Insert(r) ==
    /\ status[r] = "ABSENT"
    /\ \A s \in 1 .. r - 1 : status[s] # "ABSENT"
    /\ status' = [status EXCEPT ![r] = "PENDING"]
    /\ due' = [due EXCEPT ![r] = TRUE]
    /\ UNCHANGED <<claimToken, attempts, old, topic, pc, workerVars, unacked, budget>>

(* Time passes: a backoff ends, a claim reaches its TTL.  A claim whose    *)
(* publisher still works on it only gets that old when the batch takes too *)
(* long, which is a disturbance.                                           *)
BackoffEnds(r) ==
    /\ status[r] = "PENDING"
    /\ ~due[r]
    /\ due' = [due EXCEPT ![r] = TRUE]
    /\ UNCHANGED <<status, claimToken, attempts, old, topic, pc, workerVars, unacked,
                   budget>>

Orphaned(r) ==
    /\ status[r] = "PUBLISHING"
    /\ \A p \in Publisher : ~(r \in batch[p] /\ token[p] = claimToken[r])

ClaimExpires(r) ==
    /\ status[r] = "PUBLISHING"
    /\ ~old[r]
    /\ IF Orphaned(r) THEN UNCHANGED budget ELSE Fault("stall")
    /\ old' = [old EXCEPT ![r] = TRUE]
    /\ UNCHANGED <<status, claimToken, attempts, due, topic, pc, workerVars, unacked>>

(* A faulty variant: abandoned claims are never recovered. *)
ExpiredNever == {}

(* claim(): one transaction returns expired claims to PENDING, then takes  *)
(* the oldest due rows, up to the batch size, under a new token.           *)
Expired == {r \in Row : status[r] = "PUBLISHING" /\ old[r]}
Claimable == {r \in Row : status[r] = "PENDING" \/ r \in Expired} \cap {r \in Row : due[r]}

Claim(p) ==
    LET rows == Oldest(Claimable, BatchSize)
    IN  /\ pc[p] = "claim"
        /\ rows # {}
        /\ \E t \in FreshToken :
            /\ claimToken' = [r \in Row |-> IF r \in rows THEN t
                                            ELSE IF r \in Expired THEN NoToken
                                            ELSE claimToken[r]]
            /\ token' = [token EXCEPT ![p] = t]
        /\ status' = [r \in Row |-> IF r \in rows THEN "PUBLISHING"
                                    ELSE IF r \in Expired THEN "PENDING"
                                    ELSE status[r]]
        /\ old' = [r \in Row |-> old[r] /\ r \notin Expired]
        /\ attempts' = [r \in Row |-> IF r \in rows THEN attempts[r] + 1 ELSE attempts[r]]
        /\ tries' = [tries EXCEPT ![p] = [r \in Row |-> IF r \in rows THEN attempts[r] + 1
                                                        ELSE 0]]
        /\ batch' = [batch EXCEPT ![p] = rows]
        /\ Goto(p, "publish")
        /\ UNCHANGED <<due, topic, unacked, budget>>

(* The publisher moves to the next record, or claims again; a record it is *)
(* done with is forgotten.                                                 *)
NextRecord(p) ==
    LET done == batch[p] = {Current(p)}
    IN  /\ batch' = [batch EXCEPT ![p] = @ \ {Current(p)}]
        /\ token' = [token EXCEPT ![p] = IF done THEN NoToken ELSE @]
        /\ tries' = [tries EXCEPT ![p] = [@ EXCEPT ![Current(p)] = 0]]
        /\ Goto(p, IF done THEN "claim" ELSE "publish")

-----------------------------------------------------------------------------
(* publish(): a corrupt payload raises before Kafka; otherwise produce and *)
(* flush, which waits for this message and every earlier one.              *)
Publish(p) ==
    LET r == Current(p)
    IN  /\ pc[p] = "publish"
        /\ \/ r \in Corrupt /\ Goto(p, "fail") /\ UNCHANGED <<topic, unacked>>
           \/ /\ r \notin Corrupt
              /\ topic' = topic \cup unacked[p] \cup {r}
              /\ unacked' = [unacked EXCEPT ![p] = {}]
              /\ Goto(p, "mark")
        /\ UNCHANGED <<tableVars, workerVars, budget>>

(* A faulty variant: what flush() returns is not looked at. *)
PublishFailsIgnored(p) ==
    LET r == Current(p)
    IN  /\ pc[p] = "publish"
        /\ r \notin Corrupt
        /\ Fault("kafka")
        /\ \E sent, left \in SUBSET (unacked[p] \cup {r}) :
            /\ topic' = topic \cup sent
            /\ unacked' = [unacked EXCEPT ![p] = left]
        /\ Goto(p, "mark")
        /\ UNCHANGED <<tableVars, workerVars>>

(* flush() times out with messages still unacknowledged, this one or an    *)
(* earlier one; they may be on the topic or get there later.  Or the       *)
(* delivery report of this message carries an error.                       *)
PublishFails(p) ==
    LET r == Current(p)
    IN  /\ pc[p] = "publish"
        /\ r \notin Corrupt
        /\ Fault("kafka")
        /\ \E sent, left \in SUBSET (unacked[p] \cup {r}) :
            /\ topic' = topic \cup sent
            /\ unacked' = [unacked EXCEPT ![p] = left]
        /\ Goto(p, "fail")
        /\ UNCHANGED <<tableVars, workerVars>>

(* The Kafka client goes on retrying in the background. *)
LateDelivery(p, r) ==
    /\ r \in unacked[p]
    /\ topic' = topic \cup {r}
    /\ unacked' = [unacked EXCEPT ![p] = @ \ {r}]
    /\ UNCHANGED <<tableVars, pc, workerVars, budget>>

(* The row becomes PUBLISHED and is no longer claimed. *)
SetPublished(r) ==
    /\ status' = [status EXCEPT ![r] = "PUBLISHED"]
    /\ claimToken' = [claimToken EXCEPT ![r] = NoToken]
    /\ old' = [old EXCEPT ![r] = FALSE]

(* A faulty variant: only the status is checked, not the token. *)
MarkPublishedUnchecked(p) ==
    LET r == Current(p)
    IN  /\ pc[p] = "mark"
        /\ \/ /\ status[r] = "PUBLISHING"
              /\ SetPublished(r)
              /\ NextRecord(p)
           \/ /\ status[r] # "PUBLISHING"
              /\ Goto(p, "fail")
              /\ UNCHANGED <<status, claimToken, old, workerVars>>
        /\ UNCHANGED <<attempts, due, topic, unacked, budget>>

(* published(): a lost claim raises, which run() handles like a failure. *)
MarkPublished(p) ==
    LET r == Current(p)
    IN  /\ pc[p] = "mark"
        /\ \/ /\ status[r] = "PUBLISHING" /\ Claimed(p)
              /\ SetPublished(r)
              /\ NextRecord(p)
           \/ /\ ~(status[r] = "PUBLISHING" /\ Claimed(p))
              /\ Goto(p, "fail")
              /\ UNCHANGED <<status, claimToken, old, workerVars>>
        /\ UNCHANGED <<attempts, due, topic, unacked, budget>>

(* The database fails, before or after the update took effect. *)
MarkFails(p) ==
    LET r == Current(p)
    IN  /\ pc[p] = "mark"
        /\ Fault("db")
        /\ \/ UNCHANGED <<status, claimToken, old>>
           \/ status[r] = "PUBLISHING" /\ Claimed(p) /\ SetPublished(r)
        /\ Goto(p, "fail")
        /\ UNCHANGED <<attempts, due, topic, workerVars, unacked>>

(* failed(): the row is due again after a backoff, or FAILED once the      *)
(* attempts are used up; a lost claim makes it a no-op.                    *)
MarkFailed(p) ==
    LET r == Current(p)
    IN  /\ pc[p] = "fail"
        /\ IF Claimed(p)
           THEN /\ status' = [status EXCEPT ![r] = IF tries[p][r] >= MaxAttempts
                                                   THEN "FAILED" ELSE "PENDING"]
                /\ claimToken' = [claimToken EXCEPT ![r] = NoToken]
                /\ old' = [old EXCEPT ![r] = FALSE]
                /\ due' = [due EXCEPT ![r] = FALSE]
           ELSE UNCHANGED <<status, claimToken, old, due>>
        /\ NextRecord(p)
        /\ UNCHANGED <<attempts, topic, unacked, budget>>

-----------------------------------------------------------------------------
Start(p) ==
    /\ pc[p] = "down"
    /\ Goto(p, "claim")
    /\ UNCHANGED <<tableVars, topic, workerVars, unacked, budget>>

(* The process ends: a signal between batches, a database error outside    *)
(* the handler in run(), or a crash.  Unsent messages are lost with it.    *)
Exit(p) ==
    /\ pc[p] # "down"
    /\ \/ Fault("crash")
       \/ pc[p] \in {"claim", "fail"} /\ Fault("db")
       \/ pc[p] = "claim" /\ Fault("signal")
    /\ Goto(p, "down")
    /\ batch' = [batch EXCEPT ![p] = {}]
    /\ token' = [token EXCEPT ![p] = NoToken]
    /\ tries' = [tries EXCEPT ![p] = [r \in Row |-> 0]]
    /\ unacked' = [unacked EXCEPT ![p] = {}]
    /\ UNCHANGED <<tableVars, topic>>

Step(p) ==
    Start(p) \/ Claim(p) \/ Publish(p) \/ MarkPublished(p) \/ MarkFailed(p)

Next ==
    \/ \E p \in Publisher : \/ Step(p) \/ PublishFails(p) \/ MarkFails(p) \/ Exit(p)
                            \/ \E r \in Row : LateDelivery(p, r)
    \/ \E r \in Row : Insert(r) \/ BackoffEnds(r) \/ ClaimExpires(r)

Spec == Init /\ [][Next]_vars

(***************************************************************************)
(* Fairness: a publisher that can act does (compose.yaml restarts it,      *)
(* restart: unless-stopped), and time passes.                              *)
(***************************************************************************)
Fairness ==
    /\ \A p \in Publisher : WF_vars(Step(p))
    /\ \A r \in Row : /\ WF_vars(BackoffEnds(r))
                      /\ WF_vars(Orphaned(r) /\ ClaimExpires(r))

FairSpec == Spec /\ Fairness
-----------------------------------------------------------------------------
(* README.md:109-110, "publishes fraud alerts with at-least-once           *)
(* delivery": a row is only PUBLISHED when its event is on the topic,      *)
(* whichever publisher, timeout or late acknowledgement got it there       *)
(* (publisher.py:64-67, service.py:62-63).                                 *)
PublishedIsDelivered ==
    \A r \in Row : status[r] = "PUBLISHED" => r \in topic

(* A row is given up only after max_attempts claims (repository.py:130),   *)
(* however many publishers have shared it.                                 *)
FailedIsExhausted ==
    \A r \in Row : status[r] = "FAILED" => attempts[r] >= MaxAttempts

(* What a reader of the table may rely on at any moment, with publishers   *)
(* working, stalled and restarted: the row is well formed, and a settled   *)
(* one was delivered or has used up its attempts (repository.py:30-152).   *)
OutboxInv == TypeOK /\ PublishedIsDelivered /\ FailedIsExhausted

(* PUBLISHED and FAILED are final: no late failed() of a publisher whose   *)
(* claim expired puts a published alert back (repository.py:143).          *)
SettledForGood ==
    [][\A r \in Row : status[r] \in {"PUBLISHED", "FAILED"} => status'[r] = status[r]]_vars

(* A claim is ended by its holder or, after its TTL, by a claim(): never   *)
(* by a publisher that held the row earlier (repository.py:120, 143).      *)
OnlyHolderEndsClaim ==
    [][\A p \in Publisher, r \in Row :
        (/\ pc[p] # pc'[p]
         /\ status[r] = "PUBLISHING" /\ ~old[r]
         /\ claimToken'[r] # claimToken[r]) => token[p] = claimToken[r]]_vars

(* Every inserted row is settled in the end: an abandoned claim, a lost    *)
(* answer or a backoff never strands it (repository.py:34-43).             *)
EventuallySettled ==
    \A r \in Row : status[r] # "ABSENT" ~> status[r] \in {"PUBLISHED", "FAILED"}
(***************************************************************************)
(* Why OutboxInv holds.  Its last two parts are not inductive alone: a row *)
(* is PUBLISHED by a publisher at "mark", which must have delivered the    *)
(* record it is at, and given up on the attempts a publisher remembers,    *)
(* which must not exceed those of the row.                                 *)
(***************************************************************************)

(* A publisher works under a token, and only on a batch. *)
WorksOnBatch ==
    \A p \in Publisher :
        IF pc[p] \in {"down", "claim"} THEN batch[p] = {}
        ELSE batch[p] # {} /\ token[p] # NoToken

(* What a publisher is about to mark is on the topic. *)
MarksDelivered ==
    \A p \in Publisher : pc[p] = "mark" => Current(p) \in topic

(* A row has a claim token exactly while it is claimed. *)
TokenIffClaimed ==
    \A r \in Row : status[r] = "PUBLISHING" <=> claimToken[r] # NoToken

(* A remembered attempt was made. *)
TriesCounted ==
    \A p \in Publisher, r \in Row : tries[p][r] <= attempts[r]

OutboxIInv ==
    /\ OutboxInv
    /\ WorksOnBatch
    /\ MarksDelivered
    /\ TokenIffClaimed
    /\ TriesCounted
=============================================================================
