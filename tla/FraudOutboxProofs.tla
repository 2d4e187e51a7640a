-------------------------- MODULE FraudOutboxProofs --------------------------
(***************************************************************************)
(* The outbox keeps its promises with any number of rows, publishers and   *)
(* tokens and any batch size: OutboxIInv is inductive, and the two action  *)
(* properties follow from it.                                              *)
(***************************************************************************)
EXTENDS FraudOutbox, FiniteSetTheorems, WellFoundedInduction, TLAPS

USE DEF tableVars, workerVars

-----------------------------------------------------------------------------
(* Every non-empty set of rows has a first one. *)
LEMMA FirstRow ==
    ASSUME NEW S \in SUBSET Row, S # {}
    PROVE  \E x \in S : \A y \in S : x <= y
<1>1. S \subseteq Nat
  BY OutboxAssumption DEF Row
<1>2. PICK x \in S : \A y \in S : ~ (<<y, x>> \in OpToRel(<, Nat))
  BY <1>1, WFMin, NatLessThanWellFounded, Zenon
<1>3. \A y \in S : x <= y
  <2> TAKE y \in S
  <2>1. x \in Nat /\ y \in Nat
    BY <1>1
  <2>2. ~(y < x)
    BY <1>2, <2>1 DEF OpToRel
  <2> QED BY <2>1, <2>2
<1> QED BY <1>3

(* Every non-empty set of rows has a last one: the least upper bound. *)
LEMMA LastRow ==
    ASSUME NEW S \in SUBSET Row, S # {}
    PROVE  \E x \in S : \A y \in S : y <= x
<1> DEFINE U == {u \in Row : \A y \in S : y <= u}
<1>0. PICK a \in S : a \in 1 .. NumRows
  BY DEF Row
<1>1. NumRows \in U
  <2>1. NumRows \in Row
    BY <1>0, OutboxAssumption DEF Row
  <2>2. \A y \in S : y \in 1 .. NumRows
    BY DEF Row
  <2> QED BY <2>1, <2>2, OutboxAssumption
<1>2. PICK x \in U : \A y \in U : x <= y
  <2>1. U \in SUBSET Row /\ U # {}
    BY <1>1
  <2> HIDE DEF U
  <2> QED BY <2>1, FirstRow
<1>3. x \in S
  <2> SUFFICES ASSUME x \notin S PROVE FALSE
    OBVIOUS
  <2>1. \A y \in S : y <= x /\ y # x /\ y \in 1 .. NumRows
    BY <1>2 DEF Row
  <2>2. x \in 1 .. NumRows
    BY <1>2 DEF Row
  <2>3. x - 1 \in 1 .. NumRows
    BY <1>0, <2>1, <2>2, OutboxAssumption
  <2>4. \A y \in S : y <= x - 1
    BY <2>1, <2>2, OutboxAssumption
  <2>5. x - 1 \in U
    BY <2>3, <2>4 DEF Row
  <2>6. x <= x - 1
    BY <1>2, <2>5
  <2> QED BY <2>2, <2>6, OutboxAssumption
<1> QED BY <1>2, <1>3

(* Sets of rows are finite. *)
LEMMA RowsFinite ==
    ASSUME NEW S \in SUBSET Row
    PROVE  IsFiniteSet(S) /\ Cardinality(S) \in Nat
<1>1. IsFiniteSet(Row)
  BY FS_Interval, OutboxAssumption DEF Row
<1>2. IsFiniteSet(S)
  BY <1>1, FS_Subset
<1> QED BY <1>2, FS_CardinalityType

(* LIMIT in claim(): the oldest n rows are at most n. *)
LEMMA OldestBounded ==
    ASSUME NEW S \in SUBSET Row, NEW n \in Nat
    PROVE  Oldest(S, n) \in SUBSET S /\ Cardinality(Oldest(S, n)) <= n
<1> DEFINE O == Oldest(S, n)
<1>1. O \in SUBSET S /\ O \in SUBSET Row
  BY DEF Oldest
<1>2. CASE O = {}
  <2>1. Cardinality(O) = 0
    BY <1>2, FS_EmptySet
  <2> HIDE DEF O
  <2>2. Cardinality(O) <= n
    BY <2>1
  <2> QED BY <1>1, <2>2 DEF O
<1>3. CASE O # {}
  <2>1. PICK m \in O : \A y \in O : y <= m
    <3> HIDE DEF O
    <3> QED BY <1>1, <1>3, LastRow
  <2> DEFINE B == {s \in S : s < m}
  <2>2. Cardinality(B) < n
    BY <2>1 DEF Oldest
  <2>3. B \in SUBSET Row /\ m \notin B
    <3>1. m \in 1 .. NumRows
      BY <1>1, <2>1 DEF Row
    <3>2. ~(m < m)
      BY <3>1, OutboxAssumption
    <3> QED BY <3>2
  <2>4. O \subseteq B \cup {m}
    <3> HIDE DEF O, B
    <3> SUFFICES ASSUME NEW y \in O PROVE y \in B \cup {m}
      OBVIOUS
    <3>1. y \in S /\ y \in 1 .. NumRows /\ m \in 1 .. NumRows /\ y <= m
      BY <1>1, <2>1 DEF Row
    <3>2. y < m \/ y = m
      BY <3>1, OutboxAssumption
    <3> QED BY <3>1, <3>2 DEF B
  <2> HIDE DEF O, B
  <2>5. IsFiniteSet(B) /\ Cardinality(B) \in Nat
    BY <2>3, RowsFinite
  <2>6. IsFiniteSet(B \cup {m}) /\ Cardinality(B \cup {m}) = Cardinality(B) + 1
    BY <2>3, <2>5, FS_AddElement
  <2>7. Cardinality(O) <= Cardinality(B \cup {m})
    BY <2>4, <2>6, FS_Subset
  <2>8. Cardinality(O) \in Nat
    BY <1>1, RowsFinite
  <2>9. Cardinality(O) <= n
    BY <2>2, <2>5, <2>6, <2>7, <2>8
  <2> QED BY <1>1, <2>9 DEF O
<1> QED BY <1>2, <1>3

(* The loop is at a record of its batch. *)
LEMMA CurrentInBatch ==
    ASSUME TypeOK, NEW p \in Publisher, batch[p] # {}
    PROVE  Current(p) \in batch[p] /\ Current(p) \in Row
<1>1. batch[p] \in SUBSET Row
  BY DEF TypeOK
<1>2. \E x \in batch[p] : \A y \in batch[p] : x <= y
  BY <1>1, FirstRow
<1> QED BY <1>1, <1>2 DEF Current

(* The record a publisher is at depends only on its batch. *)
LEMMA CurrentStays ==
    ASSUME NEW p \in Publisher, batch'[p] = batch[p]
    PROVE  Current(p)' = Current(p)
BY DEF Current

-----------------------------------------------------------------------------
(* The table begins empty and the publishers begin down. *)
LEMMA InitInv == Init => OutboxIInv
<1> SUFFICES ASSUME Init PROVE OutboxIInv
  OBVIOUS
<1> USE OutboxAssumption DEF Init
<1>1. TypeOK
  <2>1. \A p \in Publisher : Cardinality(batch[p]) <= BatchSize
    BY FS_EmptySet
  <2> QED BY <2>1 DEF TypeOK, Status, PC
<1>2. PublishedIsDelivered /\ FailedIsExhausted
  BY DEF PublishedIsDelivered, FailedIsExhausted
<1>3. WorksOnBatch /\ MarksDelivered /\ TokenIffClaimed /\ TriesCounted
  BY DEF WorksOnBatch, MarksDelivered, TokenIffClaimed, TriesCounted
<1> QED BY <1>1, <1>2, <1>3 DEF OutboxIInv, OutboxInv

(* A new row is neither claimed nor settled. *)
LEMMA InsertKeeps ==
    ASSUME OutboxIInv, NEW r \in Row, Insert(r)
    PROVE  OutboxIInv'
<1> USE DEF OutboxIInv, OutboxInv, Insert
<1>1. TypeOK'
  BY DEF TypeOK, Status
<1>2. PublishedIsDelivered' /\ FailedIsExhausted'
  BY DEF PublishedIsDelivered, FailedIsExhausted, TypeOK
<1>3. WorksOnBatch' /\ MarksDelivered' /\ TriesCounted'
  BY DEF WorksOnBatch, MarksDelivered, Current, TriesCounted
<1>4. TokenIffClaimed'
  BY DEF TokenIffClaimed, TypeOK
<1> QED BY <1>1, <1>2, <1>3, <1>4

(* Time only changes what is due and what is old. *)
LEMMA TimeKeeps ==
    ASSUME OutboxIInv, NEW r \in Row, BackoffEnds(r) \/ ClaimExpires(r)
    PROVE  OutboxIInv'
<1> USE DEF OutboxIInv, OutboxInv, BackoffEnds, ClaimExpires, Fault
<1>1. TypeOK'
  <2>1. due' \in [Row -> BOOLEAN] /\ old' \in [Row -> BOOLEAN]
    BY DEF TypeOK
  <2>2. budget' \in 0 .. MaxFaults
    BY OutboxAssumption DEF TypeOK
  <2> QED BY <2>1, <2>2 DEF TypeOK
<1>2. PublishedIsDelivered' /\ FailedIsExhausted'
  BY DEF PublishedIsDelivered, FailedIsExhausted
<1>3. WorksOnBatch' /\ MarksDelivered' /\ TokenIffClaimed' /\ TriesCounted'
  BY DEF WorksOnBatch, MarksDelivered, Current, TokenIffClaimed, TriesCounted
<1> QED BY <1>1, <1>2, <1>3

(* A publisher that starts has no batch yet. *)
LEMMA StartKeeps ==
    ASSUME OutboxIInv, NEW p \in Publisher, Start(p)
    PROVE  OutboxIInv'
<1> USE DEF OutboxIInv, OutboxInv, Start, Goto
<1>1. TypeOK'
  BY DEF TypeOK, PC
<1>2. PublishedIsDelivered' /\ FailedIsExhausted' /\ TokenIffClaimed' /\ TriesCounted'
  BY DEF PublishedIsDelivered, FailedIsExhausted, TokenIffClaimed, TriesCounted
<1>3. WorksOnBatch'
  BY DEF WorksOnBatch, TypeOK
<1>4. MarksDelivered'
  <2> SUFFICES ASSUME NEW q \in Publisher, pc'[q] = "mark" PROVE Current(q)' \in topic'
    BY DEF MarksDelivered
  <2>1. pc[q] = "mark"
    BY DEF TypeOK
  <2> QED BY <2>1, CurrentStays DEF MarksDelivered
<1> QED BY <1>1, <1>2, <1>3, <1>4

(* A publisher that ends leaves its rows to the claim TTL. *)
LEMMA ExitKeeps ==
    ASSUME OutboxIInv, NEW p \in Publisher, Exit(p)
    PROVE  OutboxIInv'
<1> USE DEF OutboxIInv, OutboxInv, Exit, Goto, Fault
<1>1. TypeOK'
  <2>1. \A q \in Publisher : Cardinality(batch'[q]) <= BatchSize
    BY FS_EmptySet, OutboxAssumption DEF TypeOK
  <2>2. budget' \in 0 .. MaxFaults
    BY OutboxAssumption DEF TypeOK
  <2> QED BY <2>1, <2>2 DEF TypeOK, PC
<1>2. PublishedIsDelivered' /\ FailedIsExhausted' /\ TokenIffClaimed'
  BY DEF PublishedIsDelivered, FailedIsExhausted, TokenIffClaimed
<1>3. WorksOnBatch'
  BY DEF WorksOnBatch, TypeOK
<1>4. MarksDelivered'
  <2> SUFFICES ASSUME NEW q \in Publisher, pc'[q] = "mark" PROVE Current(q)' \in topic'
    BY DEF MarksDelivered
  <2>1. q # p
    BY DEF TypeOK
  <2>2. pc[q] = "mark" /\ batch'[q] = batch[q]
    BY <2>1 DEF TypeOK
  <2> QED BY <2>2, CurrentStays DEF MarksDelivered
<1>5. TriesCounted'
  BY DEF TriesCounted, TypeOK
<1> QED BY <1>1, <1>2, <1>3, <1>4, <1>5

(* publish() and what the Kafka client does after it: the topic only       *)
(* grows, and "mark" is reached only with the record on it.                *)
LEMMA PublishKeeps ==
    ASSUME OutboxIInv, NEW p \in Publisher,
           Publish(p) \/ PublishFails(p) \/ \E r \in Row : LateDelivery(p, r)
    PROVE  OutboxIInv'
<1> USE DEF OutboxIInv, OutboxInv, Publish, PublishFails, LateDelivery, Goto, Fault
<1>1. pc[p] = "publish" => Current(p) \in Row
  BY CurrentInBatch DEF WorksOnBatch
<1>2. topic \subseteq topic' /\ topic' \subseteq Row
  BY <1>1 DEF TypeOK
<1>3. TypeOK'
  <2>1. unacked' \in [Publisher -> SUBSET Row]
    BY <1>1 DEF TypeOK
  <2>2. pc' \in [Publisher -> PC]
    BY DEF TypeOK, PC
  <2>3. budget' \in 0 .. MaxFaults
    BY OutboxAssumption DEF TypeOK
  <2> QED BY <1>2, <2>1, <2>2, <2>3 DEF TypeOK
<1>4. PublishedIsDelivered' /\ FailedIsExhausted' /\ TokenIffClaimed' /\ TriesCounted'
  BY <1>2 DEF PublishedIsDelivered, FailedIsExhausted, TokenIffClaimed, TriesCounted
<1>5. WorksOnBatch'
  BY DEF WorksOnBatch, TypeOK
<1>6. MarksDelivered'
  <2> SUFFICES ASSUME NEW q \in Publisher, pc'[q] = "mark" PROVE Current(q)' \in topic'
    BY DEF MarksDelivered
  <2>1. Current(q)' = Current(q)
    BY CurrentStays
  <2>2. CASE pc[q] = "mark"
    BY <1>2, <2>1, <2>2 DEF MarksDelivered
  <2>3. CASE pc[q] # "mark"
    BY <2>1, <2>3 DEF TypeOK
  <2> QED BY <2>2, <2>3
<1> QED BY <1>3, <1>4, <1>5, <1>6

-----------------------------------------------------------------------------
(* Moving to the next record keeps the publisher's own state in shape. *)
LEMMA NextRecordKeeps ==
    ASSUME OutboxIInv, NEW p \in Publisher, pc[p] \in {"mark", "fail"}, NextRecord(p),
           topic' = topic, attempts' = attempts
    PROVE  /\ pc' \in [Publisher -> PC]
           /\ batch' \in [Publisher -> SUBSET Row]
           /\ \A q \in Publisher : Cardinality(batch'[q]) <= BatchSize
           /\ token' \in [Publisher -> Token \cup {NoToken}]
           /\ tries' \in [Publisher -> [Row -> Nat]]
           /\ WorksOnBatch' /\ MarksDelivered' /\ TriesCounted'
<1> DEFINE c == Current(p)
<1>1. c \in batch[p] /\ c \in Row
  BY CurrentInBatch DEF OutboxIInv, OutboxInv, WorksOnBatch
<1> HIDE DEF c
<1> USE DEF OutboxIInv, OutboxInv
<1>2. /\ batch' = [batch EXCEPT ![p] = batch[p] \ {c}]
      /\ token' = [token EXCEPT ![p] = IF batch[p] = {c} THEN NoToken ELSE token[p]]
      /\ tries' = [tries EXCEPT ![p] = [tries[p] EXCEPT ![c] = 0]]
      /\ pc' = [pc EXCEPT ![p] = IF batch[p] = {c} THEN "claim" ELSE "publish"]
  BY DEF NextRecord, Goto, c
<1>3. pc' \in [Publisher -> PC]
  BY <1>2 DEF TypeOK, PC
<1>4. batch' \in [Publisher -> SUBSET Row] /\ batch'[p] \subseteq batch[p]
  BY <1>2 DEF TypeOK
<1>5. \A q \in Publisher : Cardinality(batch'[q]) <= BatchSize
  <2> TAKE q \in Publisher
  <2>1. batch[q] \in SUBSET Row /\ Cardinality(batch[q]) <= BatchSize /\ BatchSize \in Nat
    BY OutboxAssumption DEF TypeOK
  <2>2. batch'[q] \subseteq batch[q]
    BY <1>2, <1>4 DEF TypeOK
  <2>3. Cardinality(batch'[q]) <= Cardinality(batch[q])
    BY <2>1, <2>2, RowsFinite, FS_Subset
  <2>4. Cardinality(batch'[q]) \in Nat /\ Cardinality(batch[q]) \in Nat
    BY <2>1, <2>2, RowsFinite
  <2> QED BY <2>1, <2>3, <2>4
<1>6. token' \in [Publisher -> Token \cup {NoToken}]
  BY <1>2 DEF TypeOK
<1>7. tries' \in [Publisher -> [Row -> Nat]]
  BY <1>1, <1>2 DEF TypeOK
<1>8. WorksOnBatch'
  <2> SUFFICES ASSUME NEW q \in Publisher
               PROVE  IF pc'[q] \in {"down", "claim"} THEN batch'[q] = {}
                      ELSE batch'[q] # {} /\ token'[q] # NoToken
    BY DEF WorksOnBatch
  <2>1. CASE q # p
    BY <1>2, <2>1 DEF WorksOnBatch, TypeOK
  <2>2. CASE q = p /\ batch[p] = {c}
    BY <1>2, <2>2 DEF TypeOK
  <2>3. CASE q = p /\ batch[p] # {c}
    <3>1. batch'[p] = batch[p] \ {c} /\ pc'[p] = "publish" /\ token'[p] = token[p]
      BY <1>2, <2>3 DEF TypeOK
    <3>2. batch[p] \ {c} # {}
      BY <1>1, <2>3
    <3> QED BY <2>3, <3>1, <3>2 DEF WorksOnBatch
  <2> QED BY <2>1, <2>2, <2>3
<1>9. MarksDelivered'
  <2> SUFFICES ASSUME NEW q \in Publisher, pc'[q] = "mark" PROVE Current(q)' \in topic'
    BY DEF MarksDelivered
  <2>1. q # p
    BY <1>2 DEF TypeOK
  <2>2. pc[q] = "mark" /\ batch'[q] = batch[q]
    BY <1>2, <2>1 DEF TypeOK
  <2> QED BY <2>2, CurrentStays DEF MarksDelivered
<1>10. TriesCounted'
  <2> SUFFICES ASSUME NEW q \in Publisher, NEW r \in Row
               PROVE  tries'[q][r] <= attempts[r]
    BY DEF TriesCounted
  <2>1. tries[q][r] <= attempts[r] /\ attempts[r] \in Nat
    BY DEF TriesCounted, TypeOK
  <2>2. tries'[q][r] = tries[q][r] \/ tries'[q][r] = 0
    BY <1>1, <1>2 DEF TypeOK
  <2> QED BY <2>1, <2>2
<1> QED BY <1>3, <1>4, <1>5, <1>6, <1>7, <1>8, <1>9, <1>10

(* published(): the row settled is one that is on the topic. *)
LEMMA SetPublishedKeeps ==
    ASSUME OutboxIInv, NEW r \in Row, r \in topic, SetPublished(r),
           topic' = topic, attempts' = attempts
    PROVE  /\ status' \in [Row -> Status]
           /\ claimToken' \in [Row -> Token \cup {NoToken}]
           /\ old' \in [Row -> BOOLEAN]
           /\ PublishedIsDelivered' /\ FailedIsExhausted' /\ TokenIffClaimed'
<1> USE DEF OutboxIInv, OutboxInv, SetPublished
<1>1. /\ status' \in [Row -> Status]
      /\ claimToken' \in [Row -> Token \cup {NoToken}]
      /\ old' \in [Row -> BOOLEAN]
  BY DEF TypeOK, Status
<1>2. PublishedIsDelivered' /\ FailedIsExhausted'
  BY DEF PublishedIsDelivered, FailedIsExhausted, TypeOK
<1>3. TokenIffClaimed'
  BY DEF TokenIffClaimed, TypeOK
<1> QED BY <1>1, <1>2, <1>3

(* A publisher gives up on marking its record: only its control point      *)
(* changes.                                                                *)
LEMMA GiveUpKeeps ==
    ASSUME OutboxIInv, NEW p \in Publisher, pc[p] = "mark", Goto(p, "fail"),
           UNCHANGED <<workerVars, topic, attempts>>
    PROVE  /\ pc' \in [Publisher -> PC]
           /\ WorksOnBatch' /\ MarksDelivered' /\ TriesCounted'
<1> USE DEF OutboxIInv, OutboxInv, Goto
<1>1. pc' \in [Publisher -> PC]
  BY DEF TypeOK, PC
<1>2. WorksOnBatch'
  BY DEF WorksOnBatch, TypeOK
<1>3. MarksDelivered'
  <2> SUFFICES ASSUME NEW q \in Publisher, pc'[q] = "mark" PROVE Current(q)' \in topic'
    BY DEF MarksDelivered
  <2>1. pc[q] = "mark"
    BY DEF TypeOK
  <2> QED BY <2>1, CurrentStays DEF MarksDelivered
<1>4. TriesCounted'
  BY DEF TriesCounted
<1> QED BY <1>1, <1>2, <1>3, <1>4

(* published() of a publisher with or without its claim. *)
LEMMA MarkPublishedKeeps ==
    ASSUME OutboxIInv, NEW p \in Publisher, MarkPublished(p)
    PROVE  OutboxIInv'
<1> DEFINE r == Current(p)
<1>1. r \in Row /\ r \in topic
  BY CurrentInBatch DEF OutboxIInv, OutboxInv, WorksOnBatch, MarksDelivered, MarkPublished
<1>2. pc[p] = "mark" /\ UNCHANGED <<attempts, due, topic, unacked, budget>>
  BY DEF MarkPublished
<1>3. CASE SetPublished(r) /\ NextRecord(p)
  <2> HIDE DEF r
  <2> QED BY <1>1, <1>2, <1>3, SetPublishedKeeps, NextRecordKeeps
       DEF OutboxIInv, OutboxInv, TypeOK
<1>4. CASE Goto(p, "fail") /\ UNCHANGED <<status, claimToken, old, workerVars>>
  BY <1>2, <1>4, GiveUpKeeps
     DEF OutboxIInv, OutboxInv, TypeOK, PublishedIsDelivered, FailedIsExhausted,
         TokenIffClaimed
<1> QED BY <1>3, <1>4 DEF MarkPublished

(* published() with the database lost before or after the update. *)
LEMMA MarkFailsKeeps ==
    ASSUME OutboxIInv, NEW p \in Publisher, MarkFails(p)
    PROVE  OutboxIInv'
<1> DEFINE r == Current(p)
<1>1. r \in Row /\ r \in topic
  BY CurrentInBatch DEF OutboxIInv, OutboxInv, WorksOnBatch, MarksDelivered, MarkFails
<1>2. /\ pc[p] = "mark" /\ Goto(p, "fail")
      /\ UNCHANGED <<attempts, due, topic, workerVars, unacked>>
  BY DEF MarkFails
<1>3. budget' \in 0 .. MaxFaults
  BY OutboxAssumption DEF MarkFails, Fault, OutboxIInv, OutboxInv, TypeOK
<1>4. CASE SetPublished(r)
  <2> HIDE DEF r
  <2> QED BY <1>1, <1>2, <1>3, <1>4, SetPublishedKeeps, GiveUpKeeps
       DEF OutboxIInv, OutboxInv, TypeOK
<1>5. CASE UNCHANGED <<status, claimToken, old>>
  BY <1>2, <1>3, <1>5, GiveUpKeeps
     DEF OutboxIInv, OutboxInv, TypeOK, PublishedIsDelivered, FailedIsExhausted,
         TokenIffClaimed
<1> QED BY <1>4, <1>5 DEF MarkFails

(* failed(): a row is given up on the attempts the publisher remembers,    *)
(* which the row really had.                                               *)
LEMMA MarkFailedKeeps ==
    ASSUME OutboxIInv, NEW p \in Publisher, MarkFailed(p)
    PROVE  OutboxIInv'
<1> DEFINE r == Current(p)
<1>1. r \in Row
  BY CurrentInBatch DEF OutboxIInv, OutboxInv, WorksOnBatch, MarkFailed
<1>2. /\ pc[p] = "fail" /\ NextRecord(p)
      /\ UNCHANGED <<attempts, topic, unacked, budget>>
  BY DEF MarkFailed
<1>3. CASE Claimed(p)
  <2> DEFINE over == tries[p][r] >= MaxAttempts
  <2>1. /\ status' = [status EXCEPT ![r] = IF over THEN "FAILED" ELSE "PENDING"]
        /\ claimToken' = [claimToken EXCEPT ![r] = NoToken]
        /\ old' = [old EXCEPT ![r] = FALSE]
        /\ due' = [due EXCEPT ![r] = FALSE]
    BY <1>3 DEF MarkFailed
  <2>2. over => attempts[r] >= MaxAttempts
    BY <1>1, OutboxAssumption DEF OutboxIInv, OutboxInv, TypeOK, TriesCounted
  <2> HIDE DEF r, over
  <2>3. /\ status' \in [Row -> Status]
        /\ claimToken' \in [Row -> Token \cup {NoToken}]
        /\ old' \in [Row -> BOOLEAN]
        /\ due' \in [Row -> BOOLEAN]
    BY <2>1 DEF OutboxIInv, OutboxInv, TypeOK, Status
  <2>4. PublishedIsDelivered'
    BY <1>2, <2>1 DEF OutboxIInv, OutboxInv, PublishedIsDelivered, TypeOK
  <2>5. FailedIsExhausted'
    BY <1>2, <2>1, <2>2 DEF OutboxIInv, OutboxInv, FailedIsExhausted, TypeOK
  <2>6. TokenIffClaimed'
    BY <2>1 DEF OutboxIInv, OutboxInv, TokenIffClaimed, TypeOK
  <2> QED BY <1>2, <2>3, <2>4, <2>5, <2>6, NextRecordKeeps
       DEF OutboxIInv, OutboxInv, TypeOK
<1>4. CASE ~Claimed(p)
  <2>1. UNCHANGED <<status, claimToken, old, due>>
    BY <1>4 DEF MarkFailed
  <2> QED BY <1>2, <2>1, NextRecordKeeps
     DEF OutboxIInv, OutboxInv, TypeOK, PublishedIsDelivered, FailedIsExhausted,
         TokenIffClaimed
<1> QED BY <1>3, <1>4

(* claim(): the batch is within its limit, under a token nobody has, and   *)
(* its rows count one attempt more than the publisher will have seen.      *)
LEMMA ClaimKeeps ==
    ASSUME OutboxIInv, NEW p \in Publisher, Claim(p)
    PROVE  OutboxIInv'
<1> DEFINE rows == Oldest(Claimable, BatchSize)
<1> USE DEF OutboxIInv, OutboxInv
<1>1. Claimable \in SUBSET Row
  BY DEF Claimable
<1>2. rows \in SUBSET Claimable /\ rows \in SUBSET Row /\ Cardinality(rows) <= BatchSize
  BY <1>1, OldestBounded, OutboxAssumption
<1>3. \A r \in rows : status[r] \in {"PENDING", "PUBLISHING"}
  BY <1>2 DEF Claimable, Expired
<1>4. PICK t \in FreshToken :
        /\ claimToken' = [r \in Row |-> IF r \in rows THEN t
                                        ELSE IF r \in Expired THEN NoToken
                                        ELSE claimToken[r]]
        /\ token' = [token EXCEPT ![p] = t]
  BY DEF Claim
<1>5. /\ pc[p] = "claim"
      /\ rows # {}
      /\ status' = [r \in Row |-> IF r \in rows THEN "PUBLISHING"
                                  ELSE IF r \in Expired THEN "PENDING"
                                  ELSE status[r]]
      /\ old' = [r \in Row |-> old[r] /\ r \notin Expired]
      /\ attempts' = [r \in Row |-> IF r \in rows THEN attempts[r] + 1 ELSE attempts[r]]
      /\ tries' = [tries EXCEPT ![p] = [r \in Row |-> IF r \in rows THEN attempts[r] + 1
                                                      ELSE 0]]
      /\ batch' = [batch EXCEPT ![p] = rows]
      /\ Goto(p, "publish")
      /\ UNCHANGED <<due, topic, unacked, budget>>
  BY DEF Claim
<1>6. t \in Token /\ t # NoToken
  BY OutboxAssumption DEF FreshToken
<1> HIDE DEF rows
<1>7. TypeOK'
  <2>1. status' \in [Row -> Status]
    BY <1>5 DEF TypeOK, Status
  <2>2. claimToken' \in [Row -> Token \cup {NoToken}]
    BY <1>4, <1>6 DEF TypeOK
  <2>3. attempts' \in [Row -> Nat]
    BY <1>5 DEF TypeOK
  <2>4. old' \in [Row -> BOOLEAN]
    BY <1>5 DEF TypeOK
  <2>5. pc' \in [Publisher -> PC]
    BY <1>5 DEF TypeOK, Goto, PC
  <2>6. batch' \in [Publisher -> SUBSET Row]
    BY <1>2, <1>5 DEF TypeOK
  <2>7. \A q \in Publisher : Cardinality(batch'[q]) <= BatchSize
    BY <1>2, <1>5 DEF TypeOK
  <2>8. token' \in [Publisher -> Token \cup {NoToken}]
    BY <1>4, <1>6 DEF TypeOK
  <2>9. tries' \in [Publisher -> [Row -> Nat]]
    BY <1>5 DEF TypeOK
  <2> QED BY <1>5, <2>1, <2>2, <2>3, <2>4, <2>5, <2>6, <2>7, <2>8, <2>9 DEF TypeOK
<1>8. PublishedIsDelivered'
  BY <1>5 DEF PublishedIsDelivered, TypeOK
<1>9. FailedIsExhausted'
  <2> SUFFICES ASSUME NEW r \in Row, status'[r] = "FAILED" PROVE attempts'[r] >= MaxAttempts
    BY DEF FailedIsExhausted
  <2>1. status[r] = "FAILED" /\ r \notin rows
    BY <1>5 DEF TypeOK
  <2> QED BY <1>5, <2>1 DEF FailedIsExhausted, TypeOK
<1>10. WorksOnBatch'
  BY <1>4, <1>5, <1>6 DEF WorksOnBatch, TypeOK, Goto
<1>11. MarksDelivered'
  <2> SUFFICES ASSUME NEW q \in Publisher, pc'[q] = "mark" PROVE Current(q)' \in topic'
    BY DEF MarksDelivered
  <2>1. q # p
    BY <1>5 DEF TypeOK, Goto
  <2>2. pc[q] = "mark" /\ batch'[q] = batch[q]
    BY <1>5, <2>1 DEF TypeOK, Goto
  <2> QED BY <1>5, <2>2, CurrentStays DEF MarksDelivered
<1>12. TokenIffClaimed'
  <2> SUFFICES ASSUME NEW r \in Row
               PROVE  status'[r] = "PUBLISHING" <=> claimToken'[r] # NoToken
    BY DEF TokenIffClaimed
  <2> QED BY <1>4, <1>5, <1>6 DEF TokenIffClaimed, TypeOK
<1>13. TriesCounted'
  <2> SUFFICES ASSUME NEW q \in Publisher, NEW r \in Row
               PROVE  tries'[q][r] <= attempts'[r]
    BY DEF TriesCounted
  <2>1. tries[q][r] \in Nat /\ attempts[r] \in Nat /\ tries[q][r] <= attempts[r]
    BY DEF TriesCounted, TypeOK
  <2>2. CASE q = p
    BY <1>5, <2>1, <2>2 DEF TypeOK
  <2>3. CASE q # p
    BY <1>5, <2>1, <2>3 DEF TypeOK
  <2> QED BY <2>2, <2>3
<1> QED BY <1>7, <1>8, <1>9, <1>10, <1>11, <1>12, <1>13

-----------------------------------------------------------------------------
(* Every step of the system keeps the invariant. *)
LEMMA StepKeeps == OutboxIInv /\ [Next]_vars => OutboxIInv'
<1> SUFFICES ASSUME OutboxIInv, [Next]_vars PROVE OutboxIInv'
  OBVIOUS
<1>1. ASSUME NEW p \in Publisher, Step(p) PROVE OutboxIInv'
  BY <1>1, StartKeeps, ClaimKeeps, PublishKeeps, MarkPublishedKeeps, MarkFailedKeeps DEF Step
<1>2. ASSUME NEW p \in Publisher, PublishFails(p) \/ \E r \in Row : LateDelivery(p, r)
      PROVE  OutboxIInv'
  BY <1>2, PublishKeeps
<1>3. ASSUME NEW p \in Publisher, MarkFails(p) PROVE OutboxIInv'
  BY <1>3, MarkFailsKeeps
<1>4. ASSUME NEW p \in Publisher, Exit(p) PROVE OutboxIInv'
  BY <1>4, ExitKeeps
<1>5. ASSUME NEW r \in Row, Insert(r) PROVE OutboxIInv'
  BY <1>5, InsertKeeps
<1>6. ASSUME NEW r \in Row, BackoffEnds(r) \/ ClaimExpires(r) PROVE OutboxIInv'
  BY <1>6, TimeKeeps
<1>7. CASE UNCHANGED vars
  <2> USE <1>7 DEF vars, OutboxIInv, OutboxInv
  <2>1. TypeOK'
    BY DEF TypeOK
  <2>2. PublishedIsDelivered' /\ FailedIsExhausted' /\ TokenIffClaimed' /\ TriesCounted'
    BY DEF PublishedIsDelivered, FailedIsExhausted, TokenIffClaimed, TriesCounted
  <2>3. WorksOnBatch' /\ MarksDelivered'
    BY DEF WorksOnBatch, MarksDelivered, Current
  <2> QED BY <2>1, <2>2, <2>3
<1> QED BY <1>1, <1>2, <1>3, <1>4, <1>5, <1>6, <1>7 DEF Next

(* The inductive invariant holds in every reachable state. *)
THEOREM OutboxIInvHolds == Spec => []OutboxIInv
BY InitInv, StepKeeps, PTL DEF Spec

(* A PUBLISHED row is on the topic and a FAILED one has used up its        *)
(* attempts, with any number of publishers, whatever crashes, stalls,      *)
(* lost answers and late deliveries come between (publisher.py:64-67,      *)
(* repository.py:130).                                                     *)
THEOREM OutboxCorrect == Spec => []OutboxInv
<1>1. OutboxIInv => OutboxInv
  BY DEF OutboxIInv
<1> QED BY <1>1, OutboxIInvHolds, PTL

-----------------------------------------------------------------------------
(* What a step may do to one row: a settled row keeps its status, and a    *)
(* claim that is not old is changed only by the publisher that holds it.   *)
LEMMA RowStep ==
    ASSUME OutboxIInv, [Next]_vars, NEW r \in Row
    PROVE  /\ status[r] \in {"PUBLISHED", "FAILED"} => status'[r] = status[r]
           /\ \A q \in Publisher :
                (/\ pc[q] # pc'[q]
                 /\ status[r] = "PUBLISHING" /\ ~old[r]
                 /\ claimToken'[r] # claimToken[r]) => token[q] = claimToken[r]
<1> DEFINE Settled == status[r] \in {"PUBLISHED", "FAILED"} => status'[r] = status[r]
           Held == \A q \in Publisher :
                     (/\ pc[q] # pc'[q]
                      /\ status[r] = "PUBLISHING" /\ ~old[r]
                      /\ claimToken'[r] # claimToken[r]) => token[q] = claimToken[r]
<1> SUFFICES Settled /\ Held
  OBVIOUS
<1> USE DEF OutboxIInv, OutboxInv
<1>1. CASE \/ UNCHANGED <<status, claimToken>>
           \/ \E s \in Row : Insert(s)
  BY <1>1 DEF Insert, TypeOK
<1>2. ASSUME NEW p \in Publisher, Claim(p) PROVE Settled /\ Held
  <2> DEFINE rows == Oldest(Claimable, BatchSize)
  <2>1. rows \subseteq Claimable
    BY DEF Oldest
  <2>2. r \in rows => status[r] = "PENDING" \/ r \in Expired
    BY <2>1 DEF Claimable
  <2>3. r \in Expired => status[r] = "PUBLISHING" /\ old[r]
    BY DEF Expired
  <2>4. r \notin rows /\ r \notin Expired => UNCHANGED <<status[r], claimToken[r]>>
    BY <1>2 DEF Claim
  <2> HIDE DEF rows
  <2> QED BY <2>2, <2>3, <2>4
<1>3. ASSUME NEW p \in Publisher, MarkPublished(p) \/ MarkFails(p) \/ MarkFailed(p)
      PROVE  Settled /\ Held
  <2> DEFINE c == Current(p)
  <2>1. c \in Row /\ token[p] # NoToken
    BY <1>3, CurrentInBatch DEF WorksOnBatch, MarkPublished, MarkFails, MarkFailed
  <2>2. \/ UNCHANGED <<status, claimToken>>
        \/ /\ Claimed(p)
           /\ \E v : status' = [status EXCEPT ![c] = v]
           /\ claimToken' = [claimToken EXCEPT ![c] = NoToken]
    BY <1>3 DEF MarkPublished, MarkFails, MarkFailed, SetPublished
  <2>3. Claimed(p) => claimToken[c] = token[p] /\ status[c] = "PUBLISHING"
    BY <2>1 DEF Claimed, TokenIffClaimed
  <2>4. \A q \in Publisher : pc[q] # pc'[q] => q = p
    BY <1>3 DEF MarkPublished, MarkFails, MarkFailed, NextRecord, Goto, TypeOK
  <2> HIDE DEF c
  <2>5. CASE UNCHANGED <<status, claimToken>>
    BY <2>5
  <2>6. CASE r # c /\ ~ UNCHANGED <<status, claimToken>>
    BY <2>1, <2>2, <2>6 DEF TypeOK
  <2>7. CASE r = c /\ ~ UNCHANGED <<status, claimToken>>
    BY <2>2, <2>3, <2>4, <2>7
  <2> QED BY <2>5, <2>6, <2>7
<1>4. ASSUME NEW p \in Publisher,
             \/ Start(p) \/ Publish(p) \/ PublishFails(p) \/ Exit(p)
             \/ \E s \in Row : LateDelivery(p, s)
      PROVE  UNCHANGED <<status, claimToken>>
  BY <1>4 DEF Start, Publish, PublishFails, Exit, LateDelivery
<1>5. ASSUME NEW s \in Row, BackoffEnds(s) \/ ClaimExpires(s)
      PROVE  UNCHANGED <<status, claimToken>>
  BY <1>5 DEF BackoffEnds, ClaimExpires
<1> QED BY <1>1, <1>2, <1>3, <1>4, <1>5 DEF Next, Step, vars

(* PUBLISHED and FAILED are final, for any number of publishers and        *)
(* expired claims (repository.py:143).                                     *)
THEOREM SettledForGoodHolds == Spec => SettledForGood
<1>1. OutboxIInv /\ [Next]_vars
      => [\A r \in Row : status[r] \in {"PUBLISHED", "FAILED"} => status'[r] = status[r]]_vars
  BY RowStep
<1> QED BY <1>1, OutboxIInvHolds, PTL DEF Spec, SettledForGood

(* A claim within its TTL is ended only by the publisher that holds it     *)
(* (repository.py:120, 143).                                               *)
THEOREM OnlyHolderEndsClaimHolds == Spec => OnlyHolderEndsClaim
<1>1. OutboxIInv /\ [Next]_vars
      => [\A p \in Publisher, r \in Row :
            (/\ pc[p] # pc'[p]
             /\ status[r] = "PUBLISHING" /\ ~old[r]
             /\ claimToken'[r] # claimToken[r]) => token[p] = claimToken[r]]_vars
  BY RowStep
<1> QED BY <1>1, OutboxIInvHolds, PTL DEF Spec, OnlyHolderEndsClaim
=============================================================================
