--------------------------- MODULE PGStoreProofs ---------------------------
(***************************************************************************)
(* PGStore implements the journal contract, for any number of callers and  *)
(* keys and for tables of any size; so what is proved of the contract      *)
(* (EventStoreProofs) holds of the PostgreSQL table.                       *)
(***************************************************************************)
EXTENDS PGStore, TLAPS, SequenceTheorems

Proved == INSTANCE EventStoreProofs WITH events <- table, call <- asked

Holding == {"key", "last", "insert", "commit"}

(* Who is inside the critical section: exactly the lock's holder.          *)
LockGuards(c) == pc[c] \in Holding <=> lock = c

(* A call is open as long as its transaction is.                           *)
OpenInside(c) == pc[c] # "out" <=> asked[c].status = "open"

(* What a transaction has read is still so when it acts on it: its key is  *)
(* free, and its row continues the head of the table.                      *)
ReadsHold(c) ==
  /\ pc[c] \in {"last", "insert", "commit"} =>
       ByIdemKey(table, asked[c].in.key) = {}
  /\ pc[c] \in {"insert", "commit"} =>
       row[c] = BuildEvent(asked[c].in, Len(table) + 1, HeadHash(table),
                           asked[c].signature)
  /\ pc[c] = "commit" => row[c].seq <= MaxEvents

TxInv(c) == LockGuards(c) /\ OpenInside(c) /\ ReadsHold(c)

(* The inductive invariant: only the holder of the lock changes the table, *)
(* so nobody's reads go stale under it.                                    *)
PGInv == PGTypeOK /\ \A c \in Client : TxInv(c)

-----------------------------------------------------------------------------
(* An instance has its own copies of the definitions of Journal: they are  *)
(* the same operators.                                                     *)
LEMMA SameJournal ==
  /\ \A k, n : Proved!Answered(k, n) = Answered(k, n)
  /\ \A k : Proved!Failed(k) = Failed(k)
  /\ \A what, key : Proved!Asks(what, key) = Asks(what, key)
  /\ \A seq, hash : Proved!AsksSeal(seq, hash) = AsksSeal(seq, hash)
  /\ \A t, key : Proved!ByIdemKey(t, key) = ByIdemKey(t, key)
  /\ \A t : Proved!HeadSeq(t) = HeadSeq(t)
  /\ \A t : Proved!HeadHash(t) = HeadHash(t)
  /\ \A in, seq, prev, signature :
       Proved!BuildEvent(in, seq, prev, signature) =
         BuildEvent(in, seq, prev, signature)
  /\ Proved!NoCall = NoCall
  /\ Proved!Event = Event
  /\ Proved!Call = Call
<1>1. Proved!genesisHash = genesisHash
  BY DEF genesisHash, Proved!genesisHash
<1>2. \A t : Proved!HeadSeq(t) = HeadSeq(t)
  BY DEF HeadSeq, Proved!HeadSeq
<1>3. \A p, n, in : Proved!ComputeHash(p, n, in) = ComputeHash(p, n, in)
  BY DEF ComputeHash, Proved!ComputeHash
<1>4. /\ Proved!AppendInput = AppendInput
      /\ Proved!Digest = Digest
  BY DEF AppendInput, Proved!AppendInput, Digest, Proved!Digest
<1>5. /\ Proved!Event = Event
      /\ Proved!Call = Call
  BY <1>4 DEF Event, Proved!Event, Call, Proved!Call
<1>6. Proved!NoCall = NoCall
  BY <1>1 DEF NoCall, Proved!NoCall, NoInput, Proved!NoInput
<1>7. \A t : Proved!HeadHash(t) = HeadHash(t)
  BY <1>1, <1>2 DEF HeadHash, Proved!HeadHash
<1>8. \A in, seq, prev, signature :
       Proved!BuildEvent(in, seq, prev, signature) =
         BuildEvent(in, seq, prev, signature)
  BY <1>3 DEF BuildEvent, Proved!BuildEvent
<1>9. \A k, n : Proved!Answered(k, n) = Answered(k, n)
  BY DEF Answered, Proved!Answered
<1>10. \A k : Proved!Failed(k) = Failed(k)
  BY DEF Failed, Proved!Failed
<1>11. \A what, key : Proved!Asks(what, key) = Asks(what, key)
  BY <1>1 DEF Asks, Proved!Asks
<1>12. \A seq, hash : Proved!AsksSeal(seq, hash) = AsksSeal(seq, hash)
  BY DEF AsksSeal, Proved!AsksSeal
<1>13. \A t, key : Proved!ByIdemKey(t, key) = ByIdemKey(t, key)
  BY DEF ByIdemKey, Proved!ByIdemKey
<1> QED
  BY <1>2, <1>5, <1>6, <1>7, <1>8, <1>9, <1>10, <1>11, <1>12, <1>13

(* What BuildEvent returns is an event, and the head's hash a digest.      *)
LEMMA EventsAreBuilt ==
  ASSUME NEW in \in AppendInput, NEW seq \in Nat,
         NEW prev \in Digest, NEW signature \in Digest
  PROVE  BuildEvent(in, seq, prev, signature) \in Event
<1>1. Append(prev, <<seq, in>>) \in Digest
  BY DEF Digest
<1> QED
  BY <1>1 DEF BuildEvent, ComputeHash, Event

LEMMA HeadsAreDigests ==
  ASSUME NEW t \in Seq(Event)
  PROVE  /\ HeadSeq(t) = Len(t)
         /\ HeadHash(t) \in Digest
<1>1. t \in Seq(Proved!Event)
  BY SameJournal
<1>2. /\ Proved!HeadSeq(t) = Len(t)
      /\ Proved!HeadHash(t) =
           IF Len(t) = 0 THEN Proved!genesisHash ELSE t[Len(t)].hash
  BY <1>1, Proved!HeadIsLast, JournalAssumption
<1>3. Proved!genesisHash \in Digest
  BY DEF Proved!genesisHash, Digest
<1>4. Len(t) # 0 => t[Len(t)].hash \in Digest
  <2>1. Len(t) # 0 => t[Len(t)] \in Event
    OBVIOUS
  <2> QED
    BY <2>1 DEF Event
<1> QED
  BY <1>2, <1>3, <1>4, SameJournal

(* Inserting the next row appends to the table (INSERT, then COMMIT).      *)
LEMMA RowAppends ==
  ASSUME table \in Seq(Event), NEW r \in Event, r.seq = Len(table) + 1
  PROVE  WithRow(r) = Append(table, r)
<1>1. DOMAIN table = 1..Len(table) /\ Len(table) \in Nat
  OBVIOUS
<1>2. DOMAIN table \cup {r.seq} = 1..(Len(table) + 1)
  BY <1>1
<1>3. Append(table, r) \in [1..(Len(table) + 1) -> Event]
  BY <1>1, LenProperties, Append(table, r) \in Seq(Event),
     Len(Append(table, r)) = Len(table) + 1
<1>4. ASSUME NEW n \in 1..(Len(table) + 1)
      PROVE  Append(table, r)[n] = IF n = r.seq THEN r ELSE table[n]
  BY <1>1
<1>5. Append(table, r) =
        [n \in 1..(Len(table) + 1) |-> IF n = r.seq THEN r ELSE table[n]]
  BY <1>3, <1>4
<1> QED
  BY <1>2, <1>5 DEF WithRow

(* What the invariant says of a transaction that is about to commit: its   *)
(* row is the event the contract appends.                                  *)
LEMMA RowIsNextEvent ==
  ASSUME PGInv, NEW c \in Client, pc[c] = "commit"
  PROVE  /\ asked[c].status = "open"
         /\ ByIdemKey(table, asked[c].in.key) = {}
         /\ row[c] = Proved!NextEvent(c)
         /\ row[c].seq = Len(table) + 1
         /\ Len(table) < MaxEvents
         /\ WithRow(row[c]) = Append(table, row[c])
<1> DEFINE built == BuildEvent(asked[c].in, Len(table) + 1, HeadHash(table),
                               asked[c].signature)
<1>0. row[c] = built
  BY DEF PGInv, TxInv, ReadsHold
<1>1. row[c] = Proved!NextEvent(c)
  BY <1>0, SameJournal DEF Proved!NextEvent
<1>2. row[c].seq = Len(table) + 1
  <2>1. built.seq = Len(table) + 1
    BY DEF BuildEvent
  <2> QED
    BY <1>0, <2>1
<1>3. table \in Seq(Event) /\ row[c] \in Event
  BY DEF PGInv, PGTypeOK
<1>4. WithRow(row[c]) = Append(table, row[c])
  BY <1>2, <1>3, RowAppends
<1>5. Len(table) < MaxEvents
  BY <1>2, <1>3, PGStoreAssumption DEF PGInv, TxInv, ReadsHold
<1> QED
  BY <1>1, <1>2, <1>4, <1>5 DEF PGInv, TxInv, OpenInside, ReadsHold

-----------------------------------------------------------------------------
(* Every round trip is a step of the contract or changes nothing it sees.  *)
LEMMA StepRefines == PGInv /\ [PGNext]_pgvars => [Proved!Next]_(Proved!vars)
<1> SUFFICES ASSUME PGInv, [PGNext]_pgvars
             PROVE  Proved!Next \/ UNCHANGED <<table, asked>>
  BY DEF Proved!vars
<1>1. ASSUME NEW c \in Client, NEW what \in Fact, NEW key \in Key \cup {NoKey},
             Begin(c, what, key)
      PROVE  Proved!Submit(c, what, key)
  BY <1>1, SameJournal DEF Begin, Proved!Submit, PGInv, TxInv, OpenInside
<1>2. ASSUME NEW c \in Client, BeginSeal(c)
      PROVE  Proved!Seal(c)
  BY <1>2, SameJournal DEF BeginSeal, Proved!Seal, PGInv, TxInv, OpenInside
<1>3. ASSUME NEW c \in Client, Lock(c) \/ ReadLast(c)
      PROVE  UNCHANGED <<table, asked>>
  BY <1>3 DEF Lock, ReadLast
<1>4. ASSUME NEW c \in Client, LookUpKey(c)
      PROVE  Proved!DoAppend(c) \/ UNCHANGED <<table, asked>>
  BY <1>4, SameJournal DEF LookUpKey, Answer, Proved!DoAppend, PGInv, TxInv, OpenInside
<1>5. ASSUME NEW c \in Client, Insert(c)
      PROVE  Proved!Refuse(c) \/ UNCHANGED <<table, asked>>
  BY <1>5, SameJournal DEF Insert, Fail, Proved!Refuse, PGInv, TxInv, OpenInside
<1>6. ASSUME NEW c \in Client, Commit(c)
      PROVE  Proved!DoAppend(c)
  BY <1>6, RowIsNextEvent, SameJournal DEF Commit, Answer, Proved!DoAppend
<1>7. ASSUME NEW c \in Client, CommitUnacknowledged(c)
      PROVE  Proved!LoseAnswer(c)
  BY <1>7, RowIsNextEvent, SameJournal DEF CommitUnacknowledged, Fail, Proved!LoseAnswer
<1>8. ASSUME NEW c \in Client, Abort(c)
      PROVE  Proved!Refuse(c)
  BY <1>8, SameJournal DEF Abort, Fail, Proved!Refuse, PGInv, TxInv, OpenInside
<1>9. CASE UNCHANGED pgvars
  BY <1>9 DEF pgvars
<1> QED
  BY <1>1, <1>2, <1>3, <1>4, <1>5, <1>6, <1>7, <1>8, <1>9
  DEF PGNext, Trip, Proved!Next

-----------------------------------------------------------------------------
(* Nobody's step disturbs a transaction it does not run: inside, that one  *)
(* holds the lock, and only the holder writes the table.                   *)
LEMMA OthersKeep ==
  ASSUME PGInv, NEW d \in Client,
         pc'[d] = pc[d], asked'[d] = asked[d], row'[d] = row[d],
         lock' = d <=> lock = d,
         lock = d => table' = table
  PROVE  TxInv(d)'
<1>1. TxInv(d)
  BY DEF PGInv
<1>2. LockGuards(d)' /\ OpenInside(d)'
  BY <1>1 DEF TxInv, LockGuards, OpenInside
<1>3. CASE lock = d
  BY <1>1, <1>2, <1>3 DEF TxInv, ReadsHold
<1>4. CASE lock # d
  <2>1. pc'[d] \notin Holding
    BY <1>1, <1>4 DEF TxInv, LockGuards
  <2> QED
    BY <1>2, <2>1 DEF TxInv, ReadsHold, Holding
<1> QED
  BY <1>2, <1>3, <1>4 DEF TxInv

(* The end of a transaction: the lock is free again, if it was its own.    *)
LEMMA Ended ==
  ASSUME PGInv, NEW c \in Client, EndTx(c),
         \/ Fail(c)
         \/ \E n : Answer(c, n)
  PROVE  /\ TxInv(c)'
         /\ \A d \in Client \ {c} :
              /\ pc'[d] = pc[d] /\ asked'[d] = asked[d] /\ row'[d] = row[d]
              /\ lock' = d <=> lock = d
<1>1. pc'[c] = "out" /\ lock' # c
  BY PGStoreAssumption DEF EndTx, PGInv, PGTypeOK
<1>2. asked'[c].status \in {"failed", "done"}
  BY DEF Fail, Answer, Failed, Answered, PGInv, PGTypeOK
<1>3. TxInv(c)'
  BY <1>1, <1>2 DEF TxInv, LockGuards, OpenInside, ReadsHold, Holding
<1>4. \A d \in Client \ {c} :
        pc'[d] = pc[d] /\ asked'[d] = asked[d] /\ row'[d] = row[d]
  BY DEF EndTx, Fail, Answer, PGInv, PGTypeOK
<1>5. \A d \in Client \ {c} : lock' = d <=> lock = d
  BY PGStoreAssumption DEF EndTx, PGInv, PGTypeOK
<1> QED
  BY <1>3, <1>4, <1>5

(* One step of c: c's own transaction stays right, and the others' are not *)
(* touched.                                                                *)
LEMMA OwnStep ==
  ASSUME PGInv, NEW c \in Client,
         \/ \E what \in Fact, key \in Key \cup {NoKey} : Begin(c, what, key)
         \/ BeginSeal(c) \/ Trip(c) \/ CommitUnacknowledged(c) \/ Abort(c)
  PROVE  /\ TxInv(c)'
         /\ \A d \in Client \ {c} :
              /\ pc'[d] = pc[d] /\ asked'[d] = asked[d] /\ row'[d] = row[d]
              /\ lock' = d <=> lock = d
              /\ lock = d => table' = table
<1> DEFINE Frame == \A d \in Client \ {c} :
              /\ pc'[d] = pc[d] /\ asked'[d] = asked[d] /\ row'[d] = row[d]
              /\ lock' = d <=> lock = d
              /\ lock = d => table' = table
<1> SUFFICES TxInv(c)' /\ Frame
  OBVIOUS
<1>0. TxInv(c) /\ PGTypeOK
  BY DEF PGInv
<1>1. CASE \/ \E what \in Fact, key \in Key \cup {NoKey} : Begin(c, what, key)
           \/ BeginSeal(c)
  <2>1. /\ pc[c] = "out" /\ pc'[c] = "lock"
        /\ asked'[c].status = "open"
        /\ lock' = lock /\ table' = table
    BY <1>0, <1>1 DEF Begin, BeginSeal, Asks, AsksSeal, PGTypeOK
  <2>2. TxInv(c)'
    BY <1>0, <2>1 DEF TxInv, LockGuards, OpenInside, ReadsHold, Holding
  <2>3. Frame
    BY <1>0, <1>1 DEF Begin, BeginSeal, PGTypeOK
  <2> QED
    BY <2>2, <2>3
<1>2. CASE Lock(c)
  <2>1. /\ pc[c] = "lock" /\ pc'[c] \in {"key", "last"}
        /\ pc'[c] = "last" => asked[c].in.key = NoKey
        /\ lock = Nobody /\ lock' = c /\ asked' = asked
    BY <1>0, <1>2 DEF Lock, PGTypeOK
  <2>2. asked[c].in.key = NoKey => ByIdemKey(table', asked[c].in.key) = {}
    BY DEF ByIdemKey
  <2>3. TxInv(c)'
    BY <1>0, <2>1, <2>2 DEF TxInv, LockGuards, OpenInside, ReadsHold, Holding
  <2>4. Frame
    BY <1>0, <1>2, PGStoreAssumption DEF Lock, PGTypeOK
  <2> QED
    BY <2>3, <2>4
<1>3. CASE LookUpKey(c)
  <2>1. CASE EndTx(c) /\ \E n : Answer(c, n)
    BY <1>3, <2>1, Ended DEF LookUpKey
  <2>2. CASE /\ pc' = [pc EXCEPT ![c] = "last"]
             /\ ByIdemKey(table, asked[c].in.key) = {}
             /\ UNCHANGED <<lock, asked, row>>
    <3>1. TxInv(c)'
      BY <1>0, <1>3, <2>2
      DEF LookUpKey, TxInv, LockGuards, OpenInside, ReadsHold, Holding, PGTypeOK
    <3> QED
      BY <1>0, <1>3, <2>2, <3>1 DEF LookUpKey, PGTypeOK
  <2> QED
    BY <1>3, <2>1, <2>2 DEF LookUpKey
<1>4. CASE ReadLast(c)
  <2>1. /\ pc[c] = "last" /\ pc'[c] = "insert"
        /\ row'[c] = BuildEvent(asked[c].in, HeadSeq(table) + 1,
                                HeadHash(table), asked[c].signature)
        /\ table' = table /\ lock' = lock /\ asked' = asked
    BY <1>0, <1>4 DEF ReadLast, PGTypeOK
  <2>2. HeadSeq(table) = Len(table)
    BY <1>0, HeadsAreDigests DEF PGTypeOK
  <2>3. TxInv(c)'
    BY <1>0, <2>1, <2>2 DEF TxInv, LockGuards, OpenInside, ReadsHold, Holding
  <2>4. Frame
    BY <1>0, <1>4 DEF ReadLast, PGTypeOK
  <2> QED
    BY <2>3, <2>4
<1>5. CASE Insert(c)
  <2>1. CASE EndTx(c) /\ Fail(c)
    BY <1>5, <2>1, Ended DEF Insert
  <2>2. CASE /\ row[c].seq <= MaxEvents
             /\ pc' = [pc EXCEPT ![c] = "commit"]
             /\ UNCHANGED <<lock, asked, row>>
    <3>1. TxInv(c)'
      BY <1>0, <1>5, <2>2
      DEF Insert, TxInv, LockGuards, OpenInside, ReadsHold, Holding, PGTypeOK
    <3> QED
      BY <1>0, <1>5, <2>2, <3>1 DEF Insert, PGTypeOK
  <2> QED
    BY <1>5, <2>1, <2>2 DEF Insert
<1>6. CASE Commit(c) \/ CommitUnacknowledged(c)
  <2>1. lock = c
    BY <1>0, <1>6
    DEF Commit, CommitUnacknowledged, TxInv, LockGuards, Holding
  <2> QED
    BY <1>6, <2>1, Ended DEF Commit, CommitUnacknowledged
<1>7. CASE Abort(c)
  BY <1>7, Ended DEF Abort
<1> QED
  BY <1>1, <1>2, <1>3, <1>4, <1>5, <1>6, <1>7 DEF Trip

-----------------------------------------------------------------------------
LEMMA PGTypeStep == PGInv /\ [PGNext]_pgvars => PGTypeOK'
<1> SUFFICES ASSUME PGInv, [PGNext]_pgvars PROVE PGTypeOK'
  OBVIOUS
<1>1. table' \in Seq(Event) /\ asked' \in [Client -> Call]
  <2>1. Proved!TypeOK
    BY SameJournal DEF PGInv, PGTypeOK, Proved!TypeOK
  <2>2. Proved!TypeOK'
    BY <2>1, StepRefines, Proved!TypeStep, JournalAssumption
  <2> QED
    BY <2>2, SameJournal DEF Proved!TypeOK
<1>2. lock' \in Client \cup {Nobody}
  BY DEF PGInv, PGTypeOK, PGNext, pgvars, Trip, Begin, BeginSeal, Lock,
         LookUpKey, ReadLast, Insert, Commit, CommitUnacknowledged, Abort, EndTx
<1>3. pc' \in [Client -> {"out", "lock", "key", "last", "insert", "commit"}]
  BY DEF PGInv, PGTypeOK, PGNext, pgvars, Trip, Begin, BeginSeal, Lock,
         LookUpKey, ReadLast, Insert, Commit, CommitUnacknowledged, Abort, EndTx
<1>4. row' \in [Client -> Event]
  <2>1. NoRow \in Event
    <3>1. /\ NoInput \in AppendInput /\ 0 \in Nat
          /\ genesisHash \in Digest
      BY DEF NoInput, AppendInput, genesisHash, Digest
    <3> QED
      BY <3>1, EventsAreBuilt DEF NoRow
  <2>2. ASSUME NEW c \in Client, ReadLast(c)
        PROVE  row'[c] \in Event
    <3>1. TxInv(c)' /\ pc'[c] = "insert"
      BY <2>2, OwnStep DEF ReadLast, Trip, PGInv, PGTypeOK
    <3>2. /\ asked'[c].in \in AppendInput /\ asked'[c].signature \in Digest
          /\ Len(table') + 1 \in Nat
      BY <1>1 DEF Call
    <3>3. HeadHash(table') \in Digest
      BY <1>1, HeadsAreDigests
    <3> QED
      BY <3>1, <3>2, <3>3, EventsAreBuilt DEF TxInv, ReadsHold
  <2> QED
    BY <2>1, <2>2
    DEF PGInv, PGTypeOK, PGNext, pgvars, Trip, Begin, BeginSeal, Lock,
        LookUpKey, ReadLast, Insert, Commit, CommitUnacknowledged, Abort, EndTx
<1> QED
  BY <1>1, <1>2, <1>3, <1>4 DEF PGTypeOK

LEMMA PGInvStep == PGInv /\ [PGNext]_pgvars => PGInv'
<1> SUFFICES ASSUME PGInv, [PGNext]_pgvars PROVE \A d \in Client : TxInv(d)'
  BY PGTypeStep DEF PGInv
<1>1. CASE UNCHANGED pgvars
  BY <1>1
  DEF pgvars, PGInv, TxInv, LockGuards, OpenInside, ReadsHold, Holding
<1>2. CASE PGNext
  <2>1. PICK c \in Client :
          \/ \E what \in Fact, key \in Key \cup {NoKey} : Begin(c, what, key)
          \/ BeginSeal(c) \/ Trip(c) \/ CommitUnacknowledged(c) \/ Abort(c)
    BY <1>2 DEF PGNext
  <2>2. TxInv(c)'
    BY <2>1, OwnStep
  <2>3. ASSUME NEW d \in Client \ {c}
        PROVE  TxInv(d)'
    BY <2>1, OwnStep, OthersKeep
  <2> QED
    BY <2>2, <2>3
<1> QED
  BY <1>1, <1>2

LEMMA PGInvInit == PGInit => PGInv
<1> SUFFICES ASSUME PGInit PROVE PGInv
  OBVIOUS
<1>1. /\ NoInput \in AppendInput /\ 0 \in Nat
      /\ genesisHash \in Digest
  BY DEF NoInput, AppendInput, genesisHash, Digest
<1>2. NoRow \in Event /\ NoCall \in Call
  BY <1>1, EventsAreBuilt DEF NoRow, NoCall, Call
<1>3. PGTypeOK
  BY <1>2 DEF PGInit, PGTypeOK
<1>4. ASSUME NEW c \in Client PROVE TxInv(c)
  BY PGStoreAssumption
  DEF PGInit, NoCall, TxInv, LockGuards, OpenInside, ReadsHold, Holding
<1> QED
  BY <1>3, <1>4 DEF PGInv

-----------------------------------------------------------------------------
(* The two instances of the contract are the same machine.                 *)
LEMMA SameNext == [Proved!Next]_(Proved!vars) <=> [Store!Next]_(Store!vars)
  BY
  DEF Proved!Next, Proved!vars, Proved!Submit, Proved!Seal, Proved!DoAppend,
      Proved!Refuse, Proved!LoseAnswer, Proved!NextEvent, Proved!Answered,
      Proved!Failed, Proved!Asks, Proved!AsksSeal, Proved!ByIdemKey,
      Proved!HeadSeq, Proved!HeadHash, Proved!BuildEvent, Proved!ComputeHash,
      Proved!genesisHash, Store!Next, Store!vars, Store!Submit, Store!Seal,
      Store!DoAppend, Store!Refuse, Store!LoseAnswer, Store!NextEvent,
      Store!Answered, Store!Failed, Store!Asks, Store!AsksSeal,
      Store!ByIdemKey, Store!HeadSeq, Store!HeadHash, Store!BuildEvent,
      Store!ComputeHash, Store!genesisHash

(* In every state the transactions can reach, whatever fails: one holder   *)
(* of the lock at a time, and what it has read is still true.              *)
THEOREM TransactionsAreSound == PGSpec => []PGInv
<1>1. PGInit => PGInv
  BY PGInvInit
<1>2. PGInv /\ [PGNext]_pgvars => PGInv'
  BY PGInvStep
<1> QED
  BY <1>1, <1>2, PTL DEF PGSpec

(* The types of the run's invariant (pgstore.go: the events table).        *)
THEOREM TypesHold == PGSpec => []PGTypeOK
<1>1. PGInv => PGTypeOK
  BY DEF PGInv
<1> QED
  BY <1>1, TransactionsAreSound, PTL

(* store.go: "PGStore must behave identically" to the in-memory store.     *)
(* Every behaviour of the transactions is one of the one-step contract.    *)
THEOREM TransactionsImplementStore == PGSpec => ImplementsStore
<1>1. PGInit => Store!Init
  BY DEF PGInit, Store!Init, NoCall, Store!NoCall, NoInput, Store!NoInput,
         genesisHash, Store!genesisHash
<1>2. PGInv /\ [PGNext]_pgvars => [Store!Next]_(Store!vars)
  <2>1. [Proved!Next]_(Proved!vars) => [Store!Next]_(Store!vars)
    BY SameNext
  <2> QED
    BY <2>1, StepRefines
<1> QED
  BY <1>1, <1>2, TransactionsAreSound, PTL DEF PGSpec, ImplementsStore, Store!Spec

(* What the contract promises holds of the table: its properties          *)
(* are those of EventStore (StoreIsSound), read through the refinement.    *)
LEMMA TableIsSound == PGSpec => []Proved!StoreInv
<1>1. PGInit => Proved!Init
  BY SameJournal DEF PGInit, Proved!Init
<1>2. Proved!Init => Proved!StoreInv
  BY Proved!InvInit, JournalAssumption
<1>3. PGInv /\ [PGNext]_pgvars /\ Proved!StoreInv => Proved!StoreInv'
  BY StepRefines, Proved!InvStep, JournalAssumption
<1> QED
  BY <1>1, <1>2, <1>3, TransactionsAreSound, PTL DEF PGSpec

(* Whatever transactions interleave, fail or commit unheard, the table     *)
(* re-reads as one unbroken hash chain (VerifyChain).                      *)
THEOREM ChainStaysIntact == PGSpec => []ChainIntact
<1>1. Proved!StoreInv => ChainIntact
  BY DEF Proved!StoreInv, Proved!ChainIntact, Proved!VerifyChain, ChainIntact,
         VerifyChain, Proved!ComputeHash, ComputeHash, Proved!genesisHash,
         genesisHash
<1> QED
  BY <1>1, TableIsSound, PTL

(* A checkpoint signed over a head that has moved since still seals an     *)
(* event of this table by its own hash (VerifyCheckpoints).                *)
THEOREM SealsStayValid == PGSpec => []CheckpointsHold
<1>1. Proved!StoreInv => CheckpointsHold
  BY DEF Proved!StoreInv, Proved!CheckpointsHold, Proved!VerifyCheckpoints,
         CheckpointsHold, VerifyCheckpoints
<1> QED
  BY <1>1, TableIsSound, PTL

(* Calls that repeat a key store one event between them, across processes  *)
(* and after errors (store.go, Append).                                    *)
THEOREM KeysNameOneEvent == PGSpec => []OneEventPerKey
<1>1. Proved!StoreInv => OneEventPerKey
  BY DEF Proved!StoreInv, Proved!OneEventPerKey, OneEventPerKey,
         Store!OneEventPerKey
<1> QED
  BY <1>1, TableIsSound, PTL

(* An answered call got its own event, or the one stored under its key.    *)
THEOREM AnswersNameTheirEvent == PGSpec => []AnswersAreStored
<1>1. Proved!StoreInv => AnswersAreStored
  BY DEF Proved!StoreInv, Proved!AnswersAreStored, AnswersAreStored,
         Store!AnswersAreStored
<1> QED
  BY <1>1, TableIsSound, PTL

(* Under the advisory lock the unique columns never refuse a row: nobody   *)
(* gets a duplicate-key error for losing a race.                           *)
THEOREM NobodyLosesARace == PGSpec => []NoSpuriousConflict
<1>1. PGInv => NoSpuriousConflict
  <2> SUFFICES ASSUME PGInv, NEW c \in Client, pc[c] = "insert"
               PROVE  ~Conflicts(c)
    BY DEF NoSpuriousConflict
  <2> DEFINE built == BuildEvent(asked[c].in, Len(table) + 1, HeadHash(table),
                                 asked[c].signature)
  <2>1. row[c] = built /\ ByIdemKey(table, asked[c].in.key) = {}
    BY DEF PGInv, TxInv, ReadsHold
  <2>2. built.seq = Len(table) + 1 /\ built.in = asked[c].in
    BY DEF BuildEvent
  <2>3. Len(table) + 1 \notin DOMAIN table
    BY DEF PGInv, PGTypeOK
  <2> HIDE DEF built
  <2> QED
    BY <2>1, <2>2, <2>3 DEF Conflicts
<1> QED
  BY <1>1, TransactionsAreSound, PTL
=============================================================================
