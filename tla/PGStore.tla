------------------------------ MODULE PGStore ------------------------------
(***************************************************************************)
(* PGStore.Append: one transaction per append on a shared PostgreSQL       *)
(* table, one action per round trip to the database.  The transaction      *)
(* takes an advisory lock, looks the key up, reads the last row, inserts   *)
(* its own and commits; any round trip may fail, and the acknowledgement   *)
(* of the commit may be lost.  Statements see the committed rows (read     *)
(* committed isolation), a transaction's own row is seen by nobody else    *)
(* before the commit, and seq and idempotency_key are unique columns.      *)
(***************************************************************************)
EXTENDS Journal

CONSTANTS
  Client,      \* the callers: engine, registry, sealer, CLI processes
  MaxEvents,   \* bound: the storage is full with this many rows
  Nobody       \* the advisory lock's holder when it is free

ASSUME PGStoreAssumption == MaxEvents \in Nat /\ Nobody \notin Client

VARIABLES
  table,   \* the committed rows of the events table, by seq
  lock,    \* who holds the advisory transaction lock
  pc,      \* the round trip each caller's transaction does next
  asked,   \* the calls, as in EventStore
  row      \* the row a transaction has built and not committed yet

pgvars == <<table, lock, pc, asked, row>>

NoRow ==
  BuildEvent(NoInput, 0, genesisHash, genesisHash)

PGInit ==
  /\ table = <<>>
  /\ lock = Nobody
  /\ pc = [c \in Client |-> "out"]
  /\ asked = [c \in Client |-> NoCall]
  /\ row = [c \in Client |-> NoRow]

(* Mutant: the lock belongs to the session and outlives its transaction. *)
LeakyEndTx(c) ==
  /\ pc' = [pc EXCEPT ![c] = "out"]
  /\ row' = [row EXCEPT ![c] = NoRow]
  /\ UNCHANGED lock

(* The transaction ends, by commit or by the deferred rollback: its lock   *)
(* is released and its row is its own no longer.                           *)
EndTx(c) ==
  /\ pc' = [pc EXCEPT ![c] = "out"]
  /\ row' = [row EXCEPT ![c] = NoRow]
  /\ lock' = IF lock = c THEN Nobody ELSE lock

Answer(c, n) == asked' = [asked EXCEPT ![c] = Answered(asked[c], n)]

Fail(c) == asked' = [asked EXCEPT ![c] = Failed(asked[c])]

(* Begin the transaction of a new call. *)
Begin(c, what, key) ==
  /\ pc[c] = "out"
  /\ asked' = [asked EXCEPT ![c] = Asks(what, key)]
  /\ pc' = [pc EXCEPT ![c] = "lock"]
  /\ UNCHANGED <<table, lock, row>>

(* Mutant: the hash is read first, the number by a second query. *)
BeginRacySeal(c) ==
  /\ pc[c] = "out"
  /\ HeadSeq(table) # 0
  /\ asked' = [asked EXCEPT ![c] = AsksSeal(HeadSeq(table) + 1, HeadHash(table))]
  /\ pc' = [pc EXCEPT ![c] = "lock"]
  /\ UNCHANGED <<table, lock, row>>

(* Seal reads the head outside any transaction, then calls Append. *)
BeginSeal(c) ==
  /\ pc[c] = "out"
  /\ HeadSeq(table) # 0
  /\ asked' = [asked EXCEPT ![c] = AsksSeal(HeadSeq(table), HeadHash(table))]
  /\ pc' = [pc EXCEPT ![c] = "lock"]
  /\ UNCHANGED <<table, lock, row>>

(* Mutant: the lock statement fails and nobody looks at its error. *)
LockUnchecked(c) ==
  /\ pc[c] = "lock"
  /\ lock' = IF lock = Nobody THEN c ELSE lock
  /\ pc' = [pc EXCEPT ![c] = IF asked[c].in.key = NoKey THEN "last" ELSE "key"]
  /\ UNCHANGED <<table, asked, row>>

(* pg_advisory_xact_lock waits until the lock is free. *)
Lock(c) ==
  /\ pc[c] = "lock"
  /\ lock = Nobody
  /\ lock' = c
  /\ pc' = [pc EXCEPT ![c] = IF asked[c].in.key = NoKey THEN "last" ELSE "key"]
  /\ UNCHANGED <<table, asked, row>>

(* Mutant: a retry is answered with the newest event. *)
LookUpNewest(c) ==
  /\ pc[c] = "key"
  /\ \/ /\ ByIdemKey(table, asked[c].in.key) # {}
        /\ Answer(c, HeadSeq(table))
        /\ EndTx(c)
     \/ /\ ByIdemKey(table, asked[c].in.key) = {}
        /\ pc' = [pc EXCEPT ![c] = "last"]
        /\ UNCHANGED <<lock, asked, row>>
  /\ UNCHANGED table

(* Look the idempotency key up; a prior event is the answer. *)
LookUpKey(c) ==
  /\ pc[c] = "key"
  /\ \/ \E n \in ByIdemKey(table, asked[c].in.key) :
          /\ Answer(c, n)
          /\ EndTx(c)
     \/ /\ ByIdemKey(table, asked[c].in.key) = {}
        /\ pc' = [pc EXCEPT ![c] = "last"]
        /\ UNCHANGED <<lock, asked, row>>
  /\ UNCHANGED table

(* Mutant: the new row is numbered one too low twice over. *)
ReadBehind(c) ==
  /\ pc[c] = "last"
  /\ row' = [row EXCEPT ![c] =
               BuildEvent(asked[c].in, HeadSeq(table) - 1, HeadHash(table),
                          asked[c].signature)]
  /\ pc' = [pc EXCEPT ![c] = "insert"]
  /\ UNCHANGED <<table, lock, asked>>

(* Read seq and hash of the last row and build the event on them. *)
ReadLast(c) ==
  /\ pc[c] = "last"
  /\ row' = [row EXCEPT ![c] =
               BuildEvent(asked[c].in, HeadSeq(table) + 1, HeadHash(table),
                          asked[c].signature)]
  /\ pc' = [pc EXCEPT ![c] = "insert"]
  /\ UNCHANGED <<table, lock, asked>>

(* What the unique columns refuse. *)
Conflicts(c) ==
  \/ row[c].seq \in DOMAIN table
  \/ ByIdemKey(table, row[c].in.key) # {}

(* INSERT, seen by this transaction alone until it commits.  A row the     *)
(* unique columns refuse, or a full disk, is an error to the caller.       *)
Insert(c) ==
  /\ pc[c] = "insert"
  /\ \/ /\ ~Conflicts(c) /\ row[c].seq <= MaxEvents
        /\ pc' = [pc EXCEPT ![c] = "commit"]
        /\ UNCHANGED <<lock, asked, row>>
     \/ /\ Conflicts(c) \/ row[c].seq > MaxEvents
        /\ Fail(c)
        /\ EndTx(c)
  /\ UNCHANGED table

(* The table with one more row. *)
WithRow(r) ==
  [n \in DOMAIN table \cup {r.seq} |-> IF n = r.seq THEN r ELSE table[n]]

(* Mutant: the error of the commit is not looked at. *)
CommitUnchecked(c) ==
  /\ pc[c] = "commit"
  /\ table' \in {table, WithRow(row[c])}
  /\ Answer(c, row[c].seq)
  /\ EndTx(c)

(* COMMIT, acknowledged. *)
Commit(c) ==
  /\ pc[c] = "commit"
  /\ table' = WithRow(row[c])
  /\ Answer(c, row[c].seq)
  /\ EndTx(c)

(* COMMIT took effect and its acknowledgement was lost: the caller gets an *)
(* error for an event that is in the journal.                              *)
CommitUnacknowledged(c) ==
  /\ pc[c] = "commit"
  /\ table' = WithRow(row[c])
  /\ Fail(c)
  /\ EndTx(c)

(* A round trip fails: the transaction rolls back, nothing is stored. *)
Abort(c) ==
  /\ pc[c] # "out"
  /\ Fail(c)
  /\ EndTx(c)
  /\ UNCHANGED table

Trip(c) ==
  Lock(c) \/ LookUpKey(c) \/ ReadLast(c) \/ Insert(c) \/ Commit(c)

PGNext ==
  \E c \in Client :
    \/ \E what \in Fact, key \in Key \cup {NoKey} : Begin(c, what, key)
    \/ BeginSeal(c)
    \/ Trip(c)
    \/ CommitUnacknowledged(c)
    \/ Abort(c)

(* PostgreSQL queues the waiters of an advisory lock, so a caller that     *)
(* waits is served in turn (strong fairness of Lock); the rest of a        *)
(* transaction is straight-line code (weak fairness).  Failures may        *)
(* happen and are never owed.                                              *)
Fairness ==
  \A c \in Client :
    /\ SF_pgvars(Lock(c))
    /\ WF_pgvars(LookUpKey(c) \/ ReadLast(c) \/ Insert(c) \/ Commit(c))

PGSpec == PGInit /\ [][PGNext]_pgvars /\ Fairness

-----------------------------------------------------------------------------
(* The committed rows and the calls are a behaviour of the store contract. *)
Store == INSTANCE EventStore WITH events <- table, call <- asked

(* The variables range over tables, transactions and calls.                *)
PGTypeOK ==
  /\ table \in Seq(Event)
  /\ asked \in [Client -> Call]
  /\ lock \in Client \cup {Nobody}
  /\ pc \in [Client -> {"out", "lock", "key", "last", "insert", "commit"}]
  /\ row \in [Client -> Event]

(* See EventStore for what these say; here they are about what transactions *)
(* leave in the table.                                                     *)
ChainIntact == VerifyChain(table)
CheckpointsHold == VerifyCheckpoints(table)
OneEventPerKey == Store!OneEventPerKey
AnswersAreStored == Store!AnswersAreStored

(* With the advisory lock the unique columns are never what stops an       *)
(* append: no caller sees a duplicate-key error for losing a race.         *)
NoSpuriousConflict == \A c \in Client : pc[c] = "insert" => ~Conflicts(c)

(* "PGStore must behave identically" to the reference store (store.go):    *)
(* every behaviour of the transactions is one of EventStore, where an      *)
(* append is a single step.                                                *)
ImplementsStore == Store!Spec

(* Every call of Append returns, with an event or an error: no caller      *)
(* waits for the lock for ever, whatever the others' failures.             *)
EveryCallReturns == \A c \in Client : (pc[c] # "out") ~> (pc[c] = "out")
=============================================================================
