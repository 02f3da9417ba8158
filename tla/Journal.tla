------------------------------ MODULE Journal ------------------------------
(***************************************************************************)
(* The data of the event journal (internal/eventstore): events, the hash   *)
(* chain that links them, the lookup by idempotency key and the checks     *)
(* that re-read a journal.  Everything here is constant level: EventStore  *)
(* and PGStore are two machines over these definitions.                    *)
(*                                                                         *)
(* SHA-256 is modelled by what the chain relies on: a digest determines    *)
(* what was hashed.  ComputeHash(prev, seq, in) is the list of everything  *)
(* hashed so far, so two digests are equal exactly when their inputs are.  *)
(***************************************************************************)
EXTENDS Integers, Sequences

CONSTANTS
  Fact,        \* what a caller appends: kind, subject, payload and actor in one
  Checkpoint,  \* the kind checkpoint.sealed
  Key,         \* idempotency keys
  NoKey        \* the empty idempotency key

ASSUME JournalAssumption ==
  /\ Checkpoint \notin Fact
  /\ NoKey \notin Key

(* What Append is given.  `sealed` is sealed_seq of a checkpoint's payload *)
(* (0 in every other input).                                               *)
AppendInput ==
  [what: Fact \cup {Checkpoint}, key: Key \cup {NoKey}, sealed: Nat]

Digest == Seq(Nat \X AppendInput)

genesisHash == <<>>

(* A call of Append: what was asked and how it was answered.  `got` is the *)
(* sequence number of the event an answered call got.                      *)
Call ==
  [status: {"idle", "open", "done", "failed"}, in: AppendInput,
   signature: Digest, got: Nat]

NoInput == [what |-> Checkpoint, key |-> NoKey, sealed |-> 0]

NoCall ==
  [status |-> "idle", in |-> NoInput, signature |-> genesisHash, got |-> 0]

Asks(what, key) ==
  [status |-> "open", in |-> [what |-> what, key |-> key, sealed |-> 0],
   signature |-> genesisHash, got |-> 0]

Answered(k, n) ==
  [status |-> "done", in |-> k.in, signature |-> k.signature, got |-> n]

Failed(k) ==
  [status |-> "failed", in |-> k.in, signature |-> k.signature, got |-> 0]

(* The signature of a checkpoint is kept as the digest the node signed:    *)
(* like the code's, it is not covered by the event's own hash.             *)
Event ==
  [seq: Nat, in: AppendInput, prev: Digest, hash: Digest, signature: Digest]

ComputeHash(prev, seq, in) == Append(prev, <<seq, in>>)

(* Mutant: the envelope leaves out the digest of the event before.         *)
ForgetfulBuildEvent(in, seq, prev, signature) ==
  [seq |-> seq, in |-> in, prev |-> genesisHash,
   hash |-> ComputeHash(genesisHash, seq, in), signature |-> signature]

BuildEvent(in, seq, prev, signature) ==
  [seq |-> seq, in |-> in, prev |-> prev,
   hash |-> ComputeHash(prev, seq, in), signature |-> signature]

-----------------------------------------------------------------------------
(* A journal is a function from sequence numbers to events, which is a     *)
(* sequence as long as the numbers have no gap.                            *)

(* Mutant: only the newest event is looked at.                             *)
NewestByIdemKey(events, key) ==
  {n \in DOMAIN events : \A m \in DOMAIN events : m <= n}
    \cap {n \in DOMAIN events : key # NoKey /\ events[n].in.key = key}

(* The events stored under a key: none or one, in a journal kept by Append *)
ByIdemKey(events, key) ==
  {n \in DOMAIN events : key # NoKey /\ events[n].in.key = key}

(* seq and hash of the last event; 0 and the genesis digest when there is  *)
(* none.                                                                   *)
HeadSeq(events) ==
  IF DOMAIN events = {} THEN 0
  ELSE CHOOSE n \in DOMAIN events : \A m \in DOMAIN events : m <= n

HeadHash(events) ==
  IF DOMAIN events = {} THEN genesisHash ELSE events[HeadSeq(events)].hash

(* Seal up to its call of Append: the head it has read, signed.            *)
AsksSeal(seq, hash) ==
  [status |-> "open", signature |-> hash, got |-> 0,
   in |-> [what |-> Checkpoint, key |-> NoKey, sealed |-> seq]]

(* VerifyChain: numbers start at 1 with no gap, each event names the hash  *)
(* of the one before it, and each hash is the hash of the event's content. *)
VerifyChain(events) ==
  \A n \in DOMAIN events :
    /\ events[n].seq = n
    /\ events[n].prev = IF n = 1 THEN genesisHash ELSE events[n - 1].hash
    /\ events[n].hash = ComputeHash(events[n].prev, n, events[n].in)

(* VerifyCheckpoints: every checkpoint seals an earlier event, and the     *)
(* digest the node signed is that event's.                                 *)
VerifyCheckpoints(events) ==
  \A n \in DOMAIN events :
    events[n].in.what = Checkpoint =>
      /\ events[n].in.sealed \in DOMAIN events
      /\ events[n].in.sealed < events[n].seq
      /\ events[n].signature = events[events[n].in.sealed].hash
=============================================================================
