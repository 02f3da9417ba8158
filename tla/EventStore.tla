----------------------------- MODULE EventStore -----------------------------
(***************************************************************************)
(* The contract of the journal (eventstore.Store): callers on several      *)
(* goroutines and processes append; each append takes effect at one        *)
(* instant or not at all, and one idempotency key names one event.         *)
(*                                                                         *)
(* The atomic step DoAppend is MemStore.Append, the in-memory reference    *)
(* store, which holds its mutex from the key lookup to the insertion.      *)
(* PGStore implements the same contract in several database round trips.   *)
(***************************************************************************)
EXTENDS Journal

CONSTANTS
  Client,     \* the callers: engine, registry, sealer, CLI processes
  MaxEvents   \* bound: the storage is full with this many events

VARIABLES
  events,   \* the journal
  call      \* what each caller asked last, and what it was answered

vars == <<events, call>>

Init ==
  /\ events = <<>>
  /\ call = [c \in Client |-> NoCall]

(* c calls Append.  A caller that got an error may ask the same again: that *)
(* is a retry, and the idempotency key is what makes it one.               *)
Submit(c, what, key) ==
  /\ call[c].status # "open"
  /\ call' = [call EXCEPT ![c] = Asks(what, key)]
  /\ UNCHANGED events

(* Seal, first half: read the head, sign it, and call Append with it.  The *)
(* append is a later step, so the head may have moved by then.             *)
Seal(c) ==
  /\ call[c].status # "open"
  /\ HeadSeq(events) # 0
  /\ call' = [call EXCEPT ![c] = AsksSeal(HeadSeq(events), HeadHash(events))]
  /\ UNCHANGED events

NextEvent(c) ==
  BuildEvent(call[c].in, Len(events) + 1, HeadHash(events), call[c].signature)

(* The call takes effect: the event stored under the key if there is one,  *)
(* else a new event at the end.                                            *)
DoAppend(c) ==
  /\ call[c].status = "open"
  /\ \/ \E n \in ByIdemKey(events, call[c].in.key) :
          /\ call' = [call EXCEPT ![c] = Answered(call[c], n)]
          /\ UNCHANGED events
     \/ /\ ByIdemKey(events, call[c].in.key) = {}
        /\ Len(events) < MaxEvents
        /\ events' = Append(events, NextEvent(c))
        /\ call' = [call EXCEPT ![c] = Answered(call[c], Len(events) + 1)]

(* The call fails and nothing was stored: an empty actor id, an event that *)
(* cannot be encoded, a lost connection, a full disk.                      *)
Refuse(c) ==
  /\ call[c].status = "open"
  /\ call' = [call EXCEPT ![c] = Failed(call[c])]
  /\ UNCHANGED events

(* The event is stored and its caller is told the call failed.  MemStore   *)
(* never does this; a database whose commit acknowledgement is lost does.  *)
LoseAnswer(c) ==
  /\ call[c].status = "open"
  /\ ByIdemKey(events, call[c].in.key) = {}
  /\ Len(events) < MaxEvents
  /\ events' = Append(events, NextEvent(c))
  /\ call' = [call EXCEPT ![c] = Failed(call[c])]

Next ==
  \E c \in Client :
    \/ \E what \in Fact, key \in Key \cup {NoKey} : Submit(c, what, key)
    \/ Seal(c)
    \/ DoAppend(c)
    \/ Refuse(c)
    \/ LoseAnswer(c)

Spec == Init /\ [][Next]_vars

-----------------------------------------------------------------------------
(* The variables range over journals and calls.                            *)
TypeOK ==
  /\ events \in Seq(Event)
  /\ call \in [Client -> Call]

(* However appends of several callers interleave, the journal re-reads as  *)
(* one unbroken hash chain: what Verify checks (chain.go).                 *)
ChainIntact == VerifyChain(events)

(* A checkpoint signed over a head that other appends have since moved     *)
(* still seals an earlier event of this journal by that event's own hash:  *)
(* what VerifyCheckpoints checks (checkpoint.go).                          *)
CheckpointsHold == VerifyCheckpoints(events)

(* Calls that repeat a key, at once or after an error, store one event     *)
(* between them (the contract of Append in store.go).                      *)
OneEventPerKey ==
  \A m, n \in DOMAIN events :
    (events[m].in.key = events[n].in.key /\ events[m].in.key # NoKey) => m = n

(* A call that was answered got an event of the journal: its own, or the   *)
(* one already stored under its key, never one written by a call with      *)
(* another key.                                                            *)
AnswersAreStored ==
  \A c \in Client :
    call[c].status = "done" =>
      /\ call[c].got \in DOMAIN events
      /\ events[call[c].got].in.key = call[c].in.key
      /\ call[c].in.key = NoKey => events[call[c].got].in = call[c].in

(* No step changes or drops a stored event: the journal only grows at its  *)
(* end, which is what lets readers keep a watermark (Since).               *)
OnlyGrows ==
  [][/\ Len(events) <= Len(events')
     /\ \A n \in DOMAIN events : events'[n] = events[n]]_events
=============================================================================
