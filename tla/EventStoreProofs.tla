-------------------------- MODULE EventStoreProofs --------------------------
(***************************************************************************)
(* Proofs about the journal contract, for any number of callers, keys and  *)
(* payloads and for journals of any length.                                *)
(***************************************************************************)
EXTENDS EventStore, TLAPS, SequenceTheorems

(* A checkpoint that is signed but not yet appended seals an event the     *)
(* journal already has, by that event's hash: the journal only grows, so   *)
(* this stays true while other callers append.                             *)
PendingSealsHold ==
  \A c \in Client :
    (call[c].status = "open" /\ call[c].in.what = Checkpoint) =>
      /\ call[c].in.sealed \in DOMAIN events
      /\ call[c].signature = events[call[c].in.sealed].hash

(* The inductive invariant: the four safety properties lean on the types   *)
(* and on the checkpoints that are under way.                              *)
StoreInv ==
  /\ TypeOK
  /\ ChainIntact
  /\ CheckpointsHold
  /\ PendingSealsHold
  /\ OneEventPerKey
  /\ AnswersAreStored

-----------------------------------------------------------------------------
(* The head of a journal without gaps is its last event (Head).            *)
LEMMA HeadIsLast ==
  ASSUME NEW s \in Seq(Event)
  PROVE  /\ HeadSeq(s) = Len(s)
         /\ HeadHash(s) = IF Len(s) = 0 THEN genesisHash ELSE s[Len(s)].hash
<1>1. DOMAIN s = 1..Len(s) /\ Len(s) \in Nat
  OBVIOUS
<1>2. CASE Len(s) = 0
  BY <1>1, <1>2 DEF HeadSeq, HeadHash
<1>3. CASE Len(s) # 0
  <2>1. Len(s) \in DOMAIN s /\ \A m \in DOMAIN s : m <= Len(s)
    BY <1>1, <1>3
  <2>2. HeadSeq(s) = CHOOSE n \in DOMAIN s : \A m \in DOMAIN s : m <= n
    BY <2>1 DEF HeadSeq
  <2>3. /\ HeadSeq(s) \in DOMAIN s
        /\ \A m \in DOMAIN s : m <= HeadSeq(s)
    BY <2>1, <2>2
  <2>4. HeadSeq(s) = Len(s)
    BY <1>1, <2>1, <2>3
  <2> QED
    BY <1>3, <2>1, <2>4 DEF HeadHash
<1> QED
  BY <1>2, <1>3

(* The constructor builds an event (BuildEvent).                           *)
LEMMA BuildEventType ==
  ASSUME NEW in \in AppendInput, NEW seq \in Nat,
         NEW prev \in Digest, NEW signature \in Digest
  PROVE  BuildEvent(in, seq, prev, signature) \in Event
<1>1. Append(prev, <<seq, in>>) \in Digest
  BY DEF Digest
<1> QED
  BY <1>1 DEF BuildEvent, ComputeHash, Event

(* The event a call appends is well formed and has the fields Append gave  *)
(* it.                                                                     *)
LEMMA NextEventType ==
  ASSUME TypeOK, NEW c \in Client
  PROVE  /\ NextEvent(c) \in Event
         /\ NextEvent(c).seq = Len(events) + 1
         /\ NextEvent(c).in = call[c].in
         /\ NextEvent(c).prev = HeadHash(events)
         /\ NextEvent(c).signature = call[c].signature
         /\ NextEvent(c).hash =
              ComputeHash(HeadHash(events), Len(events) + 1, call[c].in)
<1>1. HeadHash(events) \in Digest
  <2>1. genesisHash \in Digest
    BY DEF genesisHash, Digest
  <2>2. Len(events) # 0 => events[Len(events)] \in Event
    BY DEF TypeOK
  <2> QED
    BY <2>1, <2>2, HeadIsLast DEF TypeOK, Event
<1>2. call[c].in \in AppendInput /\ call[c].signature \in Digest
  BY DEF TypeOK, Call
<1>3. Len(events) + 1 \in Nat
  BY DEF TypeOK
<1>4. NextEvent(c) \in Event
  BY <1>1, <1>2, <1>3, BuildEventType DEF NextEvent
<1> QED
  BY <1>4 DEF NextEvent, BuildEvent

(* What one step can do to the journal: nothing, or one new event at its   *)
(* end under a key that was free.                                          *)
LEMMA JournalStep ==
  ASSUME TypeOK, [Next]_vars
  PROVE  \/ UNCHANGED events
         \/ \E c \in Client :
              /\ call[c].status = "open"
              /\ ByIdemKey(events, call[c].in.key) = {}
              /\ events' = Append(events, NextEvent(c))
BY DEF Next, vars, Submit, Seal, DoAppend, Refuse, LoseAnswer

(* The length and the entries of a journal that got one more event.        *)
LEMMA AfterAppend ==
  ASSUME NEW s \in Seq(Event), NEW e \in Event
  PROVE  /\ Append(s, e) \in Seq(Event)
         /\ Len(Append(s, e)) = Len(s) + 1
         /\ DOMAIN s = 1..Len(s)
         /\ DOMAIN Append(s, e) = 1..(Len(s) + 1)
         /\ \A n \in DOMAIN s : Append(s, e)[n] = s[n]
         /\ Append(s, e)[Len(s) + 1] = e
OBVIOUS

-----------------------------------------------------------------------------
LEMMA TypeInit == Init => TypeOK
<1> SUFFICES ASSUME Init PROVE TypeOK
  OBVIOUS
<1>1. NoInput \in AppendInput /\ genesisHash \in Digest
  BY DEF NoInput, AppendInput, genesisHash, Digest
<1>2. NoCall \in Call
  BY <1>1 DEF NoCall, Call
<1> QED
  BY <1>2 DEF Init, TypeOK

LEMMA TypeStep == TypeOK /\ [Next]_vars => TypeOK'
<1> SUFFICES ASSUME TypeOK, [Next]_vars PROVE TypeOK'
  OBVIOUS
<1>1. events' \in Seq(Event)
  BY JournalStep, NextEventType, AfterAppend DEF TypeOK
<1>2. ASSUME NEW c \in Client, NEW what \in Fact, NEW key \in Key \cup {NoKey},
             Submit(c, what, key)
      PROVE  call' \in [Client -> Call]
  <2>1. [what |-> what, key |-> key, sealed |-> 0] \in AppendInput
    BY DEF AppendInput
  <2>2. Asks(what, key) \in Call
    BY <2>1 DEF Asks, Call, genesisHash, Digest
  <2> QED
    BY <1>2, <2>2 DEF Submit, TypeOK
<1>3. ASSUME NEW c \in Client, Seal(c)
      PROVE  call' \in [Client -> Call]
  <2>1. HeadSeq(events) = Len(events) /\ Len(events) \in Nat
    BY HeadIsLast DEF TypeOK
  <2>2. Len(events) # 0 /\ HeadHash(events) = events[Len(events)].hash
    BY <1>3, <2>1, HeadIsLast DEF Seal, TypeOK
  <2>3. events[Len(events)] \in Event
    BY <2>1, <2>2 DEF TypeOK
  <2>4. HeadHash(events) \in Digest
    BY <2>2, <2>3 DEF Event
  <2>5. AsksSeal(HeadSeq(events), HeadHash(events)) \in Call
    BY <2>1, <2>4 DEF AsksSeal, Call, AppendInput
  <2> QED
    BY <1>3, <2>5 DEF Seal, TypeOK
<1>4. ASSUME NEW c \in Client, DoAppend(c)
      PROVE  call' \in [Client -> Call]
  <2>1. DOMAIN events \subseteq Nat /\ Len(events) + 1 \in Nat
    BY DEF TypeOK
  <2>2. ByIdemKey(events, call[c].in.key) \subseteq Nat
    BY <2>1 DEF ByIdemKey
  <2>3. PICK n \in Nat : call' = [call EXCEPT ![c] = Answered(call[c], n)]
    BY <1>4, <2>1, <2>2 DEF DoAppend
  <2>4. Answered(call[c], n) \in Call
    BY DEF TypeOK, Answered, Call
  <2> QED
    BY <2>3, <2>4 DEF TypeOK
<1>5. ASSUME NEW c \in Client, Refuse(c) \/ LoseAnswer(c)
      PROVE  call' \in [Client -> Call]
  <2>1. Failed(call[c]) \in Call
    BY DEF TypeOK, Failed, Call
  <2> QED
    BY <1>5, <2>1 DEF Refuse, LoseAnswer, TypeOK
<1>6. CASE UNCHANGED vars
  BY <1>6 DEF vars, TypeOK
<1> QED
  BY <1>1, <1>2, <1>3, <1>4, <1>5, <1>6 DEF Next, TypeOK

-----------------------------------------------------------------------------
LEMMA ChainStep == TypeOK /\ ChainIntact /\ [Next]_vars => ChainIntact'
<1> SUFFICES ASSUME TypeOK, ChainIntact, [Next]_vars PROVE ChainIntact'
  OBVIOUS
<1>1. CASE UNCHANGED events
  BY <1>1 DEF ChainIntact, VerifyChain
<1>2. ASSUME NEW c \in Client, events' = Append(events, NextEvent(c))
      PROVE  ChainIntact'
  <2> DEFINE e == NextEvent(c)
             k == Len(events) + 1
  <2>1. /\ Len(events) \in Nat
        /\ DOMAIN events = 1..Len(events)
        /\ DOMAIN events' = 1..k
        /\ events'[k] = e
        /\ \A n \in DOMAIN events : events'[n] = events[n]
    BY <1>2, NextEventType, AfterAppend DEF TypeOK
  <2>2. ASSUME NEW n \in DOMAIN events
        PROVE  /\ events'[n].seq = n
               /\ events'[n].prev =
                    IF n = 1 THEN genesisHash ELSE events'[n - 1].hash
               /\ events'[n].hash = ComputeHash(events'[n].prev, n, events'[n].in)
    <3>1. n # 1 => n - 1 \in DOMAIN events
      BY <2>1
    <3>2. events'[n] = events[n] /\ (n # 1 => events'[n - 1] = events[n - 1])
      BY <2>1, <3>1
    <3> QED
      BY <3>2 DEF ChainIntact, VerifyChain
  <2>3. /\ e.seq = k
        /\ e.prev = IF k = 1 THEN genesisHash ELSE events'[k - 1].hash
        /\ e.hash = ComputeHash(e.prev, k, e.in)
    <3>1. HeadHash(events) =
            IF Len(events) = 0 THEN genesisHash ELSE events[Len(events)].hash
      BY HeadIsLast DEF TypeOK
    <3>2. k = 1 <=> Len(events) = 0
      BY <2>1
    <3>3. k # 1 => (k - 1 = Len(events) /\ events'[k - 1] = events[Len(events)])
      BY <2>1, <3>2
    <3>4. HeadHash(events) = IF k = 1 THEN genesisHash ELSE events'[k - 1].hash
      BY <3>1, <3>2, <3>3
    <3> QED
      BY <3>4, NextEventType
  <2>4. \A n \in DOMAIN events' : n \in DOMAIN events \/ n = k
    BY <2>1
  <2> QED
    BY <2>1, <2>2, <2>3, <2>4 DEF ChainIntact, VerifyChain
<1> QED
  BY <1>1, <1>2, JournalStep

LEMMA CheckpointStep ==
  TypeOK /\ CheckpointsHold /\ PendingSealsHold /\ [Next]_vars
    => CheckpointsHold'
<1> SUFFICES ASSUME TypeOK, CheckpointsHold, PendingSealsHold, [Next]_vars
             PROVE  CheckpointsHold'
  OBVIOUS
<1>1. CASE UNCHANGED events
  BY <1>1 DEF CheckpointsHold, VerifyCheckpoints
<1>2. ASSUME NEW c \in Client, call[c].status = "open",
             events' = Append(events, NextEvent(c))
      PROVE  CheckpointsHold'
  <2> DEFINE e == NextEvent(c)
             k == Len(events) + 1
  <2>1. /\ Len(events) \in Nat
        /\ DOMAIN events = 1..Len(events)
        /\ DOMAIN events' = 1..k
        /\ events'[k] = e
        /\ \A n \in DOMAIN events : events'[n] = events[n]
    BY <1>2, NextEventType, AfterAppend DEF TypeOK
  <2>2. ASSUME NEW n \in DOMAIN events, events'[n].in.what = Checkpoint
        PROVE  /\ events'[n].in.sealed \in DOMAIN events'
               /\ events'[n].in.sealed < events'[n].seq
               /\ events'[n].signature = events'[events'[n].in.sealed].hash
    <3>1. /\ events[n].in.sealed \in DOMAIN events
          /\ events[n].in.sealed < events[n].seq
          /\ events[n].signature = events[events[n].in.sealed].hash
      BY <2>1, <2>2 DEF CheckpointsHold, VerifyCheckpoints
    <3> QED
      BY <2>1, <3>1
  <2>3. ASSUME e.in.what = Checkpoint
        PROVE  /\ e.in.sealed \in DOMAIN events'
               /\ e.in.sealed < e.seq
               /\ e.signature = events'[e.in.sealed].hash
    <3>1. e.in = call[c].in /\ e.signature = call[c].signature /\ e.seq = k
      BY NextEventType
    <3>2. /\ call[c].in.sealed \in DOMAIN events
          /\ call[c].signature = events[call[c].in.sealed].hash
      BY <1>2, <2>3, <3>1 DEF PendingSealsHold
    <3> QED
      BY <2>1, <3>1, <3>2
  <2>4. \A n \in DOMAIN events' : n \in DOMAIN events \/ n = k
    BY <2>1
  <2> QED
    BY <2>1, <2>2, <2>3, <2>4 DEF CheckpointsHold, VerifyCheckpoints
<1> QED
  BY <1>1, <1>2, JournalStep

LEMMA KeyStep == TypeOK /\ OneEventPerKey /\ [Next]_vars => OneEventPerKey'
<1> SUFFICES ASSUME TypeOK, OneEventPerKey, [Next]_vars PROVE OneEventPerKey'
  OBVIOUS
<1>1. CASE UNCHANGED events
  BY <1>1 DEF OneEventPerKey
<1>2. ASSUME NEW c \in Client, ByIdemKey(events, call[c].in.key) = {},
             events' = Append(events, NextEvent(c))
      PROVE  OneEventPerKey'
  <2> DEFINE e == NextEvent(c)
             k == Len(events) + 1
  <2>1. /\ DOMAIN events = 1..Len(events)
        /\ DOMAIN events' = 1..k
        /\ events'[k] = e
        /\ \A n \in DOMAIN events : events'[n] = events[n]
        /\ \A n \in DOMAIN events' : n \in DOMAIN events \/ n = k
    BY <1>2, NextEventType, AfterAppend DEF TypeOK
  <2>2. e.in.key = call[c].in.key
    BY NextEventType
  <2>3. \A n \in DOMAIN events :
          e.in.key # NoKey => events'[n].in.key # e.in.key
    BY <1>2, <2>1, <2>2 DEF ByIdemKey
  <2> QED
    BY <2>1, <2>3 DEF OneEventPerKey
<1> QED
  BY <1>1, <1>2, JournalStep

LEMMA PendingStep ==
  TypeOK /\ PendingSealsHold /\ [Next]_vars => PendingSealsHold'
<1> SUFFICES ASSUME TypeOK, PendingSealsHold, [Next]_vars,
                    NEW d \in Client,
                    call'[d].status = "open", call'[d].in.what = Checkpoint
             PROVE  /\ call'[d].in.sealed \in DOMAIN events'
                    /\ call'[d].signature = events'[call'[d].in.sealed].hash
  BY DEF PendingSealsHold
<1>1. \A n \in DOMAIN events : n \in DOMAIN events' /\ events'[n] = events[n]
  BY JournalStep, NextEventType, AfterAppend DEF TypeOK
<1>2. CASE call'[d] = call[d]
  BY <1>1, <1>2 DEF PendingSealsHold
<1>3. ASSUME NEW c \in Client, NEW what \in Fact, NEW key \in Key \cup {NoKey},
             Submit(c, what, key), call'[d] # call[d]
      PROVE  FALSE
  <2>1. c = d /\ call'[d].in.what = what
    BY <1>3 DEF Submit, Asks, TypeOK
  <2> QED
    BY <2>1, JournalAssumption
<1>4. ASSUME NEW c \in Client, Seal(c), call'[d] # call[d]
      PROVE  /\ call'[d].in.sealed \in DOMAIN events'
             /\ call'[d].signature = events'[call'[d].in.sealed].hash
  <2>1. call'[d] = AsksSeal(HeadSeq(events), HeadHash(events))
    BY <1>4 DEF Seal, TypeOK
  <2>2. /\ HeadSeq(events) = Len(events)
        /\ HeadSeq(events) # 0
        /\ HeadHash(events) = events[Len(events)].hash
    BY <1>4, HeadIsLast DEF Seal, TypeOK
  <2>3. Len(events) \in DOMAIN events
    BY <2>2 DEF TypeOK
  <2> QED
    BY <1>1, <2>1, <2>2, <2>3 DEF AsksSeal
<1>5. ASSUME NEW c \in Client, DoAppend(c) \/ Refuse(c) \/ LoseAnswer(c),
             call'[d] # call[d]
      PROVE  FALSE
  <2>1. c = d /\ call'[d].status \in {"done", "failed"}
    BY <1>5 DEF DoAppend, Refuse, LoseAnswer, Answered, Failed, TypeOK
  <2> QED
    BY <2>1
<1> QED
  BY <1>2, <1>3, <1>4, <1>5 DEF Next, vars

LEMMA AnswersStep ==
  TypeOK /\ AnswersAreStored /\ [Next]_vars => AnswersAreStored'
<1> SUFFICES ASSUME TypeOK, AnswersAreStored, [Next]_vars,
                    NEW d \in Client, call'[d].status = "done"
             PROVE  /\ call'[d].got \in DOMAIN events'
                    /\ events'[call'[d].got].in.key = call'[d].in.key
                    /\ call'[d].in.key = NoKey
                         => events'[call'[d].got].in = call'[d].in
  BY DEF AnswersAreStored
<1>1. \A n \in DOMAIN events : n \in DOMAIN events' /\ events'[n] = events[n]
  BY JournalStep, NextEventType, AfterAppend DEF TypeOK
<1>2. CASE call'[d] = call[d]
  BY <1>1, <1>2 DEF AnswersAreStored
<1>3. ASSUME NEW c \in Client, DoAppend(c), call'[d] # call[d]
      PROVE  /\ call'[d].got \in DOMAIN events'
             /\ events'[call'[d].got].in.key = call'[d].in.key
             /\ call'[d].in.key = NoKey
                  => events'[call'[d].got].in = call'[d].in
  <2>1. c = d
    BY <1>3 DEF DoAppend, TypeOK
  <2>2. CASE \E n \in ByIdemKey(events, call[c].in.key) :
               call' = [call EXCEPT ![c] = Answered(call[c], n)]
    <3>1. PICK n \in ByIdemKey(events, call[c].in.key) :
            call' = [call EXCEPT ![c] = Answered(call[c], n)]
      BY <2>2
    <3>2. call'[d] = Answered(call[d], n)
      BY <2>1, <3>1 DEF TypeOK
    <3>3. /\ n \in DOMAIN events
          /\ call[d].in.key # NoKey
          /\ events[n].in.key = call[d].in.key
      BY <2>1, <3>1 DEF ByIdemKey
    <3> QED
      BY <1>1, <3>2, <3>3 DEF Answered
  <2>3. CASE /\ events' = Append(events, NextEvent(c))
             /\ call' = [call EXCEPT ![c] = Answered(call[c], Len(events) + 1)]
    <3>1. call'[d] = Answered(call[d], Len(events) + 1)
      BY <2>1, <2>3 DEF TypeOK
    <3>2. /\ Len(events) + 1 \in DOMAIN events'
          /\ events'[Len(events) + 1] = NextEvent(d)
      BY <2>1, <2>3, NextEventType, AfterAppend DEF TypeOK
    <3> QED
      BY <3>1, <3>2, NextEventType DEF Answered
  <2> QED
    BY <1>3, <2>2, <2>3 DEF DoAppend
<1>4. ASSUME NEW c \in Client,
             \/ \E what \in Fact, key \in Key \cup {NoKey} : Submit(c, what, key)
             \/ Seal(c)
             \/ Refuse(c)
             \/ LoseAnswer(c),
             call'[d] # call[d]
      PROVE  FALSE
  <2>1. c = d /\ call'[d].status \in {"open", "failed"}
    BY <1>4 DEF Submit, Seal, Refuse, LoseAnswer, Asks, AsksSeal, Failed, TypeOK
  <2> QED
    BY <2>1
<1> QED
  BY <1>2, <1>3, <1>4 DEF Next, vars

-----------------------------------------------------------------------------
LEMMA InvInit == Init => StoreInv
<1> SUFFICES ASSUME Init PROVE StoreInv
  OBVIOUS
<1>1. DOMAIN events = {} /\ \A c \in Client : call[c].status = "idle"
  BY DEF Init, NoCall
<1> QED
  BY <1>1, TypeInit
  DEF StoreInv, ChainIntact, VerifyChain, CheckpointsHold, VerifyCheckpoints,
      PendingSealsHold, OneEventPerKey, AnswersAreStored

LEMMA InvStep == StoreInv /\ [Next]_vars => StoreInv'
BY TypeStep, ChainStep, CheckpointStep, PendingStep, KeyStep, AnswersStep
DEF StoreInv

(* In every behaviour of the journal, of any length and with any number of *)
(* callers, the types hold, the chain and every checkpoint verify, a key   *)
(* names one event and every answer names the event it stands for.         *)
THEOREM StoreIsSound == Spec => []StoreInv
<1>1. Init => StoreInv
  BY InvInit
<1>2. StoreInv /\ [Next]_vars => StoreInv'
  BY InvStep
<1> QED
  BY <1>1, <1>2, PTL DEF Spec

(* The journal is append-only: no step of any caller changes, reorders or  *)
(* drops a stored event (the package comment of event.go).    *)
THEOREM JournalOnlyGrows == Spec => OnlyGrows
<1> DEFINE Grows == /\ Len(events) <= Len(events')
                    /\ \A n \in DOMAIN events : events'[n] = events[n]
<1>1. TypeOK /\ [Next]_vars => [Grows]_events
  <2> SUFFICES ASSUME TypeOK, [Next]_vars, ~UNCHANGED events PROVE Grows
    OBVIOUS
  <2>1. PICK c \in Client : events' = Append(events, NextEvent(c))
    BY JournalStep
  <2>2. NextEvent(c) \in Event /\ Len(events) \in Nat
    BY NextEventType DEF TypeOK
  <2> QED
    BY <2>1, <2>2, AfterAppend DEF TypeOK
<1>2. Spec => []TypeOK
  <2>1. StoreInv => TypeOK
    BY DEF StoreInv
  <2> QED
    BY <2>1, StoreIsSound, PTL
<1> QED
  BY <1>1, <1>2, PTL DEF Spec, OnlyGrows
=============================================================================
