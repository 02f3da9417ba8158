------------------------------ MODULE Identity ------------------------------
(***************************************************************************)
(* The actor directory (internal/identity): who may act, with which token  *)
(* and key, read by every request from a cache that is brought up to date  *)
(* from the journal.  Several processes share the journal (the node, the   *)
(* command line, another node), each with a registry of its own; a call    *)
(* reads, and appends later, with nothing held in between.                 *)
(*                                                                         *)
(* A token is the number of the event that issued it and an invite code    *)
(* the number of its event: both are random, and journaled as hashes.      *)
(* Calls that only a human may make are made by one; a refused call        *)
(* changes nothing and is left out.  Meta data is left out.                *)
(***************************************************************************)
EXTENDS Integers, Sequences, FiniteSets, SequencesExt

CONSTANTS
  Process, Caller, Actor, Role, Key,
  Home,        \* the process that serves a caller
  NoActor, NoRole, NoKey,
  MaxEvents,   \* bound: length of the journal
  MaxLost      \* bound: stored appends that are answered with an error

ASSUME IdentityAssumption ==
  /\ Home \in [Caller -> Process]
  /\ NoActor \notin Actor /\ NoRole \notin Role /\ NoKey \notin Key
  /\ MaxEvents \in Nat /\ MaxLost \in Nat

VARIABLES
  journal,   \* the events of actors and invites, and what actors did
  reg,       \* per process: the registry's watermark and cache
  call       \* per caller: what its call does next

vars == <<journal, reg, call>>

-----------------------------------------------------------------------------
(* An event.  History: seen is how long the journal was when its call read *)
(* the actor it registers, rotates or lets act, asked when it read the     *)
(* invite, or the key of a signature; heard tells whether the caller got   *)
(* the answer.                                                             *)
Event(kind, actor, role, key, token, code) ==
  [kind |-> kind, actor |-> actor, role |-> role, key |-> key, token |-> token,
   code |-> code, seen |-> 0, asked |-> 0, heard |-> TRUE]

Seeing(e) == [e EXCEPT !.seen = Len(journal)]

NextSeq == Len(journal) + 1

Unknown == [known |-> FALSE, role |-> NoRole, key |-> NoKey, token |-> 0,
            disabled |-> FALSE]

Empty == [mark |-> 0, cache |-> [a \in Actor |-> Unknown]]

Idle == [at |-> "idle"]

(* A mutant: an actor that is registered again starts afresh. *)
FoldForgetful(cache, e) ==
  CASE e.kind \in {"registered", "rotated"} ->
         [cache EXCEPT ![e.actor] =
            [known |-> TRUE, role |-> e.role, key |-> e.key,
             token |-> IF e.token # 0 THEN e.token ELSE @.token, disabled |-> FALSE]]
    [] e.kind = "disabled" /\ cache[e.actor].known ->
         [cache EXCEPT ![e.actor].disabled = TRUE]
    [] OTHER -> cache

(* The switch of all: a rotation without a token keeps the token; nothing  *)
(* enables an actor again.                                                 *)
Fold(cache, e) ==
  CASE e.kind \in {"registered", "rotated"} ->
         [cache EXCEPT ![e.actor] =
            [known |-> TRUE, role |-> e.role, key |-> e.key,
             token |-> IF e.token # 0 THEN e.token ELSE @.token, disabled |-> @.disabled]]
    [] e.kind = "disabled" /\ cache[e.actor].known ->
         [cache EXCEPT ![e.actor].disabled = TRUE]
    [] OTHER -> cache

(* A mutant: the cache is trusted once it is filled. *)
FreshOnce(r) ==
  IF reg[r].mark > 0 THEN reg[r]
  ELSE [mark |-> Len(journal), cache |-> FoldLeft(Fold, reg[r].cache, journal)]

(* all: the events behind the watermark are folded into the cache. *)
Fresh(r) ==
  LET folded[n \in reg[r].mark..Len(journal)] ==
        IF n = reg[r].mark THEN reg[r].cache ELSE Fold(folded[n - 1], journal[n])
  IN  [mark |-> Len(journal), cache |-> folded[Len(journal)]]

Read(r) == reg' = [reg EXCEPT ![r] = Fresh(r)]

Lookup(r, a) == Fresh(r).cache[a]

(* findInvite folds the invite's events of the whole journal. *)
Invited(code) == code \in DOMAIN journal /\ journal[code].kind = "invited"

(* A mutant: only the creation is looked up. *)
SpentNever(code) == code \notin DOMAIN journal

Spent(code) ==
  \E n \in DOMAIN journal : journal[n].kind = "redeemed" /\ journal[n].code = code

-----------------------------------------------------------------------------
Init ==
  /\ journal = <<>>
  /\ reg = [r \in Process |-> Empty]
  /\ call = [c \in Caller |-> Idle]

Goes(c, next) == call' = [call EXCEPT ![c] = next]

Store(e) == Len(journal) < MaxEvents /\ journal' = Append(journal, e)

Lost == {n \in DOMAIN journal : ~journal[n].heard}

(* One append: stored and answered, then the call goes on; or refused, or  *)
(* stored and answered with an error, then it returns the error.           *)
Appends(c, e, next) ==
  \/ Store(e) /\ Goes(c, next)
  \/ /\ Cardinality(Lost) < MaxLost
     /\ Store([e EXCEPT !.heard = FALSE]) /\ Goes(c, Idle)
  \/ UNCHANGED journal /\ Goes(c, Idle)

(* What a call carries from its reads to its append. *)
Pending(at, a, e) == [at |-> at, actor |-> a, event |-> e]

Writes(a, e) == Pending("append", a, e)

Registration(a, role, code, asked) ==
  [Event("registered", a, role, NoKey, NextSeq, code) EXCEPT !.asked = asked]

(* Register: the actor is new when the registry is read. *)
Register(c, a, role) ==
  /\ call[c] = Idle
  /\ Read(Home[c])
  /\ ~Lookup(Home[c], a).known
  /\ Goes(c, Writes(a, Seeing(Registration(a, role, 0, 0))))
  /\ UNCHANGED journal

(* EnsureActor: a known actor gets a new token and keeps what was read of  *)
(* it; an unknown one is registered, which reads the registry again.       *)
Ensure(c, a, role) ==
  /\ call[c] = Idle
  /\ Read(Home[c])
  /\ LET info == Lookup(Home[c], a)
     IN  Goes(c, IF info.known
                 THEN Writes(a, Seeing(Event("rotated", a, info.role, info.key, NextSeq, 0)))
                 ELSE Pending("enrol", a, Registration(a, role, 0, 0)))
  /\ UNCHANGED journal

(* Redeem: the invite is looked up in the journal, then the actor. *)
Redeem(c, a, code) ==
  /\ call[c] = Idle
  /\ Invited(code) /\ journal[code].heard
  /\ ~Spent(code)
  /\ Goes(c, Pending("enrol", a,
               Registration(a, journal[code].role, code, Len(journal))))
  /\ UNCHANGED <<journal, reg>>

(* A mutant: the second look's answer is not used. *)
EnrolAnyway(c) ==
  /\ call[c].at = "enrol"
  /\ Read(Home[c])
  /\ Goes(c, Writes(call[c].actor, Seeing(call[c].event)))
  /\ UNCHANGED journal

(* register, called by the two: the actor must be new now. *)
Enrol(c) ==
  /\ call[c].at = "enrol"
  /\ Read(Home[c])
  /\ Goes(c, IF Lookup(Home[c], call[c].actor).known THEN Idle
             ELSE Writes(call[c].actor, Seeing(call[c].event)))
  /\ UNCHANGED journal

RotateKey(c, a, key) ==
  /\ call[c] = Idle
  /\ Read(Home[c])
  /\ Lookup(Home[c], a).known
  /\ Goes(c, Writes(a, Seeing(Event("rotated", a, Lookup(Home[c], a).role, key, 0, 0))))
  /\ UNCHANGED journal

Disable(c, a) ==
  /\ call[c] = Idle
  /\ Read(Home[c])
  /\ Lookup(Home[c], a).known
  /\ Goes(c, Writes(a, Event("disabled", a, NoRole, NoKey, 0, 0)))
  /\ UNCHANGED journal

(* CreateInvite reads nothing. *)
CreateInvite(c, role) ==
  /\ call[c] = Idle
  /\ Appends(c, Event("invited", NoActor, role, NoKey, 0, NextSeq), Idle)
  /\ UNCHANGED reg

(* Authenticate, at the start of a request: the token is one that was      *)
(* handed out; it names the actor whose token it is now.                   *)
Authenticate(c, token) ==
  /\ call[c] = Idle
  /\ token \in DOMAIN journal
  /\ journal[token].token = token /\ journal[token].heard
  /\ Read(Home[c])
  /\ \E a \in Actor :
       /\ Lookup(Home[c], a).token = token /\ ~Lookup(Home[c], a).disabled
       /\ Goes(c, Writes(a, Seeing(Event("acted", a, Lookup(Home[c], a).role, NoKey, token, 0))))
  /\ UNCHANGED journal

(* VerifySignature, within a decision of an authenticated human: by the    *)
(* key the actor has now, if it is not disabled.                           *)
Verify(c, key) ==
  LET p == call[c]
  IN  /\ p.at = "append" /\ p.event.kind = "acted" /\ p.event.key = NoKey
      /\ Read(Home[c])
      /\ Goes(c, IF Lookup(Home[c], p.actor).key = key /\ ~Lookup(Home[c], p.actor).disabled
                 THEN Writes(p.actor, [p.event EXCEPT !.key = key, !.asked = Len(journal)])
                 ELSE Idle)
      /\ UNCHANGED journal

(* A mutant: the token counts on the journal as it was read. *)
WriteAsRead(c) ==
  /\ call[c].at = "append"
  /\ Appends(c, call[c].event, Idle)
  /\ UNCHANGED reg

(* The append of a call, with the token minted for it; after a             *)
(* registration by invite, the invite is marked.                           *)
Write(c) ==
  /\ call[c].at = "append"
  /\ LET e == call[c].event
         minted == e.kind # "acted" /\ e.token # 0
         now == [e EXCEPT !.token = IF minted THEN NextSeq ELSE @]
         mark == Event("redeemed", e.actor, e.role, NoKey, 0, e.code)
     IN  Appends(c, now, IF e.kind = "registered" /\ e.code # 0
                         THEN Writes(e.actor, mark) ELSE Idle)
  /\ UNCHANGED reg

(* A process dies with the calls it serves; the next one starts empty.     *)
Crash(r) ==
  /\ reg' = [reg EXCEPT ![r] = Empty]
  /\ call' = [c \in Caller |->
                IF Home[c] = r THEN Idle ELSE call[c]]
  /\ UNCHANGED journal

(* List and Get: the directory of people, read by the API. *)
List(r) ==
  /\ Read(r)
  /\ UNCHANGED <<journal, call>>

(* A call begins only while its event still fits: a bound. *)
Begin(c) ==
  \/ \E a \in Actor, role \in Role : Register(c, a, role) \/ Ensure(c, a, role)
  \/ \E a \in Actor : Disable(c, a) \/ \E key \in Key : RotateKey(c, a, key)
  \/ \E a \in Actor, code \in 1..MaxEvents : Redeem(c, a, code)
  \/ \E token \in 1..MaxEvents : Authenticate(c, token)

Next ==
  \/ Len(journal) < MaxEvents /\ \E c \in Caller : Begin(c)
  \/ \E c \in Caller, role \in Role : CreateInvite(c, role)
  \/ \E c \in Caller : Enrol(c) \/ Write(c) \/ \E key \in Key : Verify(c, key)
  \/ \E r \in Process : List(r) \/ Crash(r)

Spec == Init /\ [][Next]_vars

-----------------------------------------------------------------------------
(* The shape of the state; a token is the number of its own event, and no  *)
(* cache is ahead of the journal.                                          *)
TypeOK ==
  /\ Len(journal) <= MaxEvents
  /\ \A n \in DOMAIN journal :
       LET e == journal[n]
       IN  /\ e.kind \in {"registered", "rotated", "disabled", "invited", "redeemed", "acted"}
           /\ e.actor \in Actor \cup {NoActor} /\ e.role \in Role \cup {NoRole}
           /\ e.key \in Key \cup {NoKey}
           /\ e.kind \in {"registered", "rotated"} => e.token \in {0, n}
           /\ e.seen < n /\ e.asked < n
  /\ \A r \in Process : reg[r].mark <= Len(journal)
  /\ \A c \in Caller : call[c].at \in {"idle", "enrol", "append"}

(* What the first n events of journal j say of an actor. *)
Tells(j, m, a) == j[m].actor = a /\ j[m].kind \in {"registered", "rotated"}

DisabledBy(j, a, n) == \E m \in 1..n : j[m].actor = a /\ j[m].kind = "disabled"

Directory(j, a, n) ==
  LET told == {m \in 1..n : Tells(j, m, a)}
      tokens == {m \in told : j[m].token # 0}
  IN  IF told = {} THEN Unknown
      ELSE [known |-> TRUE, role |-> j[Max(told)].role, key |-> j[Max(told)].key,
            token |-> IF tokens = {} THEN 0 ELSE Max(tokens),
            disabled |-> DisabledBy(j, a, n)]

(* Every cache is what the journal says up to its watermark, however the   *)
(* reads, the crashes and the appends of other processes fall: a           *)
(* registration or a rotation that comes after a disable, from a call that *)
(* had not seen it, does not let the actor in again (registry.go, all).    *)
DirectoryIsFold ==
  \A r \in Process, a \in Actor : reg[r].cache[a] = Directory(journal, a, reg[r].mark)

(* Whoever acts was let in by what was stored when its request came: not   *)
(* disabled, by the actor's latest token, and what it signed by the key    *)
(* the actor had when the signature was checked, in whatever process       *)
(* (registry.go, Authenticate, VerifySignature, Disable: tokens and        *)
(* signatures "stop working immediately").                                 *)
RevokedStaysOut ==
  \A n \in DOMAIN journal :
    LET e == journal[n]
    IN  e.kind = "acted" =>
          /\ ~DisabledBy(journal, e.actor, e.seen)
          /\ Tells(journal, e.token, e.actor)
          /\ \A m \in (e.token + 1)..e.seen : Tells(journal, m, e.actor) => journal[m].token = 0
          /\ e.key # NoKey => /\ ~DisabledBy(journal, e.actor, e.asked)
                              /\ Directory(journal, e.actor, e.asked).key = e.key

(* Registrations of one actor, and a rotation that brings back an older    *)
(* key or role, come from calls that overlapped: a call never undoes what  *)
(* was stored before it read the actor (registry.go, register, EnsureActor,*)
(* RotateKey; invites.go, Redeem).                                         *)
OverlapOnly ==
  \A n \in DOMAIN journal :
    LET e == journal[n]
        before == Directory(journal, e.actor, e.seen)
    IN  CASE e.kind = "registered" -> ~before.known
          [] e.kind = "rotated" ->
               before.known /\ e.role = before.role /\ (e.token # 0 => e.key = before.key)
          [] OTHER -> TRUE

(* A code lets in nobody whose redemption began after the code was marked, *)
(* whatever happens to the actor it let in; and what marks it is that      *)
(* actor's registration.  Between the registration and its mark, also      *)
(* where a crash or an error leaves the mark out for good, the code lets   *)
(* in others (invites.go, Redeem, findInvite).                             *)
InviteSpent ==
  \A n \in DOMAIN journal :
    LET e == journal[n]
    IN  /\ e.kind = "registered" /\ e.code # 0 =>
             \A m \in 1..e.asked : ~(journal[m].kind = "redeemed" /\ journal[m].code = e.code)
        /\ e.kind = "redeemed" =>
             \E m \in 1..(n - 1) :
               /\ journal[m].kind = "registered" /\ journal[m].heard
               /\ journal[m].actor = e.actor /\ journal[m].code = e.code
=============================================================================
