--------------------------- MODULE IdentityProofs ---------------------------
(***************************************************************************)
(* Every process's directory is the journal's and who was disabled or lost *)
(* a token or key stays out: proved for any number of processes, callers   *)
(* and actors, any interleaving of their reads and appends, and any        *)
(* crashes and lost answers.                                               *)
(***************************************************************************)
EXTENDS Identity, TLAPS, SequenceTheorems, WellFoundedInduction

EventSet ==
  [kind: {"registered", "rotated", "disabled", "invited", "redeemed", "acted"},
   actor: Actor \cup {NoActor}, role: Role \cup {NoRole}, key: Key \cup {NoKey},
   token: Nat, code: Nat, seen: Nat, asked: Nat, heard: BOOLEAN]

Info ==
  [known: BOOLEAN, role: Role \cup {NoRole}, key: Key \cup {NoKey},
   token: Nat, disabled: BOOLEAN]

(* Whoever acts was let in by what its request had read of journal j.      *)
LetIn(j, e) ==
  e.kind = "acted" =>
    /\ ~DisabledBy(j, e.actor, e.seen)
    /\ Tells(j, e.token, e.actor)
    /\ \A m \in (e.token + 1)..e.seen : Tells(j, m, e.actor) => j[m].token = 0
    /\ e.key # NoKey => /\ ~DisabledBy(j, e.actor, e.asked)
                        /\ Directory(j, e.actor, e.asked).key = e.key

(* A registration or rotation fits the actor as its call had read it.      *)
Fits(j, e) ==
  /\ e.kind = "registered" => ~Directory(j, e.actor, e.seen).known
  /\ e.kind = "rotated" =>
       /\ Directory(j, e.actor, e.seen).known
       /\ e.role = Directory(j, e.actor, e.seen).role
       /\ e.token # 0 => e.key = Directory(j, e.actor, e.seen).key

(* The code of a registration was not spent when its call read it.         *)
Unspent(j, e) ==
  (e.kind = "registered" /\ e.code # 0) =>
    \A m \in 1..e.asked : ~(j[m].kind = "redeemed" /\ j[m].code = e.code)

(* Among the first k events is what a disable or a mark follows.           *)
Follows(j, e, k) ==
  /\ e.kind = "disabled" => \E m \in 1..k : Tells(j, m, e.actor)
  /\ e.kind = "redeemed" =>
       \E m \in 1..k : /\ j[m].kind = "registered" /\ j[m].heard
                       /\ j[m].actor = e.actor /\ j[m].code = e.code

(* The first k events of journal j justify event e.                        *)
Justified(j, e, k) ==
  /\ e.seen <= k /\ e.asked <= k
  /\ e.kind # "invited" => e.actor \in Actor
  /\ e.kind = "acted" => e.token \in 1..k
  /\ LetIn(j, e) /\ Fits(j, e) /\ Unspent(j, e) /\ Follows(j, e, k)

Minted(e, n) == e.kind \in {"registered", "rotated"} => e.token \in {0, n}

JournalInv ==
  /\ journal \in Seq(EventSet) /\ Len(journal) <= MaxEvents
  /\ \A n \in 1..Len(journal) :
       Justified(journal, journal[n], n - 1) /\ Minted(journal[n], n)

RegInv ==
  /\ reg \in [Process -> [mark: Nat, cache: [Actor -> Info]]]
  /\ \A r \in Process : reg[r].mark <= Len(journal)
  /\ DirectoryIsFold

(* What a call is about to do is justified by the journal as it is now.    *)
CallFits(j, p) ==
  \/ p = Idle
  \/ /\ p \in [at: {"enrol", "append"}, actor: Actor, event: EventSet]
     /\ p.event.actor = p.actor /\ p.event.heard
     /\ p.at = "append" => Justified(j, p.event, Len(j))
     /\ p.at = "enrol" =>
          /\ p.event.kind = "registered" /\ p.event.asked <= Len(j)
          /\ Unspent(j, p.event)

CallInv ==
  /\ DOMAIN call = Caller /\ call = [c \in Caller |-> call[c]]
  /\ \A c \in Caller : CallFits(journal, call[c])

IdentityInv == JournalInv /\ RegInv /\ CallInv

-----------------------------------------------------------------------------
(* A set of numbers has a least one; a bounded one, a greatest.            *)
LEMMA LeastNumber ==
  ASSUME NEW T \in SUBSET Nat, T # {}
  PROVE  \E x \in T : \A y \in T : x <= y
<1> DEFINE R == OpToRel(<, Nat)
<1>1. IsWellFoundedOn(R, Nat)
  BY NatLessThanWellFounded
<1>2. \A x, y \in Nat : y < x => <<y, x>> \in R
  BY DEF OpToRel
<1> HIDE DEF R
<1>3. PICK x \in T : \A y \in T : ~ (<<y, x>> \in R)
  BY <1>1, WFMin
<1>4. x \in Nat /\ \A y \in T : y \in Nat /\ ~(y < x)
  BY <1>2, <1>3
<1> QED
  BY <1>3, <1>4

LEMMA MaxIs ==
  ASSUME NEW T \in SUBSET Int, NEW x \in T, \A y \in T : y <= x
  PROVE  Max(T) = x
<1>1. \A y \in T : (\A z \in T : y >= z) => y = x
  OBVIOUS
<1>2. \A y \in T : x >= y
  OBVIOUS
<1>3. Max(T) \in T /\ \A y \in T : Max(T) >= y
  <2>1. \E z \in T : \A y \in T : z >= y
    BY <1>2
  <2> QED
    BY <2>1 DEF Max
<1> QED
  BY <1>1, <1>3

LEMMA GreatestNumber ==
  ASSUME NEW n \in Nat, NEW T \in SUBSET (1..n), T # {}
  PROVE  Max(T) \in T /\ \A y \in T : y <= Max(T)
<1> DEFINE U == {n - y : y \in T}
<1>1. U \in SUBSET Nat /\ U # {}
  <2>1. \A y \in T : n - y \in Nat
    OBVIOUS
  <2>2. PICK y \in T : TRUE
    OBVIOUS
  <2>3. n - y \in U
    OBVIOUS
  <2> QED BY <2>1, <2>3
<1>2. PICK u \in U : \A v \in U : u <= v
  <2> HIDE DEF U
  <2> QED BY <1>1, LeastNumber
<1>3. PICK x \in T : u = n - x
  BY <1>2
<1>4. \A y \in T : y <= x
  <2> TAKE y \in T
  <2>1. n - y \in U
    OBVIOUS
  <2>2. n - x <= n - y
    BY <1>2, <1>3, <2>1
  <2> QED
    BY <2>2
<1>5. Max(T) = x
  <2>1. T \in SUBSET Int
    OBVIOUS
  <2> QED BY <1>4, <2>1, MaxIs
<1> QED
  BY <1>3, <1>4, <1>5

-----------------------------------------------------------------------------
(* The number of the latest token that the first n events give an actor.   *)
LatestToken(j, a, n) ==
  LET tokens == {m \in 1..n : Tells(j, m, a) /\ j[m].token # 0}
  IN  IF tokens = {} THEN 0 ELSE Max(tokens)

LEMMA NotTold ==
  ASSUME NEW j, NEW a, NEW n \in Nat, \A m \in 1..n : ~Tells(j, m, a)
  PROVE  Directory(j, a, n) = Unknown
BY DEF Directory

LEMMA LastTold ==
  ASSUME NEW j, NEW a, NEW n \in Nat, NEW l \in 1..n, Tells(j, l, a),
         \A m \in 1..n : Tells(j, m, a) => m <= l
  PROVE  Directory(j, a, n) =
           [known |-> TRUE, role |-> j[l].role, key |-> j[l].key,
            token |-> LatestToken(j, a, n), disabled |-> DisabledBy(j, a, n)]
<1> DEFINE told == {m \in 1..n : Tells(j, m, a)}
           tokens == {m \in told : j[m].token # 0}
<1>1. told # {} /\ Max(told) = l
  <2>1. told \in SUBSET Int /\ l \in told /\ \A y \in told : y <= l
    OBVIOUS
  <2> HIDE DEF told
  <2> QED BY <2>1, MaxIs
<1>2. tokens = {m \in 1..n : Tells(j, m, a) /\ j[m].token # 0}
  OBVIOUS
<1>3. (IF tokens = {} THEN 0 ELSE Max(tokens)) = LatestToken(j, a, n)
  BY <1>2 DEF LatestToken
<1>4. Directory(j, a, n) =
        IF told = {} THEN Unknown
        ELSE [known |-> TRUE, role |-> j[Max(told)].role, key |-> j[Max(told)].key,
              token |-> IF tokens = {} THEN 0 ELSE Max(tokens),
              disabled |-> DisabledBy(j, a, n)]
  BY DEF Directory
<1> HIDE DEF told, tokens
<1> QED
  BY <1>1, <1>3, <1>4

(* The last of those that tell of an actor, if any does.                   *)
LEMMA LastExists ==
  ASSUME NEW j, NEW a, NEW n \in Nat, \E m \in 1..n : Tells(j, m, a)
  PROVE  \E l \in 1..n : Tells(j, l, a) /\ \A m \in 1..n : Tells(j, m, a) => m <= l
<1> DEFINE told == {m \in 1..n : Tells(j, m, a)}
<1>1. told \in SUBSET (1..n) /\ told # {}
  OBVIOUS
<1>2. Max(told) \in told /\ \A y \in told : y <= Max(told)
  <2> HIDE DEF told
  <2> QED BY <1>1, GreatestNumber
<1> QED
  BY <1>2

LEMMA LatestTokenIs ==
  ASSUME NEW j, NEW a, NEW n \in Nat
  PROVE  \/ /\ LatestToken(j, a, n) = 0
            /\ \A m \in 1..n : Tells(j, m, a) => j[m].token = 0
         \/ /\ LatestToken(j, a, n) \in 1..n
            /\ Tells(j, LatestToken(j, a, n), a)
            /\ \A m \in 1..n : (Tells(j, m, a) /\ j[m].token # 0) => m <= LatestToken(j, a, n)
<1> DEFINE tokens == {m \in 1..n : Tells(j, m, a) /\ j[m].token # 0}
<1>1. CASE tokens = {}
  BY <1>1 DEF LatestToken
<1>2. CASE tokens # {}
  <2>1. tokens \in SUBSET (1..n)
    OBVIOUS
  <2>2. Max(tokens) \in tokens /\ \A y \in tokens : y <= Max(tokens)
    <3> HIDE DEF tokens
    <3> QED BY <1>2, <2>1, GreatestNumber
  <2>3. LatestToken(j, a, n) = Max(tokens)
    BY <1>2 DEF LatestToken
  <2> QED
    BY <2>2, <2>3
<1> QED
  BY <1>1, <1>2

(* What an actor is, is a matter of the events before.                     *)
LEMMA SamePrefix ==
  ASSUME NEW j, NEW k, NEW n \in Nat, \A m \in 1..n : k[m] = j[m], NEW a
  PROVE  /\ Directory(k, a, n) = Directory(j, a, n)
         /\ DisabledBy(k, a, n) <=> DisabledBy(j, a, n)
<1>1. \A m \in 1..n : Tells(k, m, a) <=> Tells(j, m, a)
  BY DEF Tells
<1>2. DisabledBy(k, a, n) <=> DisabledBy(j, a, n)
  BY DEF DisabledBy
<1>3. LatestToken(k, a, n) = LatestToken(j, a, n)
  <2>1. {m \in 1..n : Tells(k, m, a) /\ k[m].token # 0}
          = {m \in 1..n : Tells(j, m, a) /\ j[m].token # 0}
    BY <1>1
  <2> QED
    BY <2>1 DEF LatestToken
<1>4. CASE \A m \in 1..n : ~Tells(j, m, a)
  BY <1>1, <1>2, <1>4, NotTold
<1>5. CASE \E m \in 1..n : Tells(j, m, a)
  <2>1. PICK l \in 1..n : Tells(j, l, a) /\ \A m \in 1..n : Tells(j, m, a) => m <= l
    BY <1>5, LastExists
  <2>2. Tells(k, l, a) /\ \A m \in 1..n : Tells(k, m, a) => m <= l
    BY <1>1, <2>1
  <2>3. DisabledBy(k, a, n) = DisabledBy(j, a, n)
    BY <1>2 DEF DisabledBy
  <2>4. k[l] = j[l]
    OBVIOUS
  <2> QED
    BY <1>2, <1>3, <2>1, <2>2, <2>3, <2>4, LastTold
<1> QED
  BY <1>4, <1>5

LEMMA DirectoryTyped ==
  ASSUME NEW j \in Seq(EventSet), NEW n \in 0..Len(j), NEW a
  PROVE  Directory(j, a, n) \in Info
<1>0. n \in Nat
  BY LenProperties
<1>1. CASE \A m \in 1..n : ~Tells(j, m, a)
  <2>1. Unknown \in Info
    BY DEF Unknown, Info
  <2> QED
    BY <1>0, <1>1, <2>1, NotTold
<1>2. CASE \E m \in 1..n : Tells(j, m, a)
  <2>1. PICK l \in 1..n : Tells(j, l, a) /\ \A m \in 1..n : Tells(j, m, a) => m <= l
    BY <1>0, <1>2, LastExists
  <2>2. j[l] \in EventSet /\ DisabledBy(j, a, n) \in BOOLEAN
    BY DEF DisabledBy
  <2>3. LatestToken(j, a, n) \in Nat
    BY <1>0, LatestTokenIs
  <2>4. \A disabled \in BOOLEAN :
          [known |-> TRUE, role |-> j[l].role, key |-> j[l].key,
           token |-> LatestToken(j, a, n), disabled |-> disabled] \in Info
    BY <2>2, <2>3 DEF Info, EventSet
  <2> QED
    BY <1>0, <2>1, <2>2, <2>4, LastTold
<1> QED
  BY <1>1, <1>2

(* Directory knows who was registered, and that nobody else was disabled.  *)
LEMMA KnownIsTold ==
  ASSUME NEW j, NEW a, NEW n \in Nat
  PROVE  Directory(j, a, n).known <=> \E m \in 1..n : Tells(j, m, a)
<1>1. CASE \A m \in 1..n : ~Tells(j, m, a)
  BY <1>1, NotTold DEF Unknown
<1>2. CASE \E m \in 1..n : Tells(j, m, a)
  <2>1. PICK l \in 1..n : Tells(j, l, a) /\ \A m \in 1..n : Tells(j, m, a) => m <= l
    BY <1>2, LastExists
  <2>2. Directory(j, a, n).known = TRUE
    BY <2>1, LastTold
  <2> QED
    BY <1>2, <2>2
<1> QED
  BY <1>1, <1>2

LEMMA TokenIsLatest ==
  ASSUME NEW j, NEW a, NEW n \in Nat
  PROVE  Directory(j, a, n).token = LatestToken(j, a, n)
<1>1. CASE \A m \in 1..n : ~Tells(j, m, a)
  <2>1. LatestToken(j, a, n) = 0
    BY <1>1, LatestTokenIs
  <2> QED
    BY <1>1, <2>1, NotTold DEF Unknown
<1>2. CASE \E m \in 1..n : Tells(j, m, a)
  <2>1. PICK l \in 1..n : Tells(j, l, a) /\ \A m \in 1..n : Tells(j, m, a) => m <= l
    BY <1>2, LastExists
  <2> QED
    BY <2>1, LastTold
<1> QED
  BY <1>1, <1>2

LEMMA DisabledIsTold ==
  ASSUME NEW j, NEW a, NEW n \in Nat,
         DisabledBy(j, a, n) => \E m \in 1..n : Tells(j, m, a)
  PROVE  Directory(j, a, n).disabled = DisabledBy(j, a, n)
<1>1. CASE \A m \in 1..n : ~Tells(j, m, a)
  <2>1. DisabledBy(j, a, n) = FALSE
    BY <1>1 DEF DisabledBy
  <2>2. Directory(j, a, n).disabled = FALSE
    BY <1>1, NotTold DEF Unknown
  <2> QED
    BY <2>1, <2>2
<1>2. CASE \E m \in 1..n : Tells(j, m, a)
  <2>1. PICK l \in 1..n : Tells(j, l, a) /\ \A m \in 1..n : Tells(j, m, a) => m <= l
    BY <1>2, LastExists
  <2> QED
    BY <2>1, LastTold
<1> QED
  BY <1>1, <1>2

-----------------------------------------------------------------------------
(* What a disable takes for granted, of every event.                       *)
Ordered(j) ==
  \A n \in 1..Len(j) :
    /\ j[n].kind \in {"registered", "rotated", "disabled"} => j[n].actor \in Actor
    /\ j[n].kind = "disabled" => \E m \in 1..(n - 1) : Tells(j, m, j[n].actor)
    /\ Minted(j[n], n)

LEMMA DisabledIs ==
  ASSUME NEW j \in Seq(EventSet), Ordered(j), NEW n \in 0..Len(j), NEW a
  PROVE  /\ Directory(j, a, n).disabled = DisabledBy(j, a, n)
         /\ DisabledBy(j, a, n) => \E m \in 1..n : Tells(j, m, a)
<1>1. DisabledBy(j, a, n) => \E m \in 1..n : Tells(j, m, a)
  <2> SUFFICES ASSUME NEW d \in 1..n, j[d].actor = a, j[d].kind = "disabled"
               PROVE  \E m \in 1..n : Tells(j, m, a)
    BY DEF DisabledBy
  <2>1. PICK m \in 1..(d - 1) : Tells(j, m, a)
    BY DEF Ordered
  <2>2. m \in 1..n
    OBVIOUS
  <2> QED
    BY <2>1, <2>2
<1> QED
  BY <1>1, DisabledIsTold

(* An event about somebody else changes nothing.                           *)
LEMMA SaysNothing ==
  ASSUME NEW j, NEW n \in Nat \ {0}, NEW a, ~Tells(j, n, a),
         ~(j[n].actor = a /\ j[n].kind = "disabled")
  PROVE  Directory(j, a, n) = Directory(j, a, n - 1)
<1>0. n - 1 \in Nat /\ 1..n = (1..(n - 1)) \cup {n}
  OBVIOUS
<1>1. DisabledBy(j, a, n) = DisabledBy(j, a, n - 1)
  <2>1. DisabledBy(j, a, n) <=> DisabledBy(j, a, n - 1)
    BY <1>0 DEF DisabledBy
  <2> QED
    BY <2>1 DEF DisabledBy
<1>2. LatestToken(j, a, n) = LatestToken(j, a, n - 1)
  <2>1. {m \in 1..n : Tells(j, m, a) /\ j[m].token # 0}
          = {m \in 1..(n - 1) : Tells(j, m, a) /\ j[m].token # 0}
    BY <1>0
  <2> QED
    BY <2>1 DEF LatestToken
<1>3. CASE \A m \in 1..n : ~Tells(j, m, a)
  BY <1>0, <1>3, NotTold
<1>4. CASE \E m \in 1..n : Tells(j, m, a)
  <2>1. \E m \in 1..(n - 1) : Tells(j, m, a)
    BY <1>0, <1>4
  <2>2. PICK l \in 1..(n - 1) :
          Tells(j, l, a) /\ \A m \in 1..(n - 1) : Tells(j, m, a) => m <= l
    BY <1>0, <2>1, LastExists
  <2>3. l \in 1..n /\ \A m \in 1..n : Tells(j, m, a) => m <= l
    BY <1>0, <2>2
  <2>4. Directory(j, a, n) =
          [known |-> TRUE, role |-> j[l].role, key |-> j[l].key,
           token |-> LatestToken(j, a, n), disabled |-> DisabledBy(j, a, n)]
    BY <2>2, <2>3, LastTold
  <2>5. Directory(j, a, n - 1) =
          [known |-> TRUE, role |-> j[l].role, key |-> j[l].key,
           token |-> LatestToken(j, a, n - 1), disabled |-> DisabledBy(j, a, n - 1)]
    BY <1>0, <2>2, LastTold
  <2> QED
    BY <1>1, <1>2, <2>4, <2>5
<1> QED
  BY <1>3, <1>4

(* A registration or a rotation does what the cache does with it.          *)
LEMMA TellsAnew ==
  ASSUME NEW j \in Seq(EventSet), Ordered(j), NEW n \in 1..Len(j), NEW a, Tells(j, n, a)
  PROVE  Directory(j, a, n) =
           [known |-> TRUE, role |-> j[n].role, key |-> j[n].key,
            token |-> IF j[n].token # 0 THEN j[n].token
                      ELSE Directory(j, a, n - 1).token,
            disabled |-> Directory(j, a, n - 1).disabled]
<1>0. n - 1 \in 0..Len(j) /\ n - 1 \in Nat /\ n \in Nat /\ 1..n = (1..(n - 1)) \cup {n}
  OBVIOUS
<1>1. DisabledBy(j, a, n) = DisabledBy(j, a, n - 1)
  <2>1. j[n].kind # "disabled"
    BY DEF Tells
  <2>2. DisabledBy(j, a, n) <=> DisabledBy(j, a, n - 1)
    BY <1>0, <2>1 DEF DisabledBy
  <2> QED
    BY <2>2 DEF DisabledBy
<1>2. Directory(j, a, n - 1).disabled = DisabledBy(j, a, n - 1)
  BY <1>0, DisabledIs
<1>3. LatestToken(j, a, n) = IF j[n].token # 0 THEN j[n].token ELSE Directory(j, a, n - 1).token
  <2>1. CASE j[n].token # 0
    <3>1. j[n].token = n
      BY <2>1 DEF Ordered, Minted, Tells
    <3>2. LatestToken(j, a, n) \in 1..n /\ n <= LatestToken(j, a, n)
      BY <1>0, <2>1, LatestTokenIs
    <3> QED
      BY <2>1, <3>1, <3>2
  <2>2. CASE j[n].token = 0
    <3>1. {m \in 1..n : Tells(j, m, a) /\ j[m].token # 0}
            = {m \in 1..(n - 1) : Tells(j, m, a) /\ j[m].token # 0}
      BY <1>0, <2>2
    <3>2. LatestToken(j, a, n) = LatestToken(j, a, n - 1)
      BY <3>1 DEF LatestToken
    <3> QED
      BY <1>0, <2>2, <3>2, TokenIsLatest
  <2> QED
    BY <2>1, <2>2
<1>4. \A m \in 1..n : m <= n
  OBVIOUS
<1>5. Directory(j, a, n) =
        [known |-> TRUE, role |-> j[n].role, key |-> j[n].key,
         token |-> LatestToken(j, a, n), disabled |-> DisabledBy(j, a, n)]
  BY <1>0, <1>4, LastTold
<1> QED
  BY <1>1, <1>2, <1>3, <1>5

LEMMA Disabling ==
  ASSUME NEW role, NEW key, NEW token, NEW b \in BOOLEAN, NEW info,
         info = [known |-> TRUE, role |-> role, key |-> key, token |-> token, disabled |-> b],
         NEW off, off = [info EXCEPT !.disabled = TRUE]
  PROVE  off = [known |-> TRUE, role |-> role, key |-> key, token |-> token, disabled |-> TRUE]
OBVIOUS

LEMMA DisablesAnew ==
  ASSUME NEW j \in Seq(EventSet), Ordered(j), NEW n \in 1..Len(j), NEW a,
         j[n].actor = a, j[n].kind = "disabled"
  PROVE  /\ Directory(j, a, n - 1).known = TRUE
         /\ Directory(j, a, n) = [Directory(j, a, n - 1) EXCEPT !.disabled = TRUE]
<1>0. n - 1 \in 0..Len(j) /\ n - 1 \in Nat /\ n \in Nat /\ 1..n = (1..(n - 1)) \cup {n}
  OBVIOUS
<1>1. ~Tells(j, n, a)
  BY DEF Tells
<1>2. \E m \in 1..(n - 1) : Tells(j, m, a)
  BY DEF Ordered
<1>3. PICK l \in 1..(n - 1) :
        Tells(j, l, a) /\ \A m \in 1..(n - 1) : Tells(j, m, a) => m <= l
  <2>1. n - 1 \in Nat
    BY <1>0
  <2> QED BY <1>2, <2>1, LastExists
<1>4. l \in 1..n /\ \A m \in 1..n : Tells(j, m, a) => m <= l
  BY <1>0, <1>1, <1>3
<1>5. LatestToken(j, a, n) = LatestToken(j, a, n - 1)
  <2>1. {m \in 1..n : Tells(j, m, a) /\ j[m].token # 0}
          = {m \in 1..(n - 1) : Tells(j, m, a) /\ j[m].token # 0}
    BY <1>0, <1>1
  <2> QED
    BY <2>1 DEF LatestToken
<1>6. DisabledBy(j, a, n) = TRUE
  BY <1>0 DEF DisabledBy
<1>7. Directory(j, a, n) =
        [known |-> TRUE, role |-> j[l].role, key |-> j[l].key,
         token |-> LatestToken(j, a, n - 1), disabled |-> TRUE]
  BY <1>0, <1>3, <1>4, <1>5, <1>6, LastTold
<1>8. Directory(j, a, n - 1) =
        [known |-> TRUE, role |-> j[l].role, key |-> j[l].key,
         token |-> LatestToken(j, a, n - 1), disabled |-> DisabledBy(j, a, n - 1)]
  BY <1>0, <1>3, LastTold
<1>10. Directory(j, a, n) = [Directory(j, a, n - 1) EXCEPT !.disabled = TRUE]
  <2>1. DisabledBy(j, a, n - 1) \in BOOLEAN
    BY DEF DisabledBy
  <2>2. PICK info : info = Directory(j, a, n - 1)
    OBVIOUS
  <2>3. PICK off : off = [info EXCEPT !.disabled = TRUE]
    OBVIOUS
  <2>4. PICK b \in BOOLEAN : b = DisabledBy(j, a, n - 1)
    BY <2>1
  <2>5. off = [known |-> TRUE, role |-> j[l].role, key |-> j[l].key,
               token |-> LatestToken(j, a, n - 1), disabled |-> TRUE]
    <3>1. info = [known |-> TRUE, role |-> j[l].role, key |-> j[l].key,
                  token |-> LatestToken(j, a, n - 1), disabled |-> b]
      BY <1>8, <2>2, <2>4
    <3> QED BY <2>3, <3>1, Disabling
  <2>6. off = Directory(j, a, n)
    BY <1>7, <2>5
  <2> QED BY <2>2, <2>3, <2>6
<1>11. Directory(j, a, n - 1).known = TRUE
  BY <1>8
<1> QED
  BY <1>10, <1>11

(* One event more, folded into the directory of those before it.           *)
LEMMA FoldStep ==
  ASSUME NEW j \in Seq(EventSet), Ordered(j), NEW n \in 1..Len(j)
  PROVE  Fold([a \in Actor |-> Directory(j, a, n - 1)], j[n])
           = [a \in Actor |-> Directory(j, a, n)]
<1> DEFINE D == [a \in Actor |-> Directory(j, a, n - 1)]
           e == j[n]
<1>1. CASE e.kind \in {"registered", "rotated"}
  <2>1. e.actor \in Actor /\ Tells(j, n, e.actor)
    BY <1>1 DEF Ordered, Tells
  <2>2. \A a \in Actor : a # e.actor => Directory(j, a, n) = Directory(j, a, n - 1)
    BY SaysNothing DEF Tells
  <2>3. Directory(j, e.actor, n) =
          [known |-> TRUE, role |-> e.role, key |-> e.key,
           token |-> IF e.token # 0 THEN e.token ELSE D[e.actor].token,
           disabled |-> D[e.actor].disabled]
    BY <2>1, TellsAnew
  <2>4. Fold(D, e) =
          [D EXCEPT ![e.actor] =
             [known |-> TRUE, role |-> e.role, key |-> e.key,
              token |-> IF e.token # 0 THEN e.token ELSE D[e.actor].token,
              disabled |-> D[e.actor].disabled]]
    <3> HIDE DEF D
    <3> QED BY <1>1 DEF Fold
  <2> QED
    BY <2>1, <2>2, <2>3, <2>4
<1>2. CASE e.kind = "disabled"
  <2>1. e.actor \in Actor
    BY <1>2 DEF Ordered
  <2>2. \A a \in Actor : a # e.actor => Directory(j, a, n) = Directory(j, a, n - 1)
    BY <1>2, SaysNothing DEF Tells
  <2>3. D[e.actor].known = TRUE
        /\ Directory(j, e.actor, n) = [D[e.actor] EXCEPT !.disabled = TRUE]
    BY <1>2, <2>1, DisablesAnew
  <2>4. Fold(D, e) = [D EXCEPT ![e.actor] = [D[e.actor] EXCEPT !.disabled = TRUE]]
    <3>1. D[e.actor].known = TRUE
      BY <2>3
    <3> HIDE DEF D
    <3> QED BY <1>2, <3>1 DEF Fold
  <2> QED
    BY <2>1, <2>2, <2>3, <2>4
<1>3. CASE e.kind \notin {"registered", "rotated", "disabled"}
  <2>1. \A a \in Actor : Directory(j, a, n) = Directory(j, a, n - 1)
    BY <1>3, SaysNothing DEF Tells
  <2>2. Fold(D, e) = D
    <3> HIDE DEF D
    <3> QED BY <1>3 DEF Fold
  <2> QED
    BY <2>1, <2>2
<1> QED
  BY <1>1, <1>2, <1>3

LEMMA JournalOrdered ==
  ASSUME JournalInv
  PROVE  journal \in Seq(EventSet) /\ Ordered(journal)
BY DEF JournalInv, Justified, Follows, Ordered

(* A cache that is the directory up to its watermark is, with the events   *)
(* behind the watermark, the directory of the whole journal.               *)
LEMMA FreshIsDirectory ==
  ASSUME JournalInv, RegInv, NEW r \in Process
  PROVE  Fresh(r) = [mark |-> Len(journal),
                     cache |-> [a \in Actor |-> Directory(journal, a, Len(journal))]]
<1> DEFINE from == reg[r].mark
           to == Len(journal)
           dir == [n \in from..to |-> [a \in Actor |-> Directory(journal, a, n)]]
           folded[n \in from..to] ==
             IF n = from THEN reg[r].cache ELSE Fold(folded[n - 1], journal[n])
           again(f) ==
             [n \in from..to |->
                IF n = from THEN reg[r].cache ELSE Fold(f[n - 1], journal[n])]
<1>1. from \in Nat /\ to \in Nat /\ from <= to
  BY LenProperties DEF RegInv, JournalInv
<1>2. dir[from] = reg[r].cache
  <2>1. reg[r].cache = [a \in Actor |-> reg[r].cache[a]]
    BY DEF RegInv
  <2>2. \A a \in Actor : reg[r].cache[a] = Directory(journal, a, from)
    BY DEF RegInv, DirectoryIsFold
  <2>3. from \in from..to
    BY <1>1
  <2> QED
    BY <2>1, <2>2, <2>3
<1>3. \A n \in from..to : n # from =>
        n - 1 \in from..to /\ dir[n] = Fold(dir[n - 1], journal[n])
  <2> SUFFICES ASSUME NEW n \in from..to, n # from
               PROVE  n - 1 \in from..to /\ dir[n] = Fold(dir[n - 1], journal[n])
    OBVIOUS
  <2>1. n \in 1..Len(journal) /\ n - 1 \in from..to
    BY <1>1
  <2>2. Fold([a \in Actor |-> Directory(journal, a, n - 1)], journal[n])
          = [a \in Actor |-> Directory(journal, a, n)]
    BY <2>1, JournalOrdered, FoldStep
  <2> QED
    BY <2>1, <2>2
<1> HIDE DEF dir
<1>4. dir = again(dir)
  <2>1. dir = [n \in from..to |-> dir[n]]
    BY DEF dir
  <2> QED
    BY <1>2, <1>3, <2>1
<1>5. folded = again(folded)
  <2>1. folded = CHOOSE f : f = again(f)
    OBVIOUS
  <2> HIDE DEF folded, again
  <2> QED
    BY <1>4, <2>1
<1>6. \A n \in from..to :
        folded[n] = IF n = from THEN reg[r].cache ELSE Fold(folded[n - 1], journal[n])
  <2> HIDE DEF folded
  <2> QED BY <1>5
<1> HIDE DEF folded
<1>7. \A n \in from..to : folded[n] = dir[n]
  <2> DEFINE bad == {n \in from..to : folded[n] # dir[n]}
  <2> SUFFICES ASSUME bad # {} PROVE FALSE
    OBVIOUS
  <2>1. bad \in SUBSET Nat
    BY <1>1
  <2>2. PICK n \in bad : \A m \in bad : n <= m
    <3> HIDE DEF bad
    <3> QED BY <2>1, LeastNumber
  <2>3. n \in from..to /\ folded[n] # dir[n]
    OBVIOUS
  <2>4. n # from
    BY <1>2, <1>6, <2>3
  <2>5. n - 1 \in from..to /\ n - 1 \notin bad
    BY <1>1, <1>3, <2>2, <2>3, <2>4
  <2>6. folded[n - 1] = dir[n - 1]
    BY <2>5
  <2> QED
    BY <1>3, <1>6, <2>3, <2>4, <2>6
<1>8. Fresh(r) = [mark |-> to, cache |-> folded[to]]
  BY DEF Fresh, folded
<1>9. folded[to] = [a \in Actor |-> Directory(journal, a, Len(journal))]
  <2>1. to \in from..to
    BY <1>1
  <2> QED
    BY <1>7, <2>1 DEF dir
<1> QED
  BY <1>8, <1>9

LEMMA LookupIs ==
  ASSUME JournalInv, RegInv, NEW r \in Process, NEW a \in Actor
  PROVE  /\ Lookup(r, a) = Directory(journal, a, Len(journal))
         /\ Lookup(r, a) \in Info
<1>1. Lookup(r, a) = Directory(journal, a, Len(journal))
  BY FreshIsDirectory DEF Lookup
<1>2. Len(journal) \in 0..Len(journal) /\ journal \in Seq(EventSet)
  BY LenProperties DEF JournalInv
<1> QED
  BY <1>1, <1>2, DirectoryTyped

(* Reading brings a cache up to date and leaves the others.                *)
LEMMA ReadKeeps ==
  ASSUME JournalInv, RegInv, NEW r \in Process, Read(r), journal' = journal
  PROVE  RegInv'
<1> DEFINE now == [mark |-> Len(journal),
                   cache |-> [a \in Actor |-> Directory(journal, a, Len(journal))]]
<1>1. reg' = [reg EXCEPT ![r] = now]
  BY FreshIsDirectory DEF Read
<1>2. now \in [mark: Nat, cache: [Actor -> Info]]
  <2>1. Len(journal) \in 0..Len(journal) /\ journal \in Seq(EventSet) /\ Len(journal) \in Nat
    BY LenProperties DEF JournalInv
  <2> QED
    BY <2>1, DirectoryTyped
<1>3. now.mark = Len(journal)
      /\ \A a \in Actor : now.cache[a] = Directory(journal, a, Len(journal))
  OBVIOUS
<1> HIDE DEF now
<1>4. reg' \in [Process -> [mark: Nat, cache: [Actor -> Info]]]
  BY <1>1, <1>2 DEF RegInv
<1>5. reg'[r] = now /\ \A p \in Process : p # r => reg'[p] = reg[p]
  BY <1>1 DEF RegInv
<1>6. \A p \in Process : reg'[p].mark <= Len(journal')
  BY <1>3, <1>5, LenProperties DEF RegInv, JournalInv
<1>7. \A p \in Process, a \in Actor :
        reg'[p].cache[a] = Directory(journal, a, reg'[p].mark)
  BY <1>3, <1>5 DEF RegInv, DirectoryIsFold
<1>8. DirectoryIsFold'
  BY <1>7 DEF DirectoryIsFold
<1> QED
  BY <1>4, <1>6, <1>8 DEF RegInv

-----------------------------------------------------------------------------
(* What was justified by the first events stays so in a longer journal.    *)
LEMMA StaysUnspent ==
  ASSUME NEW j, NEW k, NEW n \in Nat, \A i \in 1..n : k[i] = j[i],
         NEW e \in EventSet, e.asked <= n, Unspent(j, e)
  PROVE  Unspent(k, e)
<1>1. e.asked \in Nat
  BY DEF EventSet
<1>2. \A m \in 1..e.asked : m \in 1..n
  BY <1>1
<1> QED
  BY <1>2 DEF Unspent

LEMMA StaysJustified ==
  ASSUME NEW j, NEW k, NEW n \in Nat, NEW m \in Nat, n <= m,
         \A i \in 1..n : k[i] = j[i],
         NEW e \in EventSet, Justified(j, e, n)
  PROVE  Justified(k, e, m)
<1>1. e.seen \in Nat /\ e.asked \in Nat /\ e.token \in Nat /\ e.seen <= n /\ e.asked <= n
  BY DEF EventSet, Justified
<1>2. \A s \in {e.seen, e.asked} :
        /\ \A i \in 1..s : i \in 1..n /\ k[i] = j[i]
        /\ s \in Nat
  BY <1>1
<1>3. \A a : \A s \in {e.seen, e.asked} :
        /\ Directory(k, a, s) = Directory(j, a, s)
        /\ DisabledBy(k, a, s) <=> DisabledBy(j, a, s)
  BY <1>2, SamePrefix
<1>4. \A a : \A i \in 1..n : Tells(k, i, a) <=> Tells(j, i, a)
  BY DEF Tells
<1>5. LetIn(k, e)
  <2> SUFFICES ASSUME e.kind = "acted" PROVE LetIn(k, e)!2
    BY DEF LetIn
  <2>1. e.token \in 1..n /\ LetIn(j, e)!2
    BY DEF Justified, LetIn
  <2>2. \A i \in (e.token + 1)..e.seen : i \in 1..n /\ k[i] = j[i]
    BY <1>1, <2>1
  <2> QED
    BY <1>3, <1>4, <2>1, <2>2
<1>6. Fits(k, e)
  BY <1>3 DEF Fits, Justified
<1>7. Unspent(k, e)
  BY <1>1, StaysUnspent DEF Justified
<1>8. Follows(k, e, m)
  <2>1. \A i \in 1..n : i \in 1..m
    OBVIOUS
  <2> QED
    BY <1>4, <2>1 DEF Follows, Justified
<1>9. e.kind = "acted" => e.token \in 1..m
  BY DEF Justified
<1> QED
  BY <1>1, <1>5, <1>6, <1>7, <1>8, <1>9 DEF Justified

(* An append: it is justified by the journal and its call goes on.         *)
LEMMA Appended ==
  ASSUME IdentityInv, NEW c \in Caller, NEW e \in EventSet, NEW v,
         journal' = Append(journal, e), Len(journal) < MaxEvents,
         Justified(journal, e, Len(journal)), Minted(e, Len(journal) + 1),
         reg' = reg, call' = [call EXCEPT ![c] = v], CallFits(journal', v)
  PROVE  IdentityInv'
<1> PICK later : later = journal'
  OBVIOUS
<1>1. /\ journal \in Seq(EventSet) /\ later \in Seq(EventSet)
      /\ Len(journal) \in Nat /\ Len(later) = Len(journal) + 1
      /\ later[Len(journal) + 1] = e
      /\ \A i \in 1..Len(journal) : later[i] = journal[i]
  BY AppendProperties, LenProperties DEF IdentityInv, JournalInv
<1>2. ASSUME NEW n \in 1..Len(later),
             NEW f \in EventSet, f = later[n]
      PROVE  Justified(later, f, n - 1) /\ Minted(f, n)
  <2>1. CASE n = Len(journal) + 1
    <3>1. f = e /\ n - 1 = Len(journal)
      BY <1>1, <1>2, <2>1
    <3>2. Len(journal) \in Nat /\ Len(journal) <= Len(journal)
      BY <1>1
    <3>3. \A i \in 1..Len(journal) : later[i] = journal[i]
      BY <1>1
    <3>4. Justified(later, e, Len(journal))
      BY <3>2, <3>3, StaysJustified
    <3> QED
      BY <2>1, <3>1, <3>4
  <2>2. CASE n # Len(journal) + 1
    <3>1. n \in 1..Len(journal) /\ n - 1 \in Nat /\ f = journal[n]
      BY <1>1, <1>2, <2>2
    <3>2. Justified(journal, f, n - 1) /\ Minted(f, n)
      BY <3>1 DEF IdentityInv, JournalInv
    <3>3. \A i \in 1..(n - 1) : later[i] = journal[i]
      BY <1>1, <3>1
    <3>4. PICK m \in Nat : m = n - 1 /\ m <= m
      BY <3>1
    <3>5. \A i \in 1..m : later[i] = journal[i]
      BY <3>3, <3>4
    <3>6. Justified(journal, f, m)
      BY <3>2, <3>4
    <3>7. Justified(later, f, m)
      BY <3>4, <3>5, <3>6, StaysJustified
    <3> QED
      BY <3>2, <3>4, <3>7
  <2> QED
    BY <2>1, <2>2
<1>3. JournalInv'
  <2>1. Len(later) <= MaxEvents
    BY <1>1, IdentityAssumption
  <2>2. \A n \in 1..Len(later) : later[n] \in EventSet
    BY <1>1
  <2> QED
    BY <1>1, <1>2, <2>1, <2>2 DEF JournalInv
<1>4. RegInv'
  <2>1. \A r \in Process : reg[r].mark \in Nat /\ reg[r].mark <= Len(journal)
    BY DEF IdentityInv, RegInv
  <2>2. ASSUME NEW r \in Process, NEW a \in Actor
        PROVE  reg'[r].cache[a] = Directory(later, a, reg'[r].mark)
    <3>1. reg[r].cache[a] = Directory(journal, a, reg[r].mark)
      BY DEF IdentityInv, RegInv, DirectoryIsFold
    <3>2. \A i \in 1..reg[r].mark : later[i] = journal[i]
      BY <1>1, <2>1
    <3>3. Directory(later, a, reg[r].mark) = Directory(journal, a, reg[r].mark)
      <4>1. PICK m \in Nat : m = reg[r].mark
        BY <2>1
      <4>2. \A i \in 1..m : later[i] = journal[i]
        BY <3>2, <4>1
      <4>3. Directory(later, a, m) = Directory(journal, a, m)
        BY <4>2, SamePrefix
      <4> QED
        BY <4>1, <4>3
    <3> QED
      BY <3>1, <3>3
  <2>3. DirectoryIsFold'
    BY <2>2 DEF DirectoryIsFold
  <2>4. \A r \in Process : reg'[r].mark <= Len(later)
    BY <1>1, <2>1
  <2> QED
    BY <2>3, <2>4 DEF IdentityInv, RegInv
<1>5. ASSUME NEW d \in Caller PROVE CallFits(later, call'[d])
  <2>1. CASE d = c
    <3>1. call'[c] = v
      BY DEF IdentityInv, CallInv
    <3> QED
      BY <2>1, <3>1
  <2>2. CASE d # c
    <3>1. call'[d] = call[d] /\ CallFits(journal, call[d])
      BY <2>2 DEF IdentityInv, CallInv
    <3>2. CASE call[d] = Idle
      BY <3>1, <3>2 DEF CallFits
    <3>3. CASE call[d] # Idle
      <4>1. call[d].event \in EventSet
        BY <3>1, <3>3 DEF CallFits
      <4>2. Justified(journal, call[d].event, Len(journal))
              => Justified(later, call[d].event, Len(later))
        <5>1. Len(later) \in Nat /\ Len(journal) \in Nat /\ Len(journal) <= Len(later)
          BY <1>1
        <5>2. \A i \in 1..Len(journal) : later[i] = journal[i]
          BY <1>1
        <5> QED
          BY <4>1, <5>1, <5>2, StaysJustified
      <4>3. (call[d].event.asked <= Len(journal) /\ Unspent(journal, call[d].event))
              => /\ call[d].event.asked <= Len(later)
                 /\ Unspent(later, call[d].event)
        <5>1. call[d].event.asked \in Nat
          BY <4>1 DEF EventSet
        <5>2. Len(journal) \in Nat /\ \A i \in 1..Len(journal) : later[i] = journal[i]
          BY <1>1
        <5>3. (call[d].event.asked <= Len(journal) /\ Unspent(journal, call[d].event))
                => Unspent(later, call[d].event)
          BY <4>1, <5>2, StaysUnspent
        <5> QED
          BY <1>1, <5>1, <5>3
      <4> QED
        BY <3>1, <3>3, <4>2, <4>3 DEF CallFits
    <3> QED
      BY <3>2, <3>3
  <2> QED
    BY <2>1, <2>2
<1>6. CallInv'
  <2>1. DOMAIN call' = Caller /\ call' = [d \in Caller |-> call'[d]]
    BY DEF IdentityInv, CallInv
  <2> QED
    BY <1>5, <2>1 DEF CallInv
<1> QED
  BY <1>3, <1>4, <1>6 DEF IdentityInv

(* No append: a call goes on, and a registry may have been read.           *)
LEMMA GoesOn ==
  ASSUME IdentityInv, NEW c \in Caller, NEW v,
         journal' = journal, RegInv',
         call' = [call EXCEPT ![c] = v], CallFits(journal, v)
  PROVE  IdentityInv'
<1>1. JournalInv'
  BY DEF IdentityInv, JournalInv
<1>2. \A d \in Caller : call'[d] = v \/ call'[d] = call[d]
  BY DEF IdentityInv, CallInv
<1>3. \A d \in Caller : CallFits(journal', call'[d])
  BY <1>2 DEF IdentityInv, CallInv
<1>4. DOMAIN call' = Caller /\ call' = [d \in Caller |-> call'[d]]
  BY DEF IdentityInv, CallInv
<1>5. CallInv'
  BY <1>3, <1>4 DEF CallInv
<1> QED
  BY <1>1, <1>5 DEF IdentityInv

LEMMA IdleFits ==
  ASSUME NEW j
  PROVE  CallFits(j, Idle)
BY DEF CallFits

-----------------------------------------------------------------------------
(* What a call carries to its append.                                      *)
LEMMA Carries ==
  ASSUME NEW j, NEW a \in Actor, NEW e \in EventSet, e.actor = a, e.heard = TRUE
  PROVE  /\ Justified(j, e, Len(j)) => CallFits(j, Pending("append", a, e))
         /\ (e.kind = "registered" /\ e.asked <= Len(j) /\ Unspent(j, e))
              => CallFits(j, Pending("enrol", a, e))
<1>1. Pending("append", a, e) \in [at: {"enrol", "append"}, actor: Actor, event: EventSet]
      /\ Pending("enrol", a, e) \in [at: {"enrol", "append"}, actor: Actor, event: EventSet]
  BY DEF Pending
<1>2. /\ Pending("append", a, e).at = "append" /\ Pending("enrol", a, e).at = "enrol"
      /\ Pending("append", a, e).event = e /\ Pending("enrol", a, e).event = e
      /\ Pending("append", a, e).actor = a /\ Pending("enrol", a, e).actor = a
  BY DEF Pending
<1>3. "append" # "enrol"
  OBVIOUS
<1> QED
  BY <1>1, <1>2, <1>3 DEF CallFits

(* A registration of an actor that is unknown now.                         *)
LEMMA RegistrationJustified ==
  ASSUME IdentityInv, NEW e \in EventSet, e.kind = "registered", e.actor \in Actor,
         e.seen = Len(journal), e.asked <= Len(journal), Unspent(journal, e),
         NEW r \in Process, ~Lookup(r, e.actor).known
  PROVE  Justified(journal, e, Len(journal))
<1>1. ~Directory(journal, e.actor, Len(journal)).known
  BY LookupIs DEF IdentityInv
<1>2. Len(journal) \in Nat
  BY LenProperties DEF IdentityInv, JournalInv
<1>3. LetIn(journal, e) /\ Follows(journal, e, Len(journal)) /\ Fits(journal, e)
  BY <1>1 DEF LetIn, Follows, Fits
<1> QED
  BY <1>2, <1>3 DEF Justified

LEMMA RegisterKeeps ==
  ASSUME IdentityInv, NEW c \in Caller, NEW a \in Actor, NEW role \in Role,
         Register(c, a, role)
  PROVE  IdentityInv'
<1>1. Home[c] \in Process /\ journal' = journal /\ Read(Home[c])
  BY IdentityAssumption DEF Register
<1>2. RegInv'
  BY <1>1, ReadKeeps DEF IdentityInv
<1>3. PICK e : e = Seeing(Registration(a, role, 0, 0))
  OBVIOUS
<1>4. e = [kind |-> "registered", actor |-> a, role |-> role, key |-> NoKey,
           token |-> NextSeq, code |-> 0, seen |-> Len(journal), asked |-> 0, heard |-> TRUE]
  BY <1>3 DEF Seeing, Registration, Event
<1>5. Len(journal) \in Nat
  BY LenProperties DEF IdentityInv, JournalInv
<1>6. e \in EventSet /\ e.actor = a /\ e.heard = TRUE
  BY <1>4, <1>5 DEF EventSet, NextSeq
<1>7. Justified(journal, e, Len(journal))
  BY <1>1, <1>4, <1>5, <1>6, RegistrationJustified DEF Register, Unspent
<1>8. CallFits(journal, Writes(a, e))
  BY <1>6, <1>7, Carries DEF Writes
<1> QED
  BY <1>1, <1>2, <1>3, <1>8, GoesOn DEF Register, Goes

(* A rotation keeps what was read of a known actor.                        *)
LEMMA RotationJustified ==
  ASSUME IdentityInv, NEW e \in EventSet, e.kind = "rotated", e.actor \in Actor,
         e.seen = Len(journal), e.asked <= Len(journal),
         NEW r \in Process, Lookup(r, e.actor).known,
         e.role = Lookup(r, e.actor).role,
         e.token # 0 => e.key = Lookup(r, e.actor).key
  PROVE  Justified(journal, e, Len(journal))
<1>1. Lookup(r, e.actor) = Directory(journal, e.actor, Len(journal))
  BY LookupIs DEF IdentityInv
<1>2. Len(journal) \in Nat
  BY LenProperties DEF IdentityInv, JournalInv
<1>3. LetIn(journal, e) /\ Follows(journal, e, Len(journal)) /\ Unspent(journal, e)
  BY DEF LetIn, Follows, Unspent
<1>4. Fits(journal, e)
  BY <1>1 DEF Fits
<1> QED
  BY <1>2, <1>3, <1>4 DEF Justified

LEMMA EnsureKeeps ==
  ASSUME IdentityInv, NEW c \in Caller, NEW a \in Actor, NEW role \in Role,
         Ensure(c, a, role)
  PROVE  IdentityInv'
<1>1. Home[c] \in Process /\ journal' = journal /\ Read(Home[c])
  BY IdentityAssumption DEF Ensure
<1>2. RegInv'
  BY <1>1, ReadKeeps DEF IdentityInv
<1>3. Len(journal) \in Nat
  BY LenProperties DEF IdentityInv, JournalInv
<1>4. PICK info \in Info : info = Lookup(Home[c], a)
  BY <1>1, LookupIs DEF IdentityInv
<1>5. CASE info.known
  <2>1. PICK e : e = Seeing(Event("rotated", a, info.role, info.key, NextSeq, 0))
    OBVIOUS
  <2>2. e = [kind |-> "rotated", actor |-> a, role |-> info.role, key |-> info.key,
             token |-> NextSeq, code |-> 0, seen |-> Len(journal), asked |-> 0, heard |-> TRUE]
    BY <2>1 DEF Seeing, Event
  <2>3. e \in EventSet /\ e.actor = a /\ e.heard = TRUE
    BY <2>2, <1>3, <1>4 DEF EventSet, NextSeq, Info
  <2>4. Justified(journal, e, Len(journal))
    BY <1>1, <1>3, <1>4, <1>5, <2>2, <2>3, RotationJustified
  <2>5. CallFits(journal, Writes(a, e))
    BY <2>3, <2>4, Carries DEF Writes
  <2>6. call' = [call EXCEPT ![c] = Writes(a, e)]
    BY <1>4, <1>5, <2>1 DEF Ensure, Goes
  <2> QED
    BY <1>1, <1>2, <2>5, <2>6, GoesOn
<1>6. CASE ~info.known
  <2>1. PICK e : e = Registration(a, role, 0, 0)
    OBVIOUS
  <2>2. e = [kind |-> "registered", actor |-> a, role |-> role, key |-> NoKey,
             token |-> NextSeq, code |-> 0, seen |-> 0, asked |-> 0, heard |-> TRUE]
    BY <2>1 DEF Registration, Event
  <2>3. e \in EventSet /\ e.actor = a /\ e.heard = TRUE
    BY <2>2, <1>3 DEF EventSet, NextSeq
  <2>4. e.kind = "registered" /\ e.asked <= Len(journal) /\ Unspent(journal, e)
    BY <1>3, <2>2 DEF Unspent
  <2>5. CallFits(journal, Pending("enrol", a, e))
    BY <2>3, <2>4, Carries
  <2>6. call' = [call EXCEPT ![c] = Pending("enrol", a, e)]
    BY <1>4, <1>6, <2>1 DEF Ensure, Goes
  <2> QED
    BY <1>1, <1>2, <2>5, <2>6, GoesOn
<1> QED
  BY <1>5, <1>6

LEMMA RedeemKeeps ==
  ASSUME IdentityInv, NEW c \in Caller, NEW a \in Actor, NEW code \in 1..MaxEvents,
         Redeem(c, a, code)
  PROVE  IdentityInv'
<1>1. Len(journal) \in Nat /\ journal \in Seq(EventSet) /\ DOMAIN journal = 1..Len(journal)
  BY LenProperties DEF IdentityInv, JournalInv
<1>2. journal[code] \in EventSet /\ code \in Nat
  BY <1>1 DEF Redeem, Invited
<1>3. PICK e : e = Registration(a, journal[code].role, code, Len(journal))
  OBVIOUS
<1>4. e = [kind |-> "registered", actor |-> a, role |-> journal[code].role, key |-> NoKey,
           token |-> NextSeq, code |-> code, seen |-> 0, asked |-> Len(journal), heard |-> TRUE]
  BY <1>3 DEF Registration, Event
<1>5. e \in EventSet /\ e.actor = a /\ e.heard = TRUE
  BY <1>1, <1>2, <1>4 DEF EventSet, NextSeq
<1>6. Unspent(journal, e)
  BY <1>1, <1>4 DEF Unspent, Spent, Redeem
<1>7. e.kind = "registered" /\ e.asked <= Len(journal)
  BY <1>1, <1>4
<1>8. CallFits(journal, Pending("enrol", a, e))
  BY <1>5, <1>6, <1>7, Carries
<1>9. RegInv'
  BY DEF Redeem, IdentityInv, RegInv, DirectoryIsFold
<1>10. journal' = journal /\ call' = [call EXCEPT ![c] = Pending("enrol", a, e)]
  BY <1>3 DEF Redeem, Goes
<1> QED
  BY <1>8, <1>9, <1>10, GoesOn

(* What a call holds that is about to append.                              *)
LEMMA Carried ==
  ASSUME IdentityInv, NEW c \in Caller, call[c].at # "idle"
  PROVE  /\ call[c] \in [at: {"enrol", "append"}, actor: Actor, event: EventSet]
         /\ call[c].event.actor = call[c].actor /\ call[c].event.heard = TRUE
         /\ call[c].at = "append" => Justified(journal, call[c].event, Len(journal))
         /\ call[c].at = "enrol" =>
              /\ call[c].event.kind = "registered"
              /\ call[c].event.asked <= Len(journal)
              /\ Unspent(journal, call[c].event)
<1>1. CallFits(journal, call[c])
  BY DEF IdentityInv, CallInv
<1>2. call[c] # Idle
  BY DEF Idle
<1>3. /\ call[c] \in [at: {"enrol", "append"}, actor: Actor, event: EventSet]
      /\ call[c].event.actor = call[c].actor /\ call[c].event.heard
      /\ call[c].at = "append" => Justified(journal, call[c].event, Len(journal))
      /\ call[c].at = "enrol" =>
           /\ call[c].event.kind = "registered"
           /\ call[c].event.asked <= Len(journal)
           /\ Unspent(journal, call[c].event)
  BY <1>1, <1>2 DEF CallFits
<1>4. call[c].event.heard \in BOOLEAN
  BY <1>3 DEF EventSet
<1> QED
  BY <1>3, <1>4

LEMMA EnrolKeeps ==
  ASSUME IdentityInv, NEW c \in Caller, Enrol(c)
  PROVE  IdentityInv'
<1>1. Home[c] \in Process /\ journal' = journal /\ Read(Home[c])
  BY IdentityAssumption DEF Enrol
<1>2. RegInv'
  BY <1>1, ReadKeeps DEF IdentityInv
<1>3. Len(journal) \in Nat
  BY LenProperties DEF IdentityInv, JournalInv
<1>4. call[c].at = "enrol" /\ call[c].at # "idle"
  BY DEF Enrol
<1>5. PICK a \in Actor, p \in EventSet : a = call[c].actor /\ p = call[c].event
  BY <1>4, Carried
<1>6. p.kind = "registered" /\ p.actor = a /\ p.heard = TRUE
      /\ p.asked <= Len(journal) /\ Unspent(journal, p)
  BY <1>4, <1>5, Carried
<1>7. CASE Lookup(Home[c], a).known
  <2>1. call' = [call EXCEPT ![c] = Idle]
    BY <1>5, <1>7 DEF Enrol, Goes
  <2> QED
    BY <1>1, <1>2, <2>1, IdleFits, GoesOn
<1>8. CASE ~Lookup(Home[c], a).known
  <2>1. PICK e : e = [p EXCEPT !.seen = Len(journal)]
    OBVIOUS
  <2>2. /\ e \in EventSet /\ e.kind = "registered" /\ e.actor = a /\ e.heard = TRUE
        /\ e.seen = Len(journal) /\ e.asked = p.asked /\ e.code = p.code
    BY <1>3, <1>6, <2>1 DEF EventSet
  <2>3. Unspent(journal, e)
    BY <1>6, <2>2 DEF Unspent
  <2>4. Justified(journal, e, Len(journal))
    BY <1>1, <1>6, <1>8, <2>2, <2>3, RegistrationJustified
  <2>5. CallFits(journal, Writes(a, e))
    BY <2>2, <2>4, Carries DEF Writes
  <2>6. call' = [call EXCEPT ![c] = Writes(a, e)]
    BY <1>5, <1>8, <2>1 DEF Enrol, Goes, Seeing
  <2> QED
    BY <1>1, <1>2, <2>5, <2>6, GoesOn
<1> QED
  BY <1>7, <1>8

LEMMA RotateKeyKeeps ==
  ASSUME IdentityInv, NEW c \in Caller, NEW a \in Actor, NEW key \in Key,
         RotateKey(c, a, key)
  PROVE  IdentityInv'
<1>1. Home[c] \in Process /\ journal' = journal /\ Read(Home[c])
  BY IdentityAssumption DEF RotateKey
<1>2. RegInv'
  BY <1>1, ReadKeeps DEF IdentityInv
<1>3. Len(journal) \in Nat
  BY LenProperties DEF IdentityInv, JournalInv
<1>4. PICK info \in Info : info = Lookup(Home[c], a) /\ info.known
  BY <1>1, LookupIs DEF IdentityInv, RotateKey
<1>5. PICK e : e = Seeing(Event("rotated", a, info.role, key, 0, 0))
  OBVIOUS
<1>6. e = [kind |-> "rotated", actor |-> a, role |-> info.role, key |-> key,
           token |-> 0, code |-> 0, seen |-> Len(journal), asked |-> 0, heard |-> TRUE]
  BY <1>5 DEF Seeing, Event
<1>7. e \in EventSet /\ e.actor = a /\ e.heard = TRUE
  BY <1>6, <1>3, <1>4 DEF EventSet, Info
<1>8. Justified(journal, e, Len(journal))
  BY <1>1, <1>3, <1>4, <1>6, <1>7, RotationJustified
<1>9. CallFits(journal, Writes(a, e))
  BY <1>7, <1>8, Carries DEF Writes
<1>10. call' = [call EXCEPT ![c] = Writes(a, e)]
  BY <1>4, <1>5 DEF RotateKey, Goes
<1> QED
  BY <1>1, <1>2, <1>9, <1>10, GoesOn

LEMMA DisableKeeps ==
  ASSUME IdentityInv, NEW c \in Caller, NEW a \in Actor, Disable(c, a)
  PROVE  IdentityInv'
<1>1. Home[c] \in Process /\ journal' = journal /\ Read(Home[c])
  BY IdentityAssumption DEF Disable
<1>2. RegInv'
  BY <1>1, ReadKeeps DEF IdentityInv
<1>3. Len(journal) \in Nat
  BY LenProperties DEF IdentityInv, JournalInv
<1>4. Directory(journal, a, Len(journal)).known
  BY <1>1, LookupIs DEF IdentityInv, Disable
<1>5. \E m \in 1..Len(journal) : Tells(journal, m, a)
  BY <1>3, <1>4, KnownIsTold
<1>6. PICK e : e = Event("disabled", a, NoRole, NoKey, 0, 0)
  OBVIOUS
<1>7. e = [kind |-> "disabled", actor |-> a, role |-> NoRole, key |-> NoKey,
           token |-> 0, code |-> 0, seen |-> 0, asked |-> 0, heard |-> TRUE]
  BY <1>6 DEF Event
<1>8. e \in EventSet /\ e.actor = a /\ e.heard = TRUE
  BY <1>7 DEF EventSet
<1>9. Justified(journal, e, Len(journal))
  BY <1>3, <1>5, <1>7 DEF Justified, LetIn, Fits, Unspent, Follows
<1>10. CallFits(journal, Writes(a, e))
  BY <1>8, <1>9, Carries DEF Writes
<1>11. call' = [call EXCEPT ![c] = Writes(a, e)]
  BY <1>6 DEF Disable, Goes
<1> QED
  BY <1>1, <1>2, <1>10, <1>11, GoesOn

LEMMA AuthenticateKeeps ==
  ASSUME IdentityInv, NEW c \in Caller, NEW token \in 1..MaxEvents, Authenticate(c, token)
  PROVE  IdentityInv'
<1>1. Home[c] \in Process /\ journal' = journal /\ Read(Home[c])
  BY IdentityAssumption DEF Authenticate
<1>2. RegInv'
  BY <1>1, ReadKeeps DEF IdentityInv
<1>3. Len(journal) \in Nat /\ Len(journal) \in 0..Len(journal) /\ journal \in Seq(EventSet)
      /\ DOMAIN journal = 1..Len(journal) /\ Ordered(journal)
  BY LenProperties, JournalOrdered DEF IdentityInv, JournalInv
<1>4. token \in 1..Len(journal) /\ token \in Nat /\ token # 0
  BY <1>3 DEF Authenticate
<1>5. PICK a \in Actor :
        /\ Lookup(Home[c], a).token = token /\ ~Lookup(Home[c], a).disabled
        /\ Goes(c, Writes(a, Seeing(Event("acted", a, Lookup(Home[c], a).role, NoKey, token, 0))))
  BY DEF Authenticate
<1>6. Lookup(Home[c], a) = Directory(journal, a, Len(journal))
  BY <1>1, LookupIs DEF IdentityInv
<1>7. PICK info \in Info : info = Lookup(Home[c], a)
  BY <1>1, LookupIs DEF IdentityInv
<1>8. PICK e : e = Seeing(Event("acted", a, info.role, NoKey, token, 0))
  OBVIOUS
<1>9. e = [kind |-> "acted", actor |-> a, role |-> info.role, key |-> NoKey,
           token |-> token, code |-> 0, seen |-> Len(journal), asked |-> 0, heard |-> TRUE]
  BY <1>8 DEF Seeing, Event
<1>10. e \in EventSet /\ e.actor = a /\ e.heard = TRUE
  BY <1>9, <1>3, <1>4, <1>7 DEF EventSet, Info
<1>11. LatestToken(journal, a, Len(journal)) = token
  BY <1>3, <1>5, <1>6, TokenIsLatest
<1>12. /\ Tells(journal, token, a)
       /\ \A m \in 1..Len(journal) : (Tells(journal, m, a) /\ journal[m].token # 0) => m <= token
  BY <1>3, <1>4, <1>11, LatestTokenIs
<1>13. ~DisabledBy(journal, a, Len(journal))
  BY <1>3, <1>5, <1>6, DisabledIs
<1>14. \A m \in (token + 1)..Len(journal) : Tells(journal, m, a) => journal[m].token = 0
  BY <1>3, <1>4, <1>12
<1>15. LetIn(journal, e)
  BY <1>9, <1>12, <1>13, <1>14 DEF LetIn
<1>16. Justified(journal, e, Len(journal))
  BY <1>3, <1>4, <1>9, <1>15 DEF Justified, Fits, Unspent, Follows
<1>17. CallFits(journal, Writes(a, e))
  BY <1>10, <1>16, Carries DEF Writes
<1>18. call' = [call EXCEPT ![c] = Writes(a, e)]
  BY <1>5, <1>7, <1>8 DEF Goes
<1> QED
  BY <1>1, <1>2, <1>17, <1>18, GoesOn

LEMMA VerifyKeeps ==
  ASSUME IdentityInv, NEW c \in Caller, NEW key \in Key, Verify(c, key)
  PROVE  IdentityInv'
<1>1. Home[c] \in Process /\ journal' = journal /\ Read(Home[c])
  BY IdentityAssumption DEF Verify
<1>2. RegInv'
  BY <1>1, ReadKeeps DEF IdentityInv
<1>3. Len(journal) \in Nat /\ Len(journal) \in 0..Len(journal) /\ journal \in Seq(EventSet)
      /\ Ordered(journal)
  BY LenProperties, JournalOrdered DEF IdentityInv, JournalInv
<1>4. call[c].at = "append" /\ call[c].at # "idle"
  BY DEF Verify
<1>5. PICK a \in Actor, p \in EventSet : a = call[c].actor /\ p = call[c].event
  BY <1>4, Carried
<1>6. p.actor = a /\ p.heard = TRUE /\ Justified(journal, p, Len(journal))
  BY <1>4, <1>5, Carried
<1>7. p.kind = "acted" /\ p.key = NoKey
  BY <1>5 DEF Verify
<1>8. Lookup(Home[c], a) = Directory(journal, a, Len(journal))
  BY <1>1, LookupIs DEF IdentityInv
<1>9. CASE Lookup(Home[c], a).key = key /\ ~Lookup(Home[c], a).disabled
  <2>1. PICK e : e = [p EXCEPT !.key = key, !.asked = Len(journal)]
    OBVIOUS
  <2>2. /\ e \in EventSet /\ e.kind = "acted" /\ e.actor = a /\ e.heard = TRUE
        /\ e.seen = p.seen /\ e.token = p.token /\ e.key = key /\ e.asked = Len(journal)
    BY <1>3, <1>6, <1>7, <2>1 DEF EventSet
  <2>3. /\ ~DisabledBy(journal, a, Len(journal))
        /\ Directory(journal, a, Len(journal)).key = key
    BY <1>3, <1>8, <1>9, DisabledIs
  <2>4. LetIn(journal, e)
    BY <1>6, <1>7, <2>2, <2>3 DEF Justified, LetIn
  <2>5. p.seen <= Len(journal) /\ p.token \in 1..Len(journal)
    BY <1>6, <1>7 DEF Justified
  <2>6. Fits(journal, e) /\ Unspent(journal, e) /\ Follows(journal, e, Len(journal))
    BY <2>2 DEF Fits, Unspent, Follows
  <2>7. Justified(journal, e, Len(journal))
    BY <1>3, <2>2, <2>4, <2>5, <2>6 DEF Justified
  <2>8. CallFits(journal, Writes(a, e))
    BY <2>2, <2>7, Carries DEF Writes
  <2>9. call' = [call EXCEPT ![c] = Writes(a, e)]
    BY <1>5, <1>9, <2>1 DEF Verify, Goes
  <2> QED
    BY <1>1, <1>2, <2>8, <2>9, GoesOn
<1>10. CASE ~(Lookup(Home[c], a).key = key /\ ~Lookup(Home[c], a).disabled)
  <2>1. call' = [call EXCEPT ![c] = Idle]
    BY <1>5, <1>10 DEF Verify, Goes
  <2> QED
    BY <1>1, <1>2, <2>1, IdleFits, GoesOn
<1> QED
  BY <1>9, <1>10

LEMMA RegUnchanged ==
  ASSUME RegInv, journal' = journal, reg' = reg
  PROVE  RegInv'
BY DEF RegInv, DirectoryIsFold

(* Whether the answer was heard makes no difference to the rest.           *)
LEMMA UnheardJustified ==
  ASSUME NEW j, NEW k, NEW e \in EventSet, Justified(j, e, k), NEW n, Minted(e, n),
         NEW f, f = [e EXCEPT !.heard = FALSE]
  PROVE  f \in EventSet /\ Justified(j, f, k) /\ Minted(f, n)
<1>1. /\ f \in EventSet /\ f.kind = e.kind /\ f.actor = e.actor /\ f.role = e.role
      /\ f.key = e.key /\ f.token = e.token /\ f.code = e.code
      /\ f.seen = e.seen /\ f.asked = e.asked
  BY DEF EventSet
<1>2. LetIn(j, f) /\ Fits(j, f) /\ Unspent(j, f) /\ Follows(j, f, k)
  BY <1>1 DEF Justified, LetIn, Fits, Unspent, Follows
<1> QED
  BY <1>1, <1>2 DEF Justified, Minted

(* Stored and answered, stored and not heard of, or refused.               *)
LEMMA AppendsKeeps ==
  ASSUME IdentityInv, NEW c \in Caller, NEW e \in EventSet, NEW next,
         Justified(journal, e, Len(journal)), Minted(e, Len(journal) + 1),
         reg' = reg, Appends(c, e, next),
         journal' = Append(journal, e) => CallFits(journal', next)
  PROVE  IdentityInv'
<1>1. CASE Store(e) /\ Goes(c, next)
  BY <1>1, Appended DEF Store, Goes
<1>2. CASE Store([e EXCEPT !.heard = FALSE]) /\ Goes(c, Idle)
  <2>1. PICK f : f = [e EXCEPT !.heard = FALSE]
    OBVIOUS
  <2>2. f \in EventSet /\ Justified(journal, f, Len(journal)) /\ Minted(f, Len(journal) + 1)
    BY <2>1, UnheardJustified
  <2>3. Store(f) /\ Goes(c, Idle)
    BY <1>2, <2>1
  <2> QED
    BY <2>2, <2>3, IdleFits, Appended DEF Store, Goes
<1>3. CASE journal' = journal /\ Goes(c, Idle)
  <2>1. RegInv'
    BY <1>3, RegUnchanged DEF IdentityInv
  <2> QED
    BY <1>3, <2>1, IdleFits, GoesOn DEF Goes
<1> QED
  BY <1>1, <1>2, <1>3 DEF Appends

LEMMA CreateInviteKeeps ==
  ASSUME IdentityInv, NEW c \in Caller, NEW role \in Role, CreateInvite(c, role)
  PROVE  IdentityInv'
<1>1. Len(journal) \in Nat
  BY LenProperties DEF IdentityInv, JournalInv
<1>2. PICK e : e = Event("invited", NoActor, role, NoKey, 0, NextSeq)
  OBVIOUS
<1>3. e = [kind |-> "invited", actor |-> NoActor, role |-> role, key |-> NoKey,
           token |-> 0, code |-> NextSeq, seen |-> 0, asked |-> 0, heard |-> TRUE]
  BY <1>2 DEF Event
<1>4. e \in EventSet
  BY <1>1, <1>3 DEF EventSet, NextSeq
<1>5. Justified(journal, e, Len(journal)) /\ Minted(e, Len(journal) + 1)
  BY <1>1, <1>3 DEF Justified, LetIn, Fits, Unspent, Follows, Minted
<1>6. Appends(c, e, Idle) /\ reg' = reg
  BY <1>2 DEF CreateInvite
<1> QED
  BY <1>4, <1>5, <1>6, IdleFits, AppendsKeeps

(* The token that the append mints changes nothing else.                   *)
LEMMA MintedJustified ==
  ASSUME NEW j, NEW k \in Nat, NEW e \in EventSet, Justified(j, e, k),
         NEW f, f = [e EXCEPT !.token = IF e.kind # "acted" /\ e.token # 0 THEN k + 1
                                        ELSE e.token]
  PROVE  /\ f \in EventSet /\ Justified(j, f, k) /\ Minted(f, k + 1)
         /\ f.kind = e.kind /\ f.actor = e.actor /\ f.code = e.code /\ f.heard = e.heard
<1>1. /\ f \in EventSet /\ f.kind = e.kind /\ f.actor = e.actor /\ f.role = e.role
      /\ f.key = e.key /\ f.code = e.code /\ f.heard = e.heard
      /\ f.seen = e.seen /\ f.asked = e.asked
      /\ e.token \in Nat
      /\ f.token = IF e.kind # "acted" /\ e.token # 0 THEN k + 1 ELSE e.token
  BY DEF EventSet
<1>2. e.kind = "acted" => f.token = e.token
  BY <1>1
<1>3. f.token # 0 => e.token # 0
  BY <1>1
<1>4. LetIn(j, f) /\ Fits(j, f) /\ Unspent(j, f) /\ Follows(j, f, k)
  BY <1>1, <1>2, <1>3 DEF Justified, LetIn, Fits, Unspent, Follows
<1>5. Minted(f, k + 1)
  BY <1>1 DEF Minted
<1> QED
  BY <1>1, <1>2, <1>4, <1>5 DEF Justified

(* The mark that follows a registration by invite.                         *)
LEMMA MarkFits ==
  ASSUME NEW j \in Seq(EventSet), Len(j) \in Nat \ {0},
         NEW f \in EventSet, f = j[Len(j)],
         f.kind = "registered", f.heard = TRUE, f.actor \in Actor,
         NEW role \in Role \cup {NoRole}, NEW code \in Nat, f.code = code
  PROVE  CallFits(j, Writes(f.actor, Event("redeemed", f.actor, role, NoKey, 0, code)))
<1>1. PICK e : e = Event("redeemed", f.actor, role, NoKey, 0, code)
  OBVIOUS
<1>2. e = [kind |-> "redeemed", actor |-> f.actor, role |-> role, key |-> NoKey,
           token |-> 0, code |-> code, seen |-> 0, asked |-> 0, heard |-> TRUE]
  BY <1>1 DEF Event
<1>3. e \in EventSet /\ e.actor = f.actor /\ e.heard = TRUE
  BY <1>2 DEF EventSet
<1>4. Follows(j, e, Len(j))
  BY <1>2 DEF Follows
<1>5. Justified(j, e, Len(j))
  BY <1>2, <1>4 DEF Justified, LetIn, Fits, Unspent
<1> QED
  BY <1>1, <1>3, <1>5, Carries DEF Writes

LEMMA WriteKeeps ==
  ASSUME IdentityInv, NEW c \in Caller, Write(c)
  PROVE  IdentityInv'
<1>1. Len(journal) \in Nat /\ journal \in Seq(EventSet)
  BY LenProperties DEF IdentityInv, JournalInv
<1>2. call[c].at = "append" /\ call[c].at # "idle"
  BY DEF Write
<1>3. PICK e \in EventSet : e = call[c].event
  BY <1>2, Carried
<1>4. e.actor \in Actor /\ e.heard = TRUE /\ Justified(journal, e, Len(journal))
  BY <1>2, <1>3, Carried
<1>5. PICK f : f = [e EXCEPT !.token = IF e.kind # "acted" /\ e.token # 0
                                       THEN Len(journal) + 1 ELSE e.token]
  OBVIOUS
<1>6. /\ f \in EventSet /\ Justified(journal, f, Len(journal)) /\ Minted(f, Len(journal) + 1)
      /\ f.kind = e.kind /\ f.actor = e.actor /\ f.code = e.code /\ f.heard = TRUE
  <2>1. PICK k \in Nat : k = Len(journal)
    BY <1>1
  <2>2. f = [e EXCEPT !.token = IF e.kind # "acted" /\ e.token # 0 THEN k + 1 ELSE e.token]
    BY <1>5, <2>1
  <2>3. Justified(journal, e, k)
    BY <1>4, <2>1
  <2>4. /\ f \in EventSet /\ Justified(journal, f, k) /\ Minted(f, k + 1)
        /\ f.kind = e.kind /\ f.actor = e.actor /\ f.code = e.code /\ f.heard = e.heard
    BY <2>2, <2>3, MintedJustified
  <2> QED
    BY <1>4, <2>1, <2>4
<1>7. PICK next :
        next = IF e.kind = "registered" /\ e.code # 0
               THEN Writes(e.actor, Event("redeemed", e.actor, e.role, NoKey, 0, e.code))
               ELSE Idle
  OBVIOUS
<1>8. Appends(c, f, next) /\ reg' = reg
  BY <1>3, <1>5, <1>7 DEF Write, NextSeq
<1>9. ASSUME journal' = Append(journal, f) PROVE CallFits(journal', next)
  <2>1. CASE e.kind = "registered" /\ e.code # 0
    <3>1. PICK later : later = journal'
      OBVIOUS
    <3>2. /\ later \in Seq(EventSet) /\ Len(later) \in Nat \ {0}
          /\ f = later[Len(later)]
      BY <1>1, <1>6, <1>9, <3>1, AppendProperties
    <3>3. e.role \in Role \cup {NoRole} /\ e.code \in Nat
      BY DEF EventSet
    <3>4. CallFits(later, Writes(f.actor, Event("redeemed", f.actor, e.role, NoKey, 0, e.code)))
      BY <1>4, <1>6, <2>1, <3>2, <3>3, MarkFits
    <3> QED
      BY <1>6, <1>7, <2>1, <3>1, <3>4
  <2>2. CASE ~(e.kind = "registered" /\ e.code # 0)
    BY <1>7, <2>2, IdleFits
  <2> QED
    BY <2>1, <2>2
<1> QED
  BY <1>6, <1>8, <1>9, AppendsKeeps

LEMMA CrashKeeps ==
  ASSUME IdentityInv, NEW r \in Process, Crash(r)
  PROVE  IdentityInv'
<1>1. journal' = journal /\ reg' = [reg EXCEPT ![r] = Empty]
  BY DEF Crash
<1>2. \A a \in Actor : Directory(journal, a, 0) = Unknown
  BY NotTold
<1>3. /\ Empty \in [mark: Nat, cache: [Actor -> Info]] /\ Empty.mark = 0
      /\ \A a \in Actor : Empty.cache[a] = Directory(journal, a, 0)
  BY <1>2 DEF Empty, Unknown, Info
<1>4. reg' \in [Process -> [mark: Nat, cache: [Actor -> Info]]]
  BY <1>1, <1>3 DEF IdentityInv, RegInv
<1>5. reg'[r] = Empty /\ \A p \in Process : p # r => reg'[p] = reg[p]
  BY <1>1 DEF IdentityInv, RegInv
<1>6. \A p \in Process : reg'[p].mark <= Len(journal')
  BY <1>1, <1>3, <1>5, LenProperties DEF IdentityInv, RegInv, JournalInv
<1>7. \A p \in Process, a \in Actor :
        reg'[p].cache[a] = Directory(journal, a, reg'[p].mark)
  BY <1>3, <1>5 DEF IdentityInv, RegInv, DirectoryIsFold
<1>8. DirectoryIsFold'
  BY <1>1, <1>7 DEF DirectoryIsFold
<1>9. RegInv'
  BY <1>4, <1>6, <1>8 DEF RegInv
<1>10. call' = [c \in Caller |-> IF Home[c] = r THEN Idle ELSE call[c]]
  BY DEF Crash
<1>11. \A c \in Caller : call'[c] = Idle \/ call'[c] = call[c]
  BY <1>10
<1>12. \A c \in Caller : CallFits(journal', call'[c])
  BY <1>1, <1>11, IdleFits DEF IdentityInv, CallInv
<1>13. CallInv'
  BY <1>10, <1>12 DEF CallInv
<1>14. JournalInv'
  BY <1>1 DEF IdentityInv, JournalInv
<1> QED
  BY <1>9, <1>13, <1>14 DEF IdentityInv

LEMMA ListKeeps ==
  ASSUME IdentityInv, NEW r \in Process, List(r)
  PROVE  IdentityInv'
<1>1. journal' = journal /\ call' = call /\ Read(r)
  BY DEF List
<1>2. RegInv'
  BY <1>1, ReadKeeps DEF IdentityInv
<1> QED
  BY <1>1, <1>2 DEF IdentityInv, JournalInv, CallInv

LEMMA InitHolds == Init => IdentityInv
<1> SUFFICES ASSUME Init PROVE IdentityInv
  OBVIOUS
<1>1. journal = <<>> /\ Len(journal) = 0 /\ journal \in Seq(EventSet)
  BY EmptySeq DEF Init
<1>2. JournalInv
  BY <1>1, IdentityAssumption DEF JournalInv
<1>3. \A a \in Actor : Directory(journal, a, 0) = Unknown
  BY NotTold
<1>4. /\ Empty \in [mark: Nat, cache: [Actor -> Info]] /\ Empty.mark = 0
      /\ \A a \in Actor : Empty.cache[a] = Directory(journal, a, 0)
  BY <1>3 DEF Empty, Unknown, Info
<1>5. RegInv
  BY <1>1, <1>4 DEF Init, RegInv, DirectoryIsFold
<1>6. CallInv
  BY IdleFits DEF Init, CallInv
<1> QED
  BY <1>2, <1>5, <1>6 DEF IdentityInv

LEMMA NextKeeps == IdentityInv /\ [Next]_vars => IdentityInv'
<1> SUFFICES ASSUME IdentityInv, [Next]_vars PROVE IdentityInv'
  OBVIOUS
<1>1. ASSUME NEW c \in Caller, Begin(c) PROVE IdentityInv'
  BY <1>1, RegisterKeeps, EnsureKeeps, DisableKeeps, RotateKeyKeeps, RedeemKeeps,
     AuthenticateKeeps DEF Begin
<1>2. ASSUME NEW c \in Caller, NEW role \in Role, CreateInvite(c, role) PROVE IdentityInv'
  BY <1>2, CreateInviteKeeps
<1>3. ASSUME NEW c \in Caller, Enrol(c) \/ Write(c) \/ \E key \in Key : Verify(c, key)
      PROVE  IdentityInv'
  BY <1>3, EnrolKeeps, WriteKeeps, VerifyKeeps
<1>4. ASSUME NEW r \in Process, List(r) \/ Crash(r) PROVE IdentityInv'
  BY <1>4, ListKeeps, CrashKeeps
<1>5. CASE UNCHANGED vars
  BY <1>5 DEF vars, IdentityInv, JournalInv, RegInv, DirectoryIsFold, CallInv
<1> QED
  BY <1>1, <1>2, <1>3, <1>4, <1>5 DEF Next

(* Journal, caches and calls under way fit together in every reachable     *)
(* state, however processes interleave, crash or lose answers (all,        *)
(* register, EnsureActor, RotateKey, Disable, Redeem, Authenticate).       *)
THEOREM DirectoriesAreSound == Spec => []IdentityInv
<1>1. Init => IdentityInv
  BY InitHolds
<1>2. IdentityInv /\ [Next]_vars => IdentityInv'
  BY NextKeeps
<1> QED
  BY <1>1, <1>2, PTL DEF Spec

-----------------------------------------------------------------------------
(* Types: a token is the number of its own event, and no cache is ahead.   *)
THEOREM TypeCorrect == Spec => []TypeOK
<1>1. IdentityInv => TypeOK
  <2> SUFFICES ASSUME IdentityInv PROVE TypeOK
    OBVIOUS
  <2>1. Len(journal) \in Nat /\ DOMAIN journal = 1..Len(journal) /\ Len(journal) <= MaxEvents
    BY LenProperties DEF IdentityInv, JournalInv
  <2>2. \A n \in 1..Len(journal) :
          /\ journal[n] \in EventSet
          /\ Justified(journal, journal[n], n - 1) /\ Minted(journal[n], n)
    BY DEF IdentityInv, JournalInv
  <2>3. ASSUME NEW n \in DOMAIN journal, NEW e \in EventSet, e = journal[n]
        PROVE  /\ e.kind \in {"registered", "rotated", "disabled", "invited", "redeemed", "acted"}
               /\ e.actor \in Actor \cup {NoActor} /\ e.role \in Role \cup {NoRole}
               /\ e.key \in Key \cup {NoKey}
               /\ e.kind \in {"registered", "rotated"} => e.token \in {0, n}
               /\ e.seen < n /\ e.asked < n
    <3>1. e.seen <= n - 1 /\ e.asked <= n - 1 /\ Minted(e, n)
      BY <2>1, <2>2, <2>3 DEF Justified
    <3> QED
      BY <2>1, <3>1 DEF EventSet, Minted
  <2>4. \A c \in Caller : call[c].at \in {"idle", "enrol", "append"}
    BY DEF IdentityInv, CallInv, CallFits, Idle
  <2>5. \A r \in Process : reg[r].mark <= Len(journal)
    BY DEF IdentityInv, RegInv
  <2> QED
    BY <2>1, <2>2, <2>3, <2>4, <2>5 DEF TypeOK
<1> QED
  BY <1>1, DirectoriesAreSound, PTL

(* Every cache is what the journal says up to its watermark (all).         *)
THEOREM CachesFold == Spec => []DirectoryIsFold
<1>1. IdentityInv => DirectoryIsFold
  BY DEF IdentityInv, RegInv
<1> QED
  BY <1>1, DirectoriesAreSound, PTL

(* Nobody acts or signs who was disabled, or whose token or key was        *)
(* replaced, when the request or the signature was checked, in whatever    *)
(* process (Authenticate, VerifySignature, Disable).                       *)
THEOREM RevokedActorsStayOut == Spec => []RevokedStaysOut
<1>1. IdentityInv => RevokedStaysOut
  <2>1. IdentityInv => \A n \in DOMAIN journal : LetIn(journal, journal[n])
    BY LenProperties DEF IdentityInv, JournalInv, Justified
  <2> QED
    BY <2>1 DEF LetIn, RevokedStaysOut
<1> QED
  BY <1>1, DirectoriesAreSound, PTL

(* Only calls that overlap register an actor twice or bring back what a    *)
(* rotation replaced (register, EnsureActor, RotateKey).                   *)
THEOREM OnlyOverlapsUndo == Spec => []OverlapOnly
<1>1. IdentityInv => OverlapOnly
  <2>1. IdentityInv => \A n \in DOMAIN journal : Fits(journal, journal[n])
    BY LenProperties DEF IdentityInv, JournalInv, Justified
  <2> QED
    BY <2>1 DEF Fits, OverlapOnly
<1> QED
  BY <1>1, DirectoriesAreSound, PTL

(* A code lets in nobody whose redemption began after it was marked, and   *)
(* only a registration by the code marks it (Redeem, findInvite).          *)
THEOREM InvitesAreSpent == Spec => []InviteSpent
<1>1. IdentityInv => InviteSpent
  <2>1. IdentityInv => \A n \in DOMAIN journal :
          Unspent(journal, journal[n]) /\ Follows(journal, journal[n], n - 1)
    BY LenProperties DEF IdentityInv, JournalInv, Justified
  <2> QED
    BY <2>1 DEF Unspent, Follows, InviteSpent
<1> QED
  BY <1>1, DirectoriesAreSound, PTL
=============================================================================
