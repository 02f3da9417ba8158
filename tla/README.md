# Verification of kalita

kalita is a business platform kernel: records, workflows, approvals signed by
humans, tasks worked by agents, all described in a DSL and all written to an
event journal chained by hashes. This directory models the journal, the engine,
the identity registry and the DSL's semantic analysis in TLA+, checks the models
with TLC and proves the properties that matter most with TLAPS.

    tlc -workers 2 -config PGStore.cfg PGStore.tla      # one run
    tlapm PGStoreProofs.tla                             # one proof module

`PROJECT.json` lists the runs, what each definition of a module translates
(`map`), the hazards, the findings and the theorems.

## 1. Inventory

| Part (under `src/`) | State it keeps | Operations | What is hard |
|---|---|---|---|
| Journal `internal/eventstore` (chain, build, checkpoint, MemStore) | the events; the index of idempotency keys | Append, Seal, ByIdemKey, Since, All, Head, Verify | a seal signs a head that moves before it is appended; one key, one event |
| PostgreSQL store `pgstore.go` | the `events` table | Append as a transaction under an advisory lock | processes that share the table; every round trip may fail; a lost commit acknowledgement |
| Engine: records, workflow, approvals (`records.go`, `workflow.go`, `engine.go`) | projection: records, moments of state entry, approvals, tasks | Create, Update, Act, Decide, ImportRecord, New (replay) | handlers with several appends; dropped errors; retries; crashes; chasing auto transitions |
| Engine: task pool (`tasks.go`) | tasks, leases, the wake channel | createTask, TakeTask, CompleteTask, FailTask, ReportProgress, WaitForTask, expiry | leases against time, restarts and late workers; waiters that are not woken |
| Engine: automation (`automation.go`) and heartbeat (`cmd/kalita/main.go`) | none of its own | create/update rules, schedule and stuck rules, sweep | once per rule, record and day across restarts |
| Engine: proposals (`proposals.go`) | proposals, the model, its version | ProposeChange, DecideProposal, ApplyAdditive | three appends that should be one; stale bases |
| Engine: permissions, expressions, index (`permissions.go`, `expr.go`, `computed.go`, `index.go`) | the candidate index | can, maskFields, checkFieldWrites, candidateIDs | deny over allow; an index that must be a superset; stale index |
| Engine: calendar (`calendar.go`) | none | business minutes and days between two instants | day ends, holidays, transferred workdays |
| Engine: validation, serials (`validate.go`, `serial.go`) | none: numbers are read from the records | validateValues, checkRefsExist, checkUnique, assignSerials | uniqueness and numbers when an answer was lost; a retry makes its values again |
| Engine: links, comments (`links.go`, `comments.go`) | links, threads | Link, Unlink, LinksOf, Comment, CommentsOf | one fact under two names; ids that change on replay |
| Engine: dashboards, meta, files (`dashboard.go`, `meta.go`, `files.go`) | none | tiles, MetaFor, ActorCanReadFile | they must show what the single read shows |
| Identity `internal/identity` | a cache of actors up to a watermark | register, EnsureActor, Authenticate, RotateKey, Disable, invites | check-then-append between processes; one-time codes; a stale cache |
| DSL `internal/dsl` | none | lex, parse, analyze | what a running node takes for granted must have been checked |
| API, MCP server, web UI | sessions, rate windows | translation to engine calls | the rate window |
| Workers, SDK | none | wait, take, act, report, complete | clients; they are the actors of `Tasks` |

The engine has one mutex; a handler holds it from its checks through all of its
appends. The store is shared by the engine, the registry, the sealing goroutine
and CLI processes, each a caller of Append. The projection is written by two
pieces of code that must agree: the handlers, and `applyEvent` on restart.

What makes each part correct:

- journal: however callers interleave and fail, one unbroken chain, valid
  seals, one event per key, answers that are stored, no caller stuck;
- engine: a restart at any point restores what was shown; records move along
  the declared transitions only, those that are asked for and need a signature
  only with a grant of their own; decisions are final; records settle and their work is queued;
- task pool: a lease is exclusive for as long as it lasts and then ends; what is
  finished stays finished; waiters are woken;
- proposals: what runs is what a human signed, as it was shown when parked; every
  definition is sound for the engine, and legal data stays legal (the options of an
  `array[enum]` excepted);
- reads: queries, single reads, dashboards, files and metadata agree on what an
  actor may see, whatever the index remembers; conditions mean what their
  grammar says; working time is counted to the minute;
- documents: unique values, numbers, references and singletons hold among the
  records whose events were answered and that no repeated call wrote; links read back under both names; a rule
  makes one task per record and period;
- identity: every process's directory is the journal's; who was disabled or lost
  a key stays out; an actor is enrolled twice only by calls that overlap, a
  code lets nobody in once it is marked as used.

## 2. Modules

| Module | Models | Kind |
|---|---|---|
| `Journal` | events, digests, chain, lookups, the two verifiers | constant-level operators |
| `EventStore` | the contract of `eventstore.Store`; its atomic step is `MemStore.Append` | abstract specification |
| `PGStore` | `PGStore.Append`, one action per round trip | detailed specification, refines `EventStore` |
| `EventStoreProofs`, `PGStoreProofs` | | theorems |
| `Workflow` | records, workflow, approvals and task queueing of one entity, with the journal, the projection and replay | system |
| `MCWorkflow`, `MCApprovals` | two workflow blocks | model checking |
| `WorkflowProofs` | | theorems |
| `Tasks` | the task pool, leases, `WaitForTask` | system |
| `TasksProofs` | | theorems |
| `TaskReports` | progress reports, over `Tasks` | extension of `Tasks` |
| `MCTasks`, `MCTaskReports` | small pools | model checking |
| `Compiler` | the semantic analysis of a parsed pack and the model it yields | constant-level operators |
| `Proposals` (over `Compiler`) | the change pipeline: propose, decide, apply, replay | system |
| `ProposalsProofs` | | theorems |
| `Values` | values of fields, and what a path, a `$`-word or a literal stands for | constant-level operators |
| `Conditions` (over `Values`) | the parser and the evaluator of conditions | constant-level operators |
| `Grammar` (over `Conditions`) | the grammar of conditions, as a reference | constant-level operators |
| `Calendars` | business calendars, and working ticks as a reference | constant-level operators |
| `Access` (over `Grammar`, `Calendars`) | permissions, masks, the candidate index, computed fields and every way to read | system |
| `AccessProofs` | | theorems |
| `Validation` (over `Values`) | types, defaults, required and unique fields, serial numbers, references | constant-level operators |
| `Documents` (over `Validation`) | records with their values, links, comments, schedule and stuck rules, with the journal and replay | system |
| `DocumentsProofs` | | theorems |
| `Identity` | the registry and invites of several processes over one journal | system |
| `IdentityProofs` | | theorems |
| `MCProposals`, `MCAccess`, `MCDocuments`, `MCIdentity` | small packs, records and processes | model checking |

### Journal, EventStore, PGStore

A digest is the list of all that was hashed (`ComputeHash`), so equal digests
mean equal inputs: SHA-256 without collisions. A signature of a checkpoint is the
digest it signs. `call` holds what each caller asked last and what it was
answered. `EventStore.LoseAnswer` belongs to the contract because a database
can lose the acknowledgement of a commit. In `PGStore` statements see committed
rows, `lock` is the advisory transaction lock, `row` is what a transaction has
inserted and nobody else sees; `Insert` is refused by the unique columns or by a
full table. `Abort` is any failed round trip.

Fairness: `SF` on `Lock` because PostgreSQL serves the waiters of a lock in turn
(a waiter is enabled again and again, not continuously), `WF` on the rest of a
transaction, which is straight-line code. Failures are never owed.

### Workflow

`journal` is the event list, `live` the projection in memory, `replay` the fold
of `applyEvent` over the journal, kept up to date by the one step that appends
(`Stored`), `op` what the call that holds the mutex does next. Create, Update,
Act and Decide are one action up to and including their first append; the rest of
the call (`MoveSigned`, `Hop`, `HopsDone`, `CreateTask`, `Return`) is one action
per append, so that a crash (`Restart`) can fall between any two. An append
stores its event, answers with the event stored under the key, stores nothing
and errs, or stores and errs (`Errs`); what the handler does then is the
handler's code. Errors the code drops are dropped.

Abstractions: one entity; the fields the workflow does not govern are one value
`Data`, and a guard is the set of data it holds for (computed fields, other
records and the clock in guards are not modelled); refused calls change nothing
and are left out, so permissions and validation are not seen; a client repeats a
key only for the same call, so a key *is* the call; the moment a record entered
its state is the number of the event that put it there (two events have two
timestamps); auto transitions are fired by their guard alone, whatever approval
they name (`runAutoTransitions`); an import only enters an empty journal (`migrate.go`).

Three history variables say when the strong statements hold. `skew`: the
projection was changed on an answer that named an older event, or an event was
stored that nobody heard of; a restart ends it. `unheard`: events whose append
was answered with an error. `rough`: records whose last change was not seen
through (a crash, a dropped error, the hop bound).

Fairness: `WF(Step)`. A call that holds the mutex is straight-line code and each
of its appends is answered.

### Tasks, TaskReports

`live` and `stored` are the pool in memory and the pool a restart would fold.
Leases are kept as ticks left, so the clock needs no bound; `phase` places the
tick within its second because a lease is journaled in whole seconds
(`Journaled`). Handlers are atomic (a crash between the two appends of
`TakeTask` leaves what a sweep and a restart leave). `expireIfDue` reopens the
task whether or not its append succeeds (`Expire`). `WaitForTask` is not atomic: it
looks under one lock and fetches the wake channel under another (`Look`,
`Block`). `missed` records what opened without waking a waiter, `told` what is
left of the leases workers were told they have, `cut` the leases read back from
the journal. The clock does not go backwards.

`TaskReports` adds which events an actor has on a task's record, ever and since
it took the task, and `ReportProgress`.

Fairness: `WF(Advance)`, time passes; `WF(Sweep)`, the heartbeat of `main.go`
ticks every minute.

### Compiler, Proposals

A parsed pack is a record of names; `Compiles` is the conjunction of the
diagnostics of `semantic.go`, `Model` what is built of a pack without any. In
`Proposals` a grant is two appends (`Grant`, `Apply`) under one mutex, each of
which may be refused or stored and answered with an error, with a crash
(`Restart`) between any two steps. `Plan` is what the approver is shown.
`KeepsValues` compares the values of an enum; the options of an `array[enum]` are
carried by the type and compared by nothing, as in `validateAdditive`. The packs of `MCProposals` include one for each kind of diagnostic. Signatures are
not modelled: an unsigned decision is a refused call.

### Conditions, Grammar, Calendars, Access

A condition is a sequence of tokens. The parser of `Conditions` is the code's, which
reads each position with what it reads behind it, so that what is read at all
positions is one recursive function (`Reads`); a tree is built with its value,
because `eval` follows the same shape. `Grammar` is what the parser is compared
with: the trees of a span of tokens, straight from the comment on the language; the
trees of all spans are one recursive function too (`Language`), from shorter spans
and tighter kinds.

`Access` has the running
model, the records, the index and a condition typed token by token by a caller
(`Type`), so that every text up to `MaxText` tokens meets the parser and the
queries. `Write` stands for every handler that changes a record (all end in
`dropIndex`), `Apply` for a granted proposal, `Look` for a query that builds the
index. Reads are operators of the state. The values of a record given to a
permission condition are what is stored; masks and filters see computed fields,
as in the code. Texts that only format (dates, money as printed) are abstracted;
the index key of a value is what `fmt` prints, because that is what goes wrong. A
literal that reads as a number is one, quoted or not (`ParseFloat`, a constant).

Calendars count in ticks, several to a minute, so that instants inside a minute
occur; a small week and a small day are constants. What a calendar record does not
say is Monday to Friday, nine to six (`WeekDays`, `WorkStart`, `WorkEnd`), which need
not be the node's calendar (`Standard`).

### Validation, Documents

`Validation` says which values a record may have, with the defaults and numbers
that Create fills in. In `Documents` a handler is one action: checks against the
projection, one append, heard (`Project`) or stored and answered with an error
(the event enters `behind`, and the projection does not change). `Apply` is
`applyEvent`; `Project` differs from it in a comment's id only.

Create, Update and Act take an idempotency key. When the key is stored already, the
call goes through its checks again over what the records are by now, the store
answers with the first event, and the handler writes what it made *this time*
(`CreateAgain`, `UpdateAgain`, `MoveAgain`, all by way of `Repeats`): a create makes
its values again, unless its record is there; an update writes what differs by now;
a transition is looked up from the state the record is in, and sets the clock back to
the first event. Only where that event was unheard, holds the same body and is the
last of its record (`AsStored`) is this what a restart folds. Otherwise the record
enters `skew`, which a restart empties, and `rewritten`, a history variable nothing
empties: a wrong value that was in memory for a while lets other records in that are
there to stay.

`ImportRecord` enters the records of an old era, types checked and nothing else,
before anything else is in the journal; the process that imports is the command
(`migrate.go`) and ends with it. `Tick` is one beat: its appends in the
order of rules and records, one of which may fail (`Fire`, for what is due). `Restart` folds
the journal. The evaluator of conditions and the computed fields are constants of the
module, the first given by `Conditions` in the run and both by nothing in the proofs; a
rule's condition sees the record with its computed fields (`Holds`).

A move is any transition (`Workflow` has them in detail), a record's values are
readable by everybody (`Access`). A day of the model is also a year of the
document numbers; the moment a record came into its state is the number of the event
that brought it there. `ticked` says that the last step was a beat without errors.

### Identity

Each process has a cache of the directory up to a watermark; every call catches
up first (`Seeing`), reads, and appends later (`Write`), so calls of several
processes interleave between their reads and their appends. Hashing is
abstract: a token is its key. A crash (`Crash`) empties a cache.

## 3. Runs

| Run | Bounds | Shows |
|---|---|---|
| `pgstore` | 2 callers, 2 facts, 1 key, 3 rows | the contract and the refinement, with every failure; 68 thousand states |
| `workflow` | 1 record, 1 approval, 3 states, 2 data values, 5 changes, 2 hops, 1 lost answer | replay, settling, queued work, declared moves; 746 thousand states |
| `approvals` | 1 record, 2 approvals, 2 states, 2 auto transitions that chase each other, 6 changes, 2 hops, 1 lost answer | signatures, final decisions, the mutex is released; 312 thousand states |
| `tasks` | 2 workers (one waits), 2 tasks, lease of 2 ticks, 2 ticks a second, 1 lost answer | leases, finished work, replay of the pool, wakes; 286 thousand states |
| `proposals` | 13 packs, 3 proposals, 1 lost answer | signed, sound, honest changes; legal data; replay; 1.1 million states |
| `identity` | 2 processes, 2 actors, 1 lost answer | caches, revocation, overlapping registrations, invites; 2.3 million states |
| `access` | 3 actors, 4 definitions, 3 documents, texts of 5 tokens, 6 days of 4 minutes | the parser, agreement of all reads, working time; 114 thousand states |
| `documents` | 3 records of 2 entities, 1 key, 4 events (one update, move and link each), 1 lost answer, 2 days, 3 rules | replay, uniqueness, links, one task per period; 640 thousand states |
| `access_negated` | as `access`, a negated rule | finding: candidates are no superset |
| `workflow_retry` | as `workflow`, no lost answers | finding: a repeated keyed call |
| `tasks_wait` | as `tasks` | finding: a lost wake-up |
| `task_reports` | 1 worker, 1 task | finding: facts from before the task |

Why the bounds are enough. Two callers are all that contend for a lock; three
rows give a chain a middle, and a seal an event after what it seals. The
properties of `Workflow` are about one record and its approvals (records share
only the journal), so one record is enough; five changes let a record be created,
moved, asked for a signature, moved away and back; two approvals for one
transition are what a stale grant needs; the last three transitions of
`MCWorkflow`, and the two auto transitions of `MCApprovals`, chase each other past
the bound of the loop (without it, the mutant of `LockIsReleased`, the call never
ends). In `Tasks`, two workers contend for a task, and the second task is what a waiter may miss; a lease
of one second out of phase with the clock loses a tick when it is read back.
In `Proposals`, three proposals let one be applied while a second is parked on the
same base and a third comes after; one lost answer can be that of any append. In
`Access`, the sequences of writes and looks need not be long, because the index
holds only its last building; texts of five tokens have every pair of operators
around an operand except deep nesting. In `Documents`, four events let a record
be created, its answer lost, the call repeated and another record collide with
it, let a keyed update or transition be repeated over a later change, let a record
be created among two imported ones, and let a link be made and undone between two
records; two days are what "once a day" and "stuck for a day" need. A second update of a
record, a fact linked a second time, a second stay in a stuck state and a second day
of a per-record rule are beyond these bounds: there it is the theorems that speak. In
`Identity`, two processes are what a check and a later append race with.
Bounds are `MaxEvents`, `MaxChanges`, `MaxLost`, `HopLimit` (10 in the code) and
`TTL`, all guards of the actions. The theorems have none of them.

Every property has a mutant: a plausible bug in the code it is about, stated
beside the definition it replaces, that TLC must find.

## 4. Proofs

**`EventStoreProofs`, `PGStoreProofs`.** The contract's invariant `StoreInv`
strengthens chain, checkpoints and keys by what pending seals have read
(`PendingInv`: an open seal names an event and its digest), without which the
checkpoint case is not inductive. `PGInv` adds to it what the lock gives: only
its holder is past the `Lock` step, and what the holder has read is still so.
From it `TransactionsImplementStore` shows that each round trip is a step of
`EventStore` or a stutter (the commit is the append; a failed round trip is a
refusal), and the contract's lemmas, instantiated at the table, carry the
invariants over. Assumptions: the checkpoint kind is no other fact's kind, the
empty key is no key, nobody is no client.

**`WorkflowProofs`: replay.** `ReplayRestores` says memory and fold agree whenever `skew`
is false. It is not inductive alone: that the repeated key of a task finds
a *task* needs the types of the events (`EventSet`: client keys and task keys
are disjoint) and that the fold holds every task event (`JournalInv`); that an
update or a move projects what the fold projects needs the record to be known to
the fold (`LiveInv`, `CallInv`). `WorkflowInv` is their conjunction; one lemma per
action shows that it is kept. It holds for any workflow block, rules, number of
records and approvals, hop bound, and pattern of failures. Assumptions:
`WorkflowAssumption`, the shape of a compiled workflow block.

**`WorkflowProofs`: signatures.** On top of `WorkflowInv`. `MovesAreSigned` speaks of the
journal alone, but what `Decide` stores comes from an approval in memory; so
`ApprovalInv` adds what ties the two: an approval id is requested once and memory
and fold call it the move that was requested (`OneRequest`), a decided approval
is never pending in the fold, nor in memory unless nobody heard of the decision
(`Closed`), nothing is stored between the two appends of a grant (`GrantIsLast`),
and what an approval asks for is a declared transition (`DeclaredIn`). From the
last, and from what `findTransition` returns, every step moves records along the
workflow (`MovesAreDeclared`). Signatures are about transitions that are asked for:
auto transitions are exempt (`IsAuto`), because the code fires them unsigned
(section 5). Assumption: `AutoAssumption`, the parser names the
auto transitions, and only those, "auto" (`parser_blocks.go:76`).

**`WorkflowProofs`: settling.** A restart must not reopen work that was seen through, so
`SettledInv` states what is done of memory and of the fold (`RecordsDone`), of
every record that is not `rough` (its last change returned an error, or dropped
one). That a task found by its key is a task for *this* stay needs that a key
tells its record, action and stay and is younger than the stay (`KeysTell`,
`EnteredBy`); `CallOnTheWay` is the loop invariant of `ensureWorkflowTasks`: the
transitions before the one it goes on with have their task. `NothingFires`: the
loop of `runAutoTransitions` takes the first transition that fires, so it stops
only where none does; its proof takes the least element of a set of numbers from
the library's well-founded induction.

**`TasksProofs`.** All the safety of the pool. None of it is inductive alone: a
restart hands out what is stored, so honoured leases need that the pool is
restored (`Fits`), and the slack of a lease must not grow with every restart, so
`LeaseInv` adds that a lease once read back is in memory what it is in the
journal, and that what is left in memory is at least what the worker was told,
less the slack: a due lease is then nobody's, and expiry and `TakeTask` may hand
it on. `WaitInv` extends `WakesReachAll` to waiters between the look and the
signal. For any workers, tasks, roles, lease and clock precision. Assumption:
`TasksAssumption`, a lease lasts at least one second (the default
is one hour).

**`ProposalsProofs`.** That every applied definition was signed, sound, shown as it
is and makes no legal data illegal (with one exception, below), for any packs and any number of proposals,
lost answers and crashes. `PipelineInv` is what it takes. `Counted`: the journal's
version is one more than the proposals applied in it, so no version repeats.
`Behind`: the model in memory is never ahead of the journal's, and the same number
means the same pack. `Follows`: of each proposal the journal may know more than
memory, and only more of the same proposal. `Honest`: in memory and in the fold
alike, a pending proposal whose base is the running version shows the plan it
carries out and is additive; the bases never exceed the version, so no stale
proposal becomes current later. `GrantUnderWay` ties the call between its two
appends to the grant in the journal, `Marked` and `Signed` tie statuses to the
last decision. `AdditiveExtends` is the heart of `NothingIsLost`: what
`validateAdditive` lets through keeps every legal record legal, but for the options
of an `array[enum]`, of which it keeps nothing; `CompiledIsSound`
is that of `SoundModels`. Assumptions: `ProposalsAssumption`,
`GenesisAssumption` (the first pack compiles) and `SourceAssumption` (the values of
a type are a sequence, a stuck rule names its entity: what the parser builds).

**`IdentityProofs`.** All the safety of the registry. A call reads now and appends
later, so what it carries must stay true of a journal that grows: `Justified` says
of an event, by its history (`seen`, `asked`), that the first events of the journal
let its actor in, fit its registration or rotation, leave its code unspent, or
precede its disable or mark; it speaks of a prefix only, hence stays
(`StaysJustified`), and the properties are its parts. `FreshIsDirectory` is the
watermark: folding the events behind it into a cache that is the directory of
those before gives the directory of all, by least counterexample over the
recursive function of `Fresh`; its step (`FoldStep`) needs that a disable follows a
registration of the same actor and that a token is the number of its own event.
For any processes, callers, actors, keys, crashes and lost answers. Assumption:
`IdentityAssumption`, the markers for none are no actors, roles or keys.

**`DocumentsProofs`.** All four properties of `Documents`. Memory and the fold of a
restart are two projections that were told the same events in different ways, so
`Told` says what a projection holds by the set of events it was told of, without a
fold: a record is born by its create, a link is there if no later event removed it,
a task is an event of the pool. `Told` is kept by one event more, the events need not
come in order (an event that was stored and not answered is told of when its call is
repeated), and two projections told the same differ in the values and the clocks of
records that a repeated call wrote and in the ids of comments only. Such records are
excepted throughout, `skew` where the projection is compared with the fold,
`rewritten` where something is said of all times; a repeat that
is `AsStored` is not excepted, so a retry after a lost answer with nothing in
between is covered.

- *Replay.* `CoreInv` is `Told` of memory, with the form of the events (`JournalInv`:
  a record is born once, a key is stored once, a record is known before it is written
  to) and with the values as the last writer told of left them (`ValuesInv`). The fold
  is told by induction over the journal (a least counterexample), and
  `ReplayRestores` compares the two; threads come out in one order because a
  comment's id lies between those of the events around it whoever minted it.
- *Uniqueness.* `DistinctInv`. It is about the other records as much as the one that
  is written: `checkUnique` compares the new record with the old ones, and what it
  found must survive a restart that brings unheard records back and another record's
  move. So it holds between *heard* records that no repeated call wrote, whose values the
  journal determines, and for the part of a declaration that moves do not touch
  (`Ungoverned`). An imported record is not compared with other imported ones, nor
  are its references looked up; a record created later is compared with them all. That a new
  number is new needs that the numbers given before read as numbers of their format
  (`Written`), which an update ends and a move cannot (the workflow field is an enum).
- *Links.* `LinkInv`: what was linked or unlinked joins two records that are there.
  With `Told`, the last event about a fact decides whether it is stored
  (`LastDecides`), and `LinksOf` finds a stored one under both names
  (`SeenIsStored`).
- *Rules.* Two firings have one key only if they are of one period, which the store
  turns into one task; that two periods do not share a key, nor one period two, is
  about a record's *stay*. `StateInv`: a moved record is in the state its last entry
  brought it to, and a later move nobody heard of leads elsewhere. `TaskInv`: the key
  of a stuck record's task names the entry of a stay that had not ended when the task
  was made, as far as the node was told. `TickedInv`: after a beat without errors
  every key that is due has its task. The clock of a record that a repeated
  transition set back tells of an earlier stay, so its stuck rules are excepted.

They hold for any declarations, calls, links, rules and conditions, any number of
records and events, any failed appends, repeated calls and restarts. Assumptions:
`DeclAssumption`, what the compiler checks (`semantic.go`: fields and links are named
once, a workflow governs an enum, a stuck rule names its entity); `IdAssumption`, ids
are minted once and a client's key is no rule's key; `BoundAssumption`, days of the
model are years of the numbers.

**`AccessProofs`.** `BusinessTimeIsCounted`, for any calendar, any length of minute,
day and week, and any two instants within the guard of the loop. The working ticks of
one day are an interval (`TicksOfDay`), of which a day loses less than a minute, and
nothing if it lies between the two instants (`DayCounts`); the loop adds the days up
(`MinutesAreCounted`, by a least counterexample), so only the first and the last day
lose. That the hours lie in the day is a hypothesis of the property: nothing in
`calendarFromRecord` checks it, and hours beyond midnight are counted on both days.

`OneVisibility`, for any definitions, actors, records, clock and condition of a caller,
under two hypotheses about the packs, which `MCAccess` evaluates on its own:

- `ScopesArePlain`. A read rule that the index narrows by is about no core entity
  ("packs do not grant permissions on core.* entities", `permissions.go:35`), negates
  nothing, and in every
  record it may be asked about, a scope term that holds means that the record has the
  actor's index key. The last excludes what the code gets wrong: an attribute that
  equals the *name* of a field the record lacks (a bare word that is no field stands for
  itself), and a money value compared with a number (the key of the one is a printed
  map). `access_negated` is a pack outside the hypothesis.
- `FilesAreDeclared`. What is stored as a file is so in an entity that keeps a file
  field in every definition.

The heart is that a condition that holds has its scope terms hold (`ScopesHold`). It is
about the parser, for texts of any length: what is read at all positions exists
(`ReadsExist`, from the back, since every reading advances), and by a least
counterexample every part that holds and is not cut off before an "=" covers its scope
terms (`Covered`): they are comparisons, never the middle of a list or of another
comparison (`ComparisonReads`), and without "not" and "or" every comparison of a text
that holds does (`AndIsGood`, `OrIsGood`, `UnaryIsGood`). `IndexInv` says that the keys of
an index are those of the records, whichever definition it was built under; it needs
that every write drops the index. With both, the bucket that is served holds every
permitted record (`CandidatesAreEnough`), hence also `PlainPacksOnlyNarrow`: the comment
that `access_negated` refutes is true of these packs. The other clauses: the groups of a
tile partition what is counted (`GroupsAddUp`), what `can` reads the metadata shows, and
computed fields only add numbers (`ComputedAdds`), so a file that is read is stored.
Assumption: `AccessAssumption`, the first records are finitely many and of known
entities, fields and conditions are sequences.

`ParserIsTheGrammar`, for texts of any length and tokens of any kind, in every context
(`ParserReadsTheGrammar`): the trees the parser makes of a text are those the grammar
derives, so a text it refuses has none. Both sides are recursive functions, and both
are shown to be there before anything is said of them (`ReadsExist`, `LanguageExists`,
by the rank of a span and its kind). The parser goes from the front and repeats to the
right, the grammar joins from the left, so neither inclusion is inductive as it stands:

- *What is read is derived* (`ReadsAreDerived`, positions from the back). What is read
  at a position behind an "and" or "or" also goes on with any chain that is derived
  before the word (`GoesOn`).
- *What is derived is read* (`TreesAreRead`, positions from the back and, for chains
  and lists, spans from the front). A tree is read where what follows does not go on
  with it (`Follows`), and a chain that more of the same word follows is read in front
  of whatever is read behind the word (`NodesRead`). That nothing else can follow a
  tree of its kind is where keywords as operands could have gone wrong.

Lists have their own pair (`ListsFit`, `ListsAreRead`), for a comma is optional.

**Only model-checked.** Liveness (`EveryCallReturns`, `LockIsReleased`,
`LeasesRunOut`) is outside the prover's reach, as is ENABLED. Every invariant and every
action property of a passing run has a theorem. The runs that expect a violation
(section 5) are counterexamples, which TLC finds. `OnlyGrows` is proved and not run.
That `replay` in `Workflow` is the fold of the whole journal is by construction of
`Stored`, which folds each event as it is stored.

## 5. Findings

1. *A repeated call is not safe* (`workflow_retry`). The store deduplicates by
   key and answers with the first event; `Act` and `Update` change the projection
   again regardless. A repeated `act` on a transition that needs a signature
   leaves a second pending approval that the journal does not have. In `Documents`
   the same defect writes values and clocks that no event says (`Repeats`): code `b`
   under a key, then `c`, then the key again leaves `b` in memory, another record may
   take `c`, and after a restart both have it.
2. *A waiter sleeps beside an open task* (`tasks_wait`). A task created between
   the look and the wait for the signal wakes nobody; nor does an expired lease.
   `WakesReachAll` shows these are the only cases.
3. *Facts from before the task* (`task_reports`). The number beside a progress
   report counts the worker's events since ever, not since it took the task.
4. *Candidates that are no superset* (`access_negated`). The index narrows a query
   by the first `field = $me...` of a read rule, also under a `not`; a query then
   misses records that the same actor may open one by one.

Exceptions built into properties that hold, each because the code is so:

- an auto transition that requires an approval is fired without one
  (`MovesAreSigned`). `auto` and `requires approval(Role)` may be declared together
  (`parser_blocks.go:82-127`, `semantic_blocks.go:58-60`), and `runAutoTransitions`
  (`workflow.go:285-297`) looks at the guard alone, although "the transition does not
  exist without the signature" (`DSL-SPEC-v0.md:67`, `workflow.go:15`). One of the two
  auto transitions of `MCApprovals` is such;
- a proposal may take an option of an `array[enum]` away and pass as additive
  (`proposals.go:235` compares the values of enums only), although "deleting an enum
  value" is forbidden (`DSL-SPEC-v0.md:139`): stored records that have it are no longer
  legal (`DataStaysLegal`). The pack "less" of `MCProposals` does;
- a decision may be taken twice, and a completed task reopened, when the first
  answer was lost (`unheard`);
- records whose last change crashed, dropped an error or met the hop bound may be
  left unsettled and without their tasks (`rough`, `Settled`, `WorkIsQueued`): a
  restart settles nothing. Moves are as declared, and the projection is the fold,
  while memory is not skewed (`skew`, `OnlyDeclaredMoves`, `ReplayRestores`);
- a waiter sleeps through a task created between its look and its wait, and through
  one that an expiry returned (`missed`, `WakesReachAll`);
- a redeemed code whose mark was lost in a crash or a failed append, between the
  registration and the mark (`invites.go:67`), lets another in: `InviteSpent` is about
  marked codes;
- agreement of the reads needs plain scopes and declared files (`OneVisibility`);
- what a repeated keyed call wrote, two imported records against each other, and
  the references of imported records (`ReplayRestores`, `UniqueAmongHeard`,
  `EveryPeriodOnce` of `Documents`).

Seen while modelling, at no run of their own:

- proposals: the documents call a rollback a reverse proposal (`DSL-SPEC-v0.md:140`,
  `HLD.md:114`), which `validateAdditive` refuses; a crash between the two appends
  of a grant leaves it "approved" for ever, and a stale proposal can be neither
  granted nor rejected (`proposals.go:128`); the plan shows "no structural changes"
  for a removed workflow or an appended enum value; after a removed workflow
  `Decide` on an old approval dereferences none; `ApplyAdditive` has no caller
  outside the tests;
- identity: `EnsureActor` issues a dead token for a disabled actor, and may bring
  back a key that was rotated away by another process;
- links: "one undirected fact stored once" (`links.go:11`) does not hold for a link
  whose two names are the same; a self-link is seen from one side; a link event may
  name a record under another entity's name (`semantic.go:33`); two links that share a
  forward name on different entities pass the compiler, and `findLinkDecl` reads the
  second one's facts by the first declaration, so that neither record sees them
  (`links.go`, against "both records see it under their respective name",
  `links.go:11`), which is why `LinksReadBack` asks for a forward name of its own;
- validation: an update can blank a required field and edit a serial number, which
  `meta.go:132` calls never editable; a transition is not checked against `unique` or
  `unique(...)` over the workflow field (`workflow.go`, `applyTransition`), so it may
  make two records the same; defaults are not type-checked; a serial format
  without `{seq}` always gives 1; a keyed create repeated after a lost answer may
  count a number anew, which stands in memory until a restart and may be given twice;
- access: the index misses a permitted record also where it lacks the field of a scope
  term and the actor's attribute is that field's name, and where a money value is
  compared with a numeric attribute (`index.go:91`, the key prints the map); files in
  `array[file]` fields cannot be opened; update rights that depend on the row show as not
  writable in the metadata; conditions of rules see stored values where masks see
  computed ones; `<` and `>` between texts of dates are never true; a quoted "true",
  "null" or "5" reads like the bare word; business time stops after 4000 days;
- rules: a rule is identified by its file and line, so a proposal that shifts lines
  lets it fire again the same day; a comment's id changes on restart, its place not.

## 6. Plan

Done: the journal and its PostgreSQL store; the engine's records, workflow,
approvals, task pool, proposals, access, calendars, validation, documents, links,
comments and heartbeat rules; the identity registry; the semantic analysis.

Left, in order of importance:

1. `checkFieldWrites` and the journal view, two more readers of `can`;
2. the lexer and the arithmetic of computed fields;
3. `compose.go`.

Not modelled, and why. The lexer and the parser of the DSL turn text into the packs
that `Compiler` starts from: sequential code over characters, which tests reach
well. `compose.go` writes that text. The HTTP API, the web UI and the MCP server
translate requests into the calls modelled here; the one state of their own, the
sliding rate window, belongs to one process and guards no other state. Workers and
the SDK are clients: their calls are the models' unconstrained actors. Blob
storage, logging and the formatting of dates and money change nothing. Guards of
transitions over other records or the clock are left out of `Workflow`, where a guard
is a set of data. The race between a handler's caller encoding a returned record
and later writes to it is below the level of these modules.
