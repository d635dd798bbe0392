# ssh-exam: a verification development

ssh-exam puts an exam between a public key and a shell. OpenSSH asks a small
program for the authorized keys of an account; whoever has not passed the
published test gets a forced command that runs a terminal exam, whoever has
passed gets the shell. A web administration and a command line maintain people,
keys, question banks and tests.

This directory holds TLA+ modules of that program, TLC configurations that check
them on small instances, and TLAPS proofs for all values of the constants. Paths
below are relative to the repository (`src/db.rs` is the Rust file).

    tlc -config gate_attempts.cfg MCExamGate      # one run
    tlapm ExamGate_proofs.tla                     # one set of proofs

## 1. The system

Several processes share one SQLite file and one directory of bank files, and
nothing else coordinates them:

| process | lives | touches |
|---|---|---|
| `ssh-exam-admin serve` (web administration) | long | database, bank files; in memory: `quiz_lock`, the login throttle, the authentication file as it was at the start |
| other `ssh-exam-admin` commands | one call | database, bank files, authentication file |
| `ssh-exam-key-policy`, run by sshd | one query | database, read-only |
| `ssh-exam-tui`, the forced command | minutes | database: several reads, then at most one write |
| `scripts/ssh-exam.sh` | one call | a pid file and the server process |

Each database call (`src/db.rs`) opens a connection of its own and is one
statement or one IMMEDIATE transaction: it is atomic, and nothing holds from one
call to the next. Between two calls of one program anything may have happened.

| component | state | operations | what makes it correct |
|---|---|---|---|
| Gate database (`src/db.rs`, `migrations/`) | people, keys, accounts, tests, publications, the active one, attempts, passes | create, update, enable, delete people; add, toggle, remove keys; create, delete, publish, activate tests; `record_attempt`; `reset_exam` | attempt limits hold under concurrent sessions; a pass is one stored passing attempt or comes from an earlier version; nothing dangles; a pass is lost only by its reset or with its person |
| Key policy (`src/policy.rs`, `src/bin/ssh-exam-key-policy.rs`) | none | one query: shell, forced exam or nothing | a shell only for a pass at the revision active now |
| Exam TUI (`src/bin/ssh-exam-tui.rs`) | identity, questions, selection, answers | load identity, show, select, enter, record | what was read at the start is not trusted at the end; an answer is a choice that was on screen |
| Question banks (`src/quiz.rs`) | one JSON file per bank, temporary files | import, edit, delete, list, compose, prepare, score | a name leads to a whole bank whatever fails; files stay valid; a paper asks each question with its own right answer; the mark agrees with the percentage shown |
| Tests and publication (`src/web.rs`, `src/db.rs`) | saved tests, immutable snapshots; `quiz_lock` | create, update, delete, publish, activate | a saved test keeps its banks; what is published is the current draft |
| Web people and keys (`src/web.rs`) | none | one database call per request | that of the database |
| Web login (`src/web.rs`, `src/config.rs`) | throttle; the password hash and the secret of the authentication file; cookies and forms in the browser | login, logout, authorisation of every change, notices, `set-admin-password` | a lockout comes, lasts, and ends; a change needs a session of the password that runs, from a form of that session |
| Upgrade (`ensure_legacy_test` in `src/db.rs`, `src/bin/ssh-exam-admin.rs`) | `persons.passed_at` of earlier versions | run by `init`, `migrate`, `serve` | no earlier pass is lost, none comes back |
| Schema migrations (`Db::initialize`, `migrations/`) | schema and rows | once per version | every upgrade goes through; accounts go to the right person |
| Service script (`scripts/ssh-exam.sh`) | pid file | start, stop, restart, status | one server, and it is the managed one |
| Configuration, key parsing, installers, isolated sshd, pages | none that changes | | |

What is hard here: sessions that stay open for minutes while the administration
changes people, keys and the active revision under them; handlers made of several
reads of files and rows; a lock that only one of the processes knows; a start-up
procedure of several transactions that may be cut anywhere and run twice; a
throttle that counts under a time that is already past; files replaced and removed
while others list them and the power may fail; a browser whose tabs send cookies that
other answers have changed meanwhile. `PROJECT.json` lists each
hazard at its line with the properties that watch it.

## 2. The modules

One module per part, an `MC` module and `.cfg` files that instantiate it, and a
`_proofs` module. Definitions whose comment starts with `Slip:` are forms a
definition might have had if the code had a bug (a dropped condition, a guard
forgotten); no specification uses them. Putting one in the place of the
definition after it must make TLC refute a property: they show that the property
depends on the code. `PROJECT.json` pairs them ("mutants") and maps every other
definition to its lines ("map").

### ExamGate: database, key policy, sessions, administration, starts

The state is the tables: `people`, `personOn`, `account` are `persons`; `owner`,
`keyOn` are `ssh_keys`; `tests`, `pubs`, `active` are the three tables of
migration 0004; `passes`, `failed`, `won` are `exam_passes` and the counts of
`exam_attempts`; `passedAt` is who has a `persons.passed_at`. Two are no columns:
`human`, for whom a row was created, which no update changes, and `carried`, which of
the passes came from `passedAt`. Only properties read `carried`; `human` is shown to a
session and compared by properties. Person ids are SQLite's row ids, the largest present plus one, so the
id of the last row is given out again after it is deleted; the model keeps that.

`tui[s]` is one SSH connection. `Connect` is the policy's query; then come the
reads of the TUI one by one (`ResolvePolicy`, `CountAttempts`, `BeginExam`), and
`RecordAttempt`, the transaction with its own checks. `Close` is every early
return and every lost connection. Every administration operation is an action that
may come between any two of them. An operation that returns an error changes
nothing, so it is no step.

`start[q]` is a process of `init`, `migrate` or `serve` in `ensure_legacy_test`, call by
call: look for a publication, list and make the legacy test, publish it, read back what
is active, carry the passes of `passedAt` to that, clear `passedAt`. It may be killed at
any point, and everything else may come between. `Carry` inserts rows of `exam_passes`
without an attempt, which is how a database that was upgraded differs from one that was
not: `src/db.rs:1578` is the test that says such a pass counts. `Init` is whatever a
version before the fourth may have left: any people, accounts, keys and `passed_at`, and
no tests; an empty database is one of these.

The questions are left to ExamPaper, the drafts to Publishing: here publishing a
test yields some revision of that test, and an exam ends in a pass or a failure.

### Gate: what ExamGate promises

The abstract specification: which revision is active, how many attempts each person
has made at each revision, who has passed what, and who sits in a shell. There are no
tables, keys, accounts or drafts. `KeepsPromise` in ExamGate is the refinement:
`used` is the sum of the two counts of `exam_attempts`, `passed` is `exam_passes`,
`owed` is `passedAt`, `admitted` is the person of a connection that ended in a shell.
Everything else that the administration, the sessions and the starts do is a stuttering
step. In particular `delete_test`, which deletes attempts and passes, must be one.

A pass comes with an attempt (`Attempt`) or to people who had passed before there were
revisions (`Recognise`), and that they had is forgotten only when each of them has a pass
(`Settle`). Gate does not say of which revision: that it should be one of the legacy test
is what finding 4 refutes. Nor does it say that they are ever recognised (finding 3).

### Publishing: banks, tests, `quiz_lock`, and the commands beside it

A request is a record with a control point and what it has read so far; each step
is one access to a file or the database. Handlers of the web administration
(`WebJobs`) take `quiz_lock` first and give it back when they return or fail
(`Fail` may happen at every point). Commands of `ssh-exam-admin` (`CliJobs`) take
the same steps without the lock, because the lock is a mutex of the server
process. `delete_test` takes no lock in the server either (`DeleteTest`).
`Compose` loads the banks one by one, in any order, which covers the order the
code has. `RereadTest` compares exactly what `publish_test` in `src/db.rs`
compares: all of the test but its bank ids. Whether a bank is valid is left to
ExamPaper: here a content is an opaque value.

### Catalogue: what Publishing promises

The abstract specification: bank files, saved tests, what was published last, and what
is asked of the server by requests that have no answer yet. An import, an edit, a
deletion, a save or a publication is one step, taken between the request and its answer
on the banks and tests of that moment; or the request is refused. There is no lock and
nothing is read ahead. `ActsAtOnce` in Publishing is the refinement: `Asked` keeps of
each request what it is to do (`Task`) and forgets how far it has come and what it has
read. A request acts at its `Rename`, `Unlink`, `StoreTest` or `InsertPublication`, all
before it are stutters, and its answer is part of that step; `DeleteTest` is a step of
its own, since it takes no lock. What an edit is made from is not in Catalogue, whose
`Save` may write any content: `NoLostEdit` says it, and needs what a handler has read.

### BankFiles and BankStore: how a bank gets to disk

BankFiles has one action per file operation of `Quiz::save_atomic` (open, write, sync,
rename, sync of the directory, removal after an error), of the probe of
`ensure_writable`, of `QuizCatalog::delete` and of `QuizCatalog::discover`. `dir` is
what a name leads to, `disk` what the name of a bank leads to if the power fails at
this moment: the kernel may write a name back at any time (`WriteBack`), must when the
directory is synced, and cuts short what was not synced itself (`Torn`). Writers may
be killed and get errors at every step; the one error left out is that of the unlink of
a file the same process has just made. `turn`, `diskTurn` and `settled` count changes
of a name so that "what was saved stays saved" can be said; `broken` remembers that
something was killed. No step but the bounds reads them. The web administration is one
writer, because `quiz_lock` lets one of its handlers write at a time, and every
`ssh-exam-admin` command is another.

BankStore is what readers may rely on: a name leads to nothing or to one saved bank,
`Save` and `Delete` are one step, a power failure takes every name to what was kept
last. `KeepsStore` is the refinement. Publishing takes exactly these steps: its
`Rename` is `Save`, its `Unlink` is `Delete`.

### AdminSession: who may change anything

One browser with several tabs, the cookies it holds, the server and the
authentication file. A request carries the cookies of the moment it is sent
(`Carries`); what the answer sets counts when it arrives (`Receive`), so that answers
of several tabs overtake each other. A signature is modelled by the secret that made
it: `ValidSession` holds exactly if `verify_value` would accept the value and its time
is not over. `server` is what `WebState::new_with_catalog` loaded and never reads
again; `SetAdminPassword` is the rename in `write_admin_auth` by another process, and
counts from the next `Start`. `Authorize` and the operation after it are two steps,
with everything else between them; the operation itself is in ExamGate and Publishing
and only succeeds or fails here. `create_person` reads the session once more after a
failure and expects to find it: `Panic` is the case in which it does not. The
`password` in a session and `seen` are history for the properties.

### LegacySeed: the first start after an upgrade

The steps of `ensure_legacy_test`, for processes that may start together and end
anywhere, with the legacy bank edited, other tests created and published, and
persons reset between. `owed` is who had passed before and has not been reset
since: a variable for the properties, no step reads it.

ExamGate takes the same steps and abstracts the content of the legacy bank: there,
publishing it yields some revision of the legacy test. What LegacySeed adds is the bank
file, the comparison of its settings with the saved test (`Compare`), and with them the
questions which revision the passes go to and whether a start can succeed; what ExamGate
adds is people who are created and deleted, keys, sessions and shells around the start.

### Upgrade: from any earlier version to that start

Extends LegacySeed. `UpgradeInit` is a database of any version with whatever rows that
version lets in: before version 3 several bindings for one person, key and account,
since a NULL key is distinct from every other for `UNIQUE`. `Initialize` is the one
transaction of `Db::initialize`: migration 0003 keeps one row of each scope
(`Unified`, the ORDER BY is `Before`), migration 0005 gives accounts (`Assigned`), and
either may fail at its unique index, which rolls all of it back (`Refuse`). Only when
the version is current do the steps of LegacySeed follow.

### LoginThrottle: failed logins

`LoginThrottle::is_blocked` and `record` with the handler's gap between them: the
password is verified on another thread without the mutex, and the outcome is
recorded under the time read before. `login[r]` is that time. `Slow` bounds how
long a verification takes. The clock does not go back.

### ExamPaper: from a bank to a mark

A bank is edited (`Save` validates, as `Quiz::update` does before it writes), an
exam draws a paper from what the bank holds by then, the candidate selects and
enters, and the last answer is scored. Shuffles are all the orders they may give.
While no exam is open the paper is empty.
Texts are model values; `Trim` says which of them differ in blanks only. Choices
are numbered from 1 here and from 0 in the code, and `None` is an absent limit.

### How they fit

ExamGate's `PublishTest` is the last step of Publishing (`InsertPublication`) with
the draft abstracted; its `BeginExam` and `RecordAttempt` stand for a whole
behaviour of ExamPaper between `BeginExam` and `EnterLast`. Publishing's files are
BankStore, which BankFiles implements. Every web request of ExamGate and Publishing
goes through `Authorize` and an answer of AdminSession. LegacySeed's `Publish` and
ExamGate's `PublishLegacy` are that transaction again, in the start-up order; what follows an upgrade is
LegacySeed (`UpgradeIsSeed`), so its theorems hold from the old database on. Apart
from Upgrade the modules are not composed into one: what crosses a border is one
atomic step each time, and its guard and effect are in the module whose properties
need them.

## 3. The runs

All runs check deadlock. Sets of symmetric values are used only in runs without
liveness.

| run | what it shows | bounds |
|---|---|---|
| `gate_attempts` | two sessions and all administration on two row ids: the limit holds, no attempt after a pass, a free id carries nothing, an account leads to one person | 2 row ids, 1 account, 1 key, 1 revision with 2 attempts, 2 sessions, no start |
| `gate_history` | a start that carries the passes of an earlier version, and publish, reactivate, reset and delete around an exam: a pass is one attempt or was carried, nothing dangles, passes survive, a shell needs a pass at the active revision, and all of it implements Gate | 1 row id, 2 tests, one of them the legacy test, 3 revisions, 1 attempt each, 1 session, 1 start that may be killed and run again |
| `gate_reused_id` | **violated**, see finding 1 | 1 row id, 2 humans, 1 start |
| `publishing_web` | two web requests that may fail at every step, on shared banks and a shared test: every request acts at once or not at all (it implements Catalogue), no bank lost, current draft published, no edit lost, the lock always comes back | 2 banks, one of them the legacy bank, 2 contents, 1 test, 1 settings value, 2 requests |
| `publishing_cli_revision` | **violated**, finding 2 | 1 web request, 1 command |
| `bank_files` | saves, deletions and probes of two processes beside a listing, with errors, kills and power failures: no partial bank, nothing saved is lost, no temporary file stays, a listing fails only over a deleted bank, and readers see BankStore | 2 banks, 2 contents, 2 temporary names, 2 writers, 1 listing; the legacy name changes once, the other twice |
| `admin_session` | overlapping requests of two tabs through logins, logouts, a new password, restarts and the end of sessions: sessions prove the password that runs, changes come from a form of their session, a notice is shown once, an authorized request is answered | 2 tabs, 2 passwords, lifetimes of 1 on a clock up to 2, 2 secrets, 2 sessions, 2 notices |
| `seed_starts` | a database of any version, two starts, killed anywhere: every upgrade goes through, accounts follow the bindings, no earlier pass is lost, none comes back | 2 processes, 2 persons, 2 accounts, 1 scope, 1 own test, 2 question sets, 1 settings value |
| `seed_killed`, `seed_cli` | **violated**, findings 3 and 4 | 1 process, 2 persons |
| `throttle` | a lockout comes, holds and ends | 3 logins, limit 3, window 3, block 4, verification up to 2, `MaxClock` 14 |
| `exam_paper` | every paper, every way to answer it, its mark | 2 questions, up to 3 choices, threshold 60, shuffles on and off |

Why the bounds are enough. Each is the least at which the case happens: two
sessions so that two attempts race, two attempts so that the limit is neither the
first nor unreachable (one in `gate_history`, where nobody races for it), two row ids so
that ids are given out again below another, a start beside one session so that a pass is
carried while the exam is open, and again after it was killed, three revisions of two tests so that one may be left, replaced by another of the
same test and come back; two requests because the lock lets one in and delays
one, two banks so that a compose is interrupted between them; two writers so that
they may draw one temporary name, two changes of a bank so that a power failure can
take it back past a save that was synced, and a listing beside them; two tabs so that
the answer to one comes between the request and the answer of the other, two secrets
for a password before and one after, two sessions so that a form of the first meets
the cookie of the second, a clock that outlasts a lifetime; two persons and two
accounts so that an account is shared or a person has two, two question sets so that two
starts publish two revisions (with one settings value no start is refused for its
settings, which `LegacySeed_proofs` covers), one scope since rows of
different scopes never meet in migration 0003; three logins so that an old failure, a
new one and the one that blocks are under way together, a clock that covers three
windows and blocks; a bank of two questions with different numbers of choices so that
a selection may not fit the next one, and a question whose choices differ in a blank
only, which validation must refuse. A mark out of two is a whole percentage: that
rounding is right for every total is `PassedIffPercentHolds`, not the run.

The bounds of the model itself are `MaxPerson` (in `NextRowId`, by the range of ids),
`MaxClock` (in `Tick`), `MaxTurn` (changes of one name, in `Save`, `Rename` and
`Delete` of BankFiles), `MaxSecret`, `MaxSession` and `MaxNotice` (in
`SetAdminPassword`, `LogIn` and `Change` of AdminSession), `MaxQuestions` and
`MaxChoices` (200 and 20 in the code; in `Valid` and `ValidQuestion`). Attempts need
no bound: the limit is one. What these bounds hide is what the proofs are for.

The constants of `throttle` keep the code's order (block not shorter than window,
the process started later than one window after 1970) and not its values.

**Fairness.** Only `publishing_web` states any (`FairSpec`): `WF_vars(Step(j))` for each
request, that is, a request that has begun goes on until it returns. The code
gives it: each step is a blocking call on a thread the runtime schedules, with no
wait but that for the mutex. Nobody is made to start a request, and no fairness is
asked among requests that wait for the lock (`LockReleased` is about the holder).

## 4. Findings

Each is a run with the outcome "violation"; its trace is what the program does.

1. **An attempt is stored for another person** (`gate_reused_id`,
   `src/db.rs:489`). `record_attempt` looks for the person by row id; the id of a
   person who is deleted while the exam is open may be given to the next. That is the
   only cause (`NotReusedBelongsToSitter`): a deletion alone does no harm.
2. **A revision names other banks than those whose questions it holds**
   (`publishing_cli_revision`, `src/db.rs:733`). `publish_test` compares the
   settings it is given with the row, but not the bank ids. The only cause is a save of
   that test between the two reads of its publication (`UntouchedNamesItsBanks`, for any
   requests and commands).
3. **Earlier passes are not carried** (`seed_killed`, `src/db.rs:899`). When
   `ensure_legacy_test` ends after it published, the next start finds a publication
   and returns at once. So does a start that looks while another is between the two, and
   one that comes after a test was published by hand. There is no fourth way
   (`UndisturbedStartCarries`).
4. **Earlier passes become passes of another test** (`seed_cli`,
   `src/db.rs:783`). `publish_test` returns what is active when it reads it back. The
   only cause is another test published between the two (`NoneBetweenCarriedToLegacy`).

All four need two things to come together in a small window; under one operator at
a time, and with starts that are not cut, the runs that pass apply.

More behaviours are reachable in the models and are not findings, because no document
speaks of them or, for the first, because it has the cause of finding 2. With
`ssh-exam-admin create-test` beside `delete_bank` a bank can go although a saved test
uses it, against "a question bank referenced by any saved test cannot be removed"
(`README.md:242`), since the check and the unlink are under a lock that the command does
not take: with one request in `WebJobs`, one command in `CliJobs` and `UsedBankKept` as
the only property of `publishing_web.cfg`, TLC shows it. No other command can do that
(`NoCommandCreatesKeepsBanks`), and none but an import can lose an edit or replace a
bank (`NoCommandImportsKeepsEdits`). A start may make the legacy
test active over a test published a moment before, and fails for as long as the settings
in the legacy bank differ from those of the saved legacy test and nothing is published
(LegacySeed). A deletion, or a save whose sync of the directory failed, may be undone by
a power failure (BankFiles). A page asked for before a change clears the notice of that
change unseen, and a person who cannot be created at the very end of a session leaves
the browser without an answer (AdminSession).

## 5. The proofs

The proofs hold for every value of the constants that satisfies the assumptions the
modules declare: `None` is distinct from the values it stands beside; the legacy test is a
test; a revision is of one test and allows at least one attempt (`Quiz::validate` requires it); the legacy bank
is a bank, and no temporary name is the name of a bank; requests of the server and
commands are different; lifetimes and bounds are natural numbers; versions 1 and 2 know
one access mode beside the shell and the current version is 5; a question's choices are
a sequence; the throttle's constants are positive, and its block is not shorter than its
window (both are fixed in `src/web.rs`), and the server starts later than one window
after 1970. TLC evaluates the assumptions of a module in its runs.

**ExamGate_proofs.** `TypeCorrect` first: a step of the administration keeps the
columns typed (`AdministerType`), a step of a connection or of a start keeps its record
well-formed (`ConnectionType`, `SeedType`). Then `GateSafety`: `TypeOK /\ Safety` is
inductive, from the database of any earlier version. What a step may do to the records
of one person at one revision is said once (`RecordsStep`): keep them, clear them all,
record an attempt where there is no pass (`RecordAttemptEffect`), or bring a pass where
there is none, to somebody in `passedAt` and without an attempt (`SeedRecords`).
`AttemptLimit` and `PassIsOneAttempt` follow from that together. `FreeIdIsClean` needs
`RecordAttempt` to look for the row inside its transaction, since the session may hold
the id of a person who is gone, and `Carry` to find people in `persons`.
`RevisionsPublished` needs all its parts at once: an exam in progress, or a start that
has read back what it published, keeps its revision published because publications are
never deleted, and `delete_test` cannot erase an attempt because its test would have a
publication. From the invariant follow `NoAttemptAfterPass`, `PassKept` and
`ShellNeedsCurrentPass`, the last joining the policy's query with `PassIsOneAttempt`: a
shell stands for an attempt that is stored, or for a pass that a start has carried to
the revision active at that moment, and not only for a row in `exam_passes`.

`GateImplemented` is the refinement. A step of the administration is `Reset`, `Forget`,
`Activate` or a stutter (`AdministerPromised`), where `delete_test` is a stutter by
`RevisionsPublished`: what has attempts or passes is published, and a test with a
publication is not deleted. A step of a connection is `Admit`, `Attempt`, `Leave` or a
stutter (`ConnectionPromised`), where the limit and the lack of an earlier pass come from
the checks inside the transaction, and that something has been published from
`PublishedActive`. A step of a start is `Activate`, `Recognise`, `Settle` or a stutter
(`SeedPromised`). `Settle` is where an invariant is needed that looks across the two
transactions of `Carry` and `Clear`: whoever is still in `passedAt` when a start is about
to clear it has the pass (`CarriedFirst`), because what takes a pass away in between, a
reset or a deletion, takes the person out of `passedAt` too. `PromiseIsEnough` goes the
other way: from Gate alone follow the attempt limit, that no attempt is added to a pass,
and that a new pass comes with an attempt or to somebody who had passed an earlier
version's exam (`Earned`).

`AttemptBelongsToSitter` is false, and `NotReusedBelongsToSitter` says when it holds: as
long as `CreatePerson` never gives out the row id of an exam that is open (`NotReused`,
an action constraint). The invariant is `SitterInv`: a row with such an id is still the
row of whoever opened the connection. Deleting the row keeps that, since the id then
has no row at all.

**Publishing_proofs.** `PublishingTypes` contains mutual exclusion: a web request is
inside exactly when it holds the lock. With `CliJobs = {}` the invariant is `WebInv`:
saved tests have their banks, the last revision names its banks, and `LockedView`, which
is in the proofs only: whatever a handler has read is still true. The two first are not
inductive alone: `StoreTest` would store the ids of banks that went away since `Compose`,
and `InsertPublication` the ids of a test that changed since. What a handler knows is
kept by the others because they are not inside (`Alone`, `OthersKeepTheirView`); the
exception is `delete_test`, which takes no lock, and `Progress` says what is left then:
the test is as it was read, or it is gone and the foreign key stops the insert.
`UsedBankKept` and `PublishesCurrentDraft` follow. That `CliJobs = {}` is needed for
these is what `publishing_cli_revision` shows.

`ActsAtOnceHolds` is the refinement of Catalogue. What each step does to the request
that takes it is said once (`AcquireEffect`, `CheckEffect`, `ComposeEffect`,
`GetEffect`, `RereadEffect`: it moves on and asks for the same; `ReturnEffect`: it asks
for nothing any more), so that most steps are stutters. At the four that are not
(`StepAtOnce`) the invariant turns what was read into what is: an import finds no file,
a deletion no test that uses the bank, a save all of its banks, a publication the test
and the files as it composed them. `IdleInv` is needed for a request that begins: one
that is not under way has nothing left in it. `CatalogueIsEnough` goes the other way:
what the run checks of banks, tests and publications follows from Catalogue alone.

With commands beside the server the theorems say exactly which command matters, and
need invariants that do without `CliJobs = {}`. `NoCommandImportsKeepsEdits`: the file
that `ImportCheck` or `EditLoad` looked at is as they found it until the rename
(`EveryoneAsSeen`), since only handlers change files then, and only the one that holds
the lock; for `CliJobs = {}` it gives `ImportNeverReplacesHolds` and `NoLostEditHolds`.
`NoCommandCreatesKeepsBanks`: whoever is about to delete a bank knows it unused, whoever
is about to save a test knows its banks there; banks of commands only come. `UntouchedNamesItsBanks` needs no lock at all: a publication under way composes
the banks its test has, for as long as nobody saves the test in between (`Untouched`).
The first two hypotheses say which commands run, the third which step does not come
between two others; TLC refutes each conclusion without its hypothesis.

**BankFiles_proofs.** A name of a bank leads to nothing or to a whole, synced bank, in
the directory and on disk (`NamesSaved`). That is not inductive alone: `Rename` would
put the file of another writer under the name. So the invariant says what each writer
has in its temporary file by now (`Prepared`), that no two share one (`OneWriter`, kept
by `create_new` because a file that is written is in the directory, `WrittenThere`),
and that a temporary file without a writer is left by something killed
(`NoLeftovers`). `NeverPartial` and `TemporariesOwned` follow. `SavedStaysSaved` is its
own induction (`TurnsOrdered`): what is settled is never ahead of the disk, the disk
never ahead of the directory. `ListingFailsOnlyOverDeleted` needs that a listing holds
only names of banks (`BanksListed`) and `NamesSaved`. `StoreImplemented` maps `Rename`
to `Save`, the syncs and `WriteBack` to `Settle`, and needs `NamesSaved` for the power
failure: nothing on disk is torn.

**AdminSession_proofs.** `SessionsProven`: a session in a cookie, in a request or in an
answer under way was issued under the secret of the file or of the process and for the
password that stands beside it, or under an older secret, which no process loads again
(`FileAhead`: the file's secret is never behind the process's). Both are needed
together: `Start` loads the file, and a session of the process before the start may be
one of the same secret. `StillAuthorized` carries what `authorize_mutation` has checked
to the end of the request: the process it was checked by still runs, or the request is
gone with it. `ChangesAreAuthorized` and `AnsweredUnlessExpired` follow. For
`NoticeOnce` the invariant `NoticeInv` says where a notice can be: numbers are drawn in
order (`Issued`), an answer that shows a notice also clears the cookie (`Clears`), and
an answer that sets one brings a number nobody has seen (`Fresh`).

**Upgrade_proofs.** `UpgradeSucceeds`: `Unified` leaves one row per scope, because of
two rows of one scope that differ one comes before the other (`UnifiedOnePerScope`), and
`Assigned` gives an account to one person only (`AssignedOneOwner`). `AccountsCertain`
joins the two migrations: 0003 keeps an enabled row of every scope that has one
(`UnifiedKeepsEnabled`), so 0005 counts what the bindings said before. `UpgradeIsSeed`:
`Initialize` and `Refuse` are stutters of LegacySeed, so that `PassesSurviveUpgrade` and
`ResetSurvivesUpgrade` are its theorems.

**LegacySeed_proofs.** The invariant is `SeedInv`: a pass that is owed is in
`passed_at` or in `exam_passes`; a process about to clear has carried everything
still in `passed_at` (`Carried`); nobody is in `passed_at` who is not owed. The
second part makes `Clear` safe beside any number of other processes, the third
makes `ResetIsFinal` hold.

The two properties that `seed_killed` and `seed_cli` refute are proved under what those
traces break. `UndisturbedStartCarries`: while something is active, either `passed_at`
is empty or some process is between its publication and its `Clear` (`CarryInv`), if no
process is killed there, none looks for a publication while another is there, and the
first test published is the legacy one (`Undisturbed`); TLC finds a trace without each
of the three. `NoneBetweenCarriedToLegacy`: if no test of one's own is published while
a process is between its INSERT and its read-back (`NoneBetween`), the active one is
still of the legacy test there (`LegacyInv`).

**LoginThrottle_proofs.** `BlockEnds`, `LimitCoversWindow`, and the window not
beginning in the future (`Past`) are inductive together. `Admit` opens a window
only when no block stands; a failure that reaches the limit sets a block that
outlasts the window it counts in, since `Block >= Window` and it was recorded at
most `Slow` late.

**ExamPaper_proofs.** `PassedIffPercentHolds`: the rounded percentage reaches the
threshold exactly if the exact comparison does (`QuotientReaches`, by the division
theorem), for any number of questions, and a paper is never empty because a valid
bank has a question and a limit of at least one (`PaperLength`). The others share the
invariant `ExamInv`: every edit leaves a quiz (`EditKeepsQuiz`), the paper is one of
its basis, and the answers so far are choices of their questions, since `Enter` puts
the selection back to the first choice. A question on a paper has the choices of one in
the bank and its right answer at the place where the text went
(`PresentedQuestion`): that this place is the only one is where `Trim` and `validate`
come in. The mark is the number of answers that meet it (`ScoreIsMark`).

**Types.** Each detailed module's `TypeOK` is proved as a theorem of its own. The runs
check it only where it says more than types: in ExamGate that flags and keys belong to
rows that exist and carried passes are passes, in LoginThrottle how late a failure is
recorded, in ExamPaper that what is saved is valid.

**Only model-checked.** `LockReleased`, since liveness under fairness and ENABLED
are beyond the prover.

## 6. What is not modelled

- **`scripts/ssh-exam.sh`**: a shell script outside the Rust program, for hosts
  without systemd: processes, signals and a pid file. Its races are listed under
  hazards.
- **Key row ids**: keys are named by fingerprint, so the check and the change by id
  of `toggle_key` and `remove_key` are one step.
- **Question index in a page**: an edit goes to the question at the index the page
  had; no version is in the form to compare with.
- **The authentication file that `init` makes** and the session lifetime in it: `init`
  is given once. Two at a time would both find no file, and the second would replace the
  password of the first; a lifetime edited while `set-admin-password` waits for its
  password is overwritten with the one it read before.
- **File modes, symbolic links and owners**: `save_atomic` and `load` refuse what is
  not a regular file; here every file is one.
- **The language cookie**, which changes wording only; the authorized-keys line;
  `hash-password`; the application configuration, read once; public-key parsing,
  templates, listings for the pages, time stamps and attempt details: formatting or
  parsing, read by nothing that decides.
- **Migrations 0001, 0002 and 0004**: they make tables and columns, and the other
  modules begin with them.
- **Installers, packaging, the isolated sshd**: run once by one operator.

Abstractions that matter for reading a result: a failed database call has no
effect, and a commit lasts (SQLite's transactions are trusted); a rename and an unlink
are atomic, what they lose in a power failure is in BankFiles; one server process
runs; no handler panics while it holds `quiz_lock` (a panic would poison the mutex, and
every later request that takes it would be refused until the server is started again);
the clock does not go back; a signature is made only with its secret, and
secrets, tokens and session ids are drawn anew; SHA-256 has no collisions, so a
revision is the content it hashes; a browser keeps to the cookies it is given.

## 7. Plan

1. Key row ids in ExamGate: ids of `ssh_keys` reused between the check and the change of
   a key, the same hazard as finding 1.
2. `ServiceControl`: start, stop, restart and status as processes over a pid file,
   with pids reused and the server dying at any point.
3. Publishing on BankStore instead of its own files: compositions with a power failure
   between a save and the row that names the bank.
