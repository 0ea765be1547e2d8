# A TLA+ model of the reconciliation service

LedgerGraph takes exports of a payment gateway, a bank, an invoicing system and a ledger,
decides which records belong to the same money, clears what is certain and queues the rest for
people. This directory models the service and checks it, in six parts that follow the data:

| Part | Modules | Abstract specification | Proofs |
|---|---|---|---|
| rows: what a row of a file becomes | `Numbers`, `Money`, `Rows`, `Normaliser` | | `Numbers_proofs`, `Normaliser_proofs` |
| uploads: how files become visible | `Imports` | `Intake` | `Imports_proofs` |
| engine: which records belong together | `Records`, `Rules`, `Reconcile` | `Attribution` | `Reconcile_proofs` |
| workflow: runs, verdicts, reset, restarts | `Store`, `Runs`, `Decisions`, `Workflow` | | `Workflow_proofs` |
| people: sessions and accounts | `Sessions`, `Accounts` | | `Sessions_proofs`, `Accounts_proofs` |
| investigations by a model | `Evidence` (over `Numbers`), `Investigation` | | `Investigation_proofs` |

`MC*` modules hold the constants' values for TLC. Paths below are relative to the repository, and
`PROJECT.json` has each definition's lines under `map`.

## 1. The system

| Component | Where | State it keeps | Operations | Talks to |
|---|---|---|---|---|
| Reconciliation engine | `packages/reconciliation` | per run: claimed ids, groups, cases, metrics | `execute`: settlements, invoices, standalone detectors, queue backstop | called by a background task, pure otherwise |
| Canonical records, money | `packages/domain` | none (frozen dataclasses) | validation, parsing, formatting, allocation | normalisers, engine |
| Runs | `backend/.../routers/runs.py` | the background task's locals | `start_run`, `_execute_run` | repository, engine |
| Verdicts | `routers/exceptions.py` | the request's locals | list, get, `decide`, investigate | repository, AI client |
| Repository | `store_postgres.py` (`store.py` in memory) | database rows; process dicts `_results`, `_decisions`, `_investigations` | one method per read or write | every router |
| Uploads | `routers/imports.py` | imports, source and canonical rows | upload with idempotency key and content hash | normalisers, repository |
| Normalisers | `packages/domain/.../normalizers`, `money.py`, `canonical.py` | none | one per dataset: check a row, build its record | uploads |
| Sessions, users | `auth.py`, `routers/auth.py`, `deps.py` | users, refresh tokens | register, login, refresh with rotation and reuse detection, logout, role change | repository, browser |
| Demo reset | `routers/admin.py` | none | truncate the working set, clear caches | repository |
| AI investigation | `packages/ai_investigation` | none | redact, ask, verify, retry | provider |
| Reports, matches, health | `routers/` | none | reads | repository |
| Frontend | `frontend/src` | cookies | pages; middleware refreshes the session | API |
| Synthetic data, evaluation | `data`, `tests/evaluation` | files | generate and score | engine |

How they interact. A POST to `/runs` reads the transactions, checks that no run is running, inserts
a queued row and an audit event, and schedules `_execute_run` in the same event loop. The task sets
the row to running, reads all transactions, executes the engine without an await, writes groups,
links, evidence, cases and metrics in one commit, keeps the result in `_results`, and sets the row
to completed; an exception inside its `try` sets it to failed. A verdict is checked against the
process's dicts, written to the case row together with an audit event, and kept in `_decisions`.

What is hard here:

* *Interleaving.* One process, one event loop: a handler is atomic between awaits. Every method of
  the Postgres repository that awaits the database is a session and a commit of its own, so two
  handlers interleave between any two of them. `get_case` and `get_decision` read process dicts and
  do not suspend. (The in-memory repository never suspends; its handlers are atomic and show a
  subset of these behaviours.)
* *Crash and restart.* The database survives, the dicts, the requests and the background tasks do
  not. Nothing at start-up looks at what was in progress.
* *Errors.* Any awaited call may raise. Which calls are inside the `try` of `_execute_run` decides
  what the row says afterwards.
* *Order.* A batch claims its records before the next batch looks for its own; `all_transactions`
  has no `ORDER BY`, so the order of the batches, and of equal rows, is the database's.
* *Agreement of independent decisions.* The gate clears a group on one type and one amount
  (`_classify`, `_amount_at_risk`); the cases of the same group come from `_raise_cases`, which
  looks again on its own. Nothing forces the two to agree.

What correctness means, per component:

| Component | Properties |
|---|---|
| Rows, money | a row is accepted exactly when it is sound; what is stored is what each column said, never rounded (*not kept beyond the digits of a Decimal*); the business date is the local one; shares add up; a written amount reads back |
| Uploads | a completed import is whole; files become visible whole and once; one key has one import; a refused duplicate is loaded (*not kept*) |
| Engine | what clears is money that arrived; no cleared group carries a case that should have held it; every review is in the queue, once; ids are unique; a credit pays one settlement |
| Runs | every accepted run ends; a completed run is whole; a deleted run does not come back; one run executes at a time (*not kept*) |
| Repository | rows belong to runs on record; the caches serve what was committed |
| Verdicts | a verdict is audited; a verdict stands (*for overlapping requests not kept*); a material case needs a controller (*not kept after a re-run*) |
| Sessions | a token is exchanged once, an ended session stays dead (*both but for a named window*); no step but a sign-out of it takes a session from an undisturbed browser; a refused page means a dead session (*not kept*); a dead one is dropped by the browser |
| Accounts | an administrator remains (*but for a named window*); one request opens an account; the trail tells each account |
| Investigations | a kept answer is grounded (*for figures that fit floats*); the loop ends, neither early nor late; the shown is recorded; pseudonyms are one to one; a figure is one of the engine's (*not kept*) |

`PROJECT.json` lists 40 hazards at their lines, each with the properties that would catch it going
wrong, or a note why none does. Not in the list: over Postgres `login` changes a copy of the user, so
the rehash and `last_login_at` are lost, on which nothing modelled depends; and that
`save_run(RUNNING)` is outside the `try` block, which section 2 treats under `TaskDies`.

## 2. The workflow

| Module | Models | State |
|---|---|---|
| `Store` | `store_postgres.py`, `db/schema.sql` | durable: `data` (completed imports), `runs` (status column), `rows` (`exception_cases`), `metrics` (`run_metrics`), `audit`; volatile: `results`, `decisions`; `minted`, the ids in the order of `queued_at` |
| `Runs` | `routers/runs.py` | `starts` (a POST per starter), `tasks` (a background task per run), each with the point it has reached |
| `Decisions` | `decide` in `routers/exceptions.py` | `deciders`, a request per user |
| `Workflow` | all of it, with `routers/admin.py` and process ends | `reset`, counters of resets and crashes |

A repository method is an operator of `Store` that says what its own variables become. A handler's
action is one such call together with the code up to the next await, so
`TaskCommit` and `TaskCache` are two actions: the commit of `save_run_result`, and the line after
the session is closed. What a call raises is an action of its own (`StartRaises`, `TaskRaises`,
`TaskDies`, `DecideRaises`); `FaultPoints` names the calls at which the database may raise and
`MaxFaults` bounds how often. The two cases of an exception in the task are kept apart: inside the
`try` (`TaskRaises`, then `TaskFail`), and outside it or in the handler (`TaskDies`).

Abstractions. The engine's answer is the constant `Found`: for the d-th population and each case,
nothing, an amount within the threshold, or a material one. Case ids are derived from the data, so
two runs over the same data find the same ids, and `SaveRunResult` deletes the earlier copy as the
code does. Groups and links are written in the same commit as the cases and are not kept apart.
The audit trail is a set of events: time stamps and repeats do not matter to any property. A user
has a fixed role. An import is the single step that
makes its file readable, `Publish` of `Intake` (section 4). Requests that are
refused leave no trace, so a refused decision is simply not a step.

### Runs

| Run | Checks | Shows |
|---|---|---|
| `safety` | `TypeOK`, `CompletedRunIsWhole`, `RowsComeFromTheirRun`, `ResolvedRowsAreAudited`, `ServedIsCommitted`, `SettledVerdictStands`, `DeletedRunStaysDeleted` | with two runs, one case, a reviewer and a controller, two imports, an error, a crash and a reset in any order, nothing half-written is reported as complete, no reset leaves an orphan, no verdict changes that no overlapping request can still change |
| `progress` | `CompletedRunIsWhole`, `AcceptedRunsEnd` | every accepted run ends, whatever call inside the `try` raises and whatever reset overtakes it; a re-run over changed data does not take the other cases of an earlier run |
| `stuck_run` | `RunningMeansExecuting` (violated) | a process that ends during a run leaves the row running, and `start_run` refuses from then on |
| `stale_amount` | `MaterialCasesNeedAController` (violated) | `get_case` serves the first run's amount after a re-run that raised it |

Bounds. Two run ids are needed for one run to delete another's case rows, and a run deleted by a
reset to be followed by a new one. Two imports are needed for a re-run to see different data, and
are cut off by a reset (`data` returns to 0). One case with two users is every conflict of two
verdicts; two cases appear in `progress`, where the question is what a re-run does to the *other*
case. One error, one crash and one reset: each of the invariants relates what one interruption left
half done to what went on afterwards; the proofs below are for any number of each. `RunIds` is
symmetric in `safety`: no definition tells one id from another. Deadlock is not checked because the
system may stop: ids are bounded and clients owe nothing.

Fairness. `FairSpec` asks for weak fairness of `TaskStep(r)` per run and of nothing else: the event
loop resumes every task that can go on, and an awaited database call ends, with a result or with an
error. `AcceptedRunsEnd` is checked with errors at every call in the `try` and in the accepting
request, and without crashes: `stuck_run` shows what a crash does, and an error raised by
`save_run(RUNNING)` or by the handler's own `save_run` likewise leaves the row as it was (`TaskDies`;
these fault points are in `safety`).

### Proofs (`Workflow_proofs`)

Proved for every number of runs, cases, users, imports, errors, crashes and resets, and every
environment: `Invariance` (`Spec => []IInv`), and from it `TypeCorrect`,
`CompletedRunsAreWhole`, `RowsHaveTheirRun`, `VerdictsAreAudited`, `ServesWhatItCommitted`, and the
action properties `DeletedRunsStayDeleted` and `SettledVerdictsStand`. Assumptions: the types of the
constants (`StoreAssumption`, `RunsAssumption`, `DecisionsAssumption`, `WorkflowAssumption`).

`CompletedRunIsWhole` is not inductive. That the run which sets `completed` still has its cases
needs `CommittedIsWhole`: a task past its commit has metrics equal to what it computed, and every
case it found has a row, of whichever run. A second run deletes only rows it inserts again, and a
reset removes the run together with its rows. That a commit cannot change what an older cache line
was filled with needs `CommitsOnce`: a run that has a request or a task ahead of its commit has no
metrics. `CommitsOnce` needs `OneOwner` (one request at most carries a run, before its task exists)
and `UsedIsMinted` (what is used was minted, so a newly minted id is unused everywhere).
`RequestsOK` types what a request carries once it has passed its checks.

Model-checked only: `AcceptedRunsEnd`, a liveness property under fairness.

## 3. The engine

| Module | Models |
|---|---|
| `Records` | `canonical.py`, `index.py`: the record, `net`, the lookups of `TransactionIndex`; `IsBook` is what `all_transactions` can return |
| `Rules` | `rules.py` (R1, R2, R3, R5, R6), `bridge.py`, `scoring.py`, `policy.py`, `_classify` and `_amount_at_risk`: functions of a book, the claimed ids and a batch |
| `Reconcile` | `engine.py`, `exceptions.py`, R4: the stages of `execute` as actions |
| `Attribution` | the abstract promise: attributions of credits to payouts are one to one and final, and a payout is cleared, if at all, when it gets its credit |

`ReconcileBatch(batch, leg)` is one pass through the loop of `_reconcile_settlements`: the group
with its links, its type, its gate and status; everything it claims; everything `_raise_cases`
raises. `leg` is any bank leg the ladder may choose: with several exact matches the first the
database returns, hence any. `Pending` batches are taken in any order for the same reason.
`MatchInvoices` is R4 in one step, because `match_r4_invoice_to_payment` answers with the whole list
before the loop claims the first invoice. `DetectStandalone` is the four detectors; `Firsts` is
which of a set of duplicates the query returned first and so names the case. `QueueReviews` is
`_ensure_every_review_is_queued`.

Abstractions. Identifiers and references are numbers; a truncated reference is a pair in
`Truncations`. Scores and confidences are in ten-thousandths, the precision to which the code rounds
them. Business dates are integers. Hypotheses, severities, suggested actions, the order of the
queue and stage timings are left out: no property and no later step depends on them. Settlement
exports name no counterparty, so that share of the score is nothing. `dispute` records are produced
by no normaliser. `MAX_CANDIDATES` (20) is out of reach of any bound here.

### Runs

`rules` starts from each of some six thousand populations (`MCBooks`) and takes every order of the
batches and every choice of leg:

* `OnePayout` - one payout, with everything that can be wrong with it and every combination: its
  reference missing, its header off by one or thirty, fees on schedule, within and beyond the
  tolerance, a payment of another gross, a capture too long before; a bank row of its reference, of
  a truncated one or of none, in or outside the window, credit or debit, or short; a journal that is
  absent, balanced, posted twice or unbalanced;
* `TwoPayouts` - two or three payouts of one net and up to two rows that may be any one's, with
  dates that put the margin below, on and beyond `CandidateMargin`, and lines that name one payment;
* `Orders` - invoices, payments, refunds and a payout that may have claimed the payment first.

Amounts are scaled (a payment of 1000, a limit of 25 for the amount at risk) so that both sides of
every comparison occur: fees of 17, 21 and 29 against the limit, gaps of 1, 2 and 30 against a
tolerance of 1. The code's schedule and its tolerance of 2 are as they are.

| Run | Checks | Shows |
|---|---|---|
| `rules` | `ClearedGroupsAreSound` | a settlement that cleared has exactly one bank row, of its reference and net, balanced bridges, no flagged record: nothing further down `_classify`'s ladder hides what is further up |
| | `ClearedGroupsCarryNoBlockedCase` | the gate and `_raise_cases` agree: no cleared group carries a case of a blocked type or above the limit |
| | `EveryReviewIsQueued` | a finished run leaves no group for review without a case, and the backstop adds nothing to a group that has one |
| | `CaseIdsAreUnique` | the primary keys of the run's commit do not collide |
| | `ImplementsAttribution` | refinement of `Attribution`: `owner` is read off the links, `cleared` off the statuses |
| | `TypeOK` | types |
| `shared` | `GroupsShareNothing` (violated) | two invoices of one order put its payment into two groups; `uq_link_exclusive` then refuses the run |

`rules` has about 87,000 distinct states. Deadlock is not checked because a run is over when it is
done.

### Proofs (`Reconcile_proofs`)

Proved for every population of every size, every reference relation, and every policy that meets
`BlockListAssumption`: `Typing`, `Invariance`, `ReviewsAreQueued`, `NoBlockedCaseCleared`, `ClearedIsSound`,
`CaseIdsDoNotCollide`, `RunImplementsAttribution`, and from the last one `CreditsPayOnce`: no bank row pays two
settlements, none is paid twice, and a cleared one has its row.

`BlockListAssumption` says what the ladder demands of the policy. `_classify` answers with one type,
and a type lower on the ladder is hidden by a higher one, so a type may be blocked only if those
that hide it are: missing money and mismatched amounts must be blocked, and `date_mismatch` may be
only together with `fee_tax_discrepancy`. The default list meets it. Adding `date_mismatch` alone -
the obvious repair for `LateSettlementsAreHeld` - does not: a late settlement with fees off schedule would clear with a
blocked case on it.

The invariant says where things come from. Each group is either a settlement, `SettlementGroup` of
some batch and some leg `BankLegs` offered for *some* set of claimed ids, or an invoice match; each
case of a cleared group comes from the same pass as the group (`RaisedWith`). What the gate decided
and what the detectors saw can then be compared at any later state, because both are functions of
one batch and one leg. `OneGroupPerSubject` makes "the group of the case" well defined, and
`CreditsAreClaimed` keeps a credit from being attributed again. `RunImplementsAttribution` is the
usual argument: initial states map to initial states, `ReconcileBatch` maps to `Attribute` when the
leg has a row and to a stutter when it has none (a group without a row is R6 and never clears), and
every other step to a stutter.

`CaseIdsAreUnique` rests on `CasesAreNamed`: a case of the loop names the subject of a group, which a
later batch cannot have, and each later stage brings detectors of its own. Within a detector the id
names one record of the book, and a status conflict one whose order has a single payment.

`Typing` (`TypeOK`) is more than bookkeeping: net and gross sums, bridges, amounts at risk and the
largest link confidence are computed over *sets* of records, and that each is a whole number for
every set needs an induction over its size. The prover takes no library theorem about folds, so
`SumsExist` shows that a sum over a finite set exists for each number of members and `SumsAreInt`
that the fold of the module is that sum (`NetsSumToInt`, `GrossesSumToInt`, `LargestOf` use it).
The invariant is needed too: the case that the backstop raises takes the largest amount among the
links of its group, so that the group must have one, to a record of the book.

Model-checked only: that `StatusConflicts` and the other detectors find what they should.

## 4. Rows and uploads

| Module | Models | State |
|---|---|---|
| `Numbers` | powers of ten, lengths and trailing zeros of numbers, sums of sequences: recursive functions | none |
| `Money` | `money.py`: `parse_money_to_minor`, `format_minor`, `allocate_minor` | none |
| `Rows` | `base.py`, the six normalisers, `CanonicalTransaction.__post_init__` | none |
| `Normaliser` | one call of them: a row, an amount to split, an amount to write | `job`, `outcome` |
| `Imports` | `create_import` over the repository | durable: `imports`, `loaded` (the canonical rows of each import), `audited`; volatile: `requests` |
| `Intake` | the promise: rows become visible by whole files, each at most once, and only the reset takes them away | `published` |

A normaliser is the list of its checks in the order the code makes them, because the first that
fails names the refusal. A payment row without a record type is a payment (`RecordType`). An amount is its digits as a number, its decimal places, its sign and the
lengths of its digit groups; a date cell is the minute it names and whether it carries an offset. A
`Decimal` keeps `ContextDigits` digits and rounds what is longer, half to even, as `scaleb` does
with 28; the instance uses 9, so that amounts on both sides of it occur.

An upload is a walk: key, hash, create, load, save, audit. Each step is one repository call with
the code up to the next; reading the file is pure and belongs to `Create`. `Die` is a call that
raises and a process that ends: to the tables both are a request that goes no further, from any
step. `Loadable` is the unique external id, `KeyIsFree` the unique idempotency key. The workflow's
single step that makes a file readable is `Publish` of `Intake`, which `Imports` implements.

### Runs

| Run | Checks | Shows |
|---|---|---|
| `rows` | `AcceptedExactlyWhenSound` | a row is accepted exactly when an independent description of a sound row holds |
| | `NothingIsCoerced` | each amount stored is what its own column states, to the minor unit and without a sign - of a cell longer than a Decimal, the nearest unit - and the four amounts agree |
| | `BusinessDateIsLocal` | the day is the business timezone's for every form of date, and an assumed zone is recorded |
| | `AllocationIsExact` | shares add up to the total of either sign, within one unit of the exact part |
| | `WrittenAmountsReadBack` | what `format_minor` writes `parse_money_to_minor` reads as itself, at every power of ten |
| `uploads` | `CompletedImportIsWhole` | a completed import has every accepted row, one that failed or is a duplicate has none |
| | `OneAnswerPerKey` | however requests with one key overlap, those that got an answer got one import |
| | `ImplementsIntake` | refinement: `published` is what `all_transactions` returns of each import |
| | `TypeOK` | types |

Bounds. `rows` enumerates about 19,500 calls (39,060 states): each dataset with a cell for every way an amount is
written, right or wrong, dates on either side of midnight, known, unknown and blank record types, known and
unknown statuses, blank identifiers; amounts of the four columns that differ, so that one taken for
another shows. `uploads` has about 816,000 states: three requests, because two overlap and a third
comes after; two statements that share a transaction, one with a row that is refused, and a file
that names a transaction twice; either of two datasets, of which one finds no header; one key. Any
number of requests may die. One reset. Requests are interchangeable.

`FileIsLoadedOnce`, that one file is never counted twice under one dataset, is proved
(`FilesCountOnce`), not run: it follows from the invariant.

### Proofs (`Imports_proofs`)

For every number of requests, files, keys and resets: `Invariance`, `TypeCorrect`,
`CompletedImportsAreWhole`, `FilesCountOnce`, `KeysHaveOneAnswer` and `ImportsImplementIntake`.
A completed import is whole because of what holds before it: `RowsOK` says that rows are those of
one commit and that an import about to be saved as completed has them all, `ImportOK` that the row
and the request speak of one file. `NoRowTwice` and `OneImportPerKey` are the two unique indexes;
neither the hash check nor the key check is used, which is the point: both can be overtaken. The
refinement maps `Save` of a completed import to `Publish`, the reset to `Withdraw`, the rest to
stutters. Assumptions: the types of the constants (`ImportsAssumption`, `RowsAssumption`,
`MoneyAssumption`).

### Proofs (`Numbers_proofs`, `Normaliser_proofs`)

The five properties of `rows` are theorems: `RowsAreJudged`, `AmountsAreKept`, `DatesAreLocal`,
`WritingIsReadBack`, `SharesAreExact`, for every row of the six datasets, every amount to write and
every sequence of weights. They are facts about one call, so the invariant is only `Returned`: an
outcome is what the function computes for the job. The work is in the functions.

*Recursion without induction theorems.* The library's induction takes an operator as parameter,
which the provers here cannot instantiate. `Numbers_proofs` therefore states it with sets: a subset
of `Nat` that has zero and every successor is `Nat` (`Induction`, from the least element,
`SmallestOf`). `Recursion` and `Descent` build, stage by stage, the function that a recursive
definition chooses, for a step from n to n + 1 and from any smaller number, as n \div 10, to n; with
them `Ten`, `Two`, `DigitCount`, `BitCount`, `Zeros` and `SumOf` are known to satisfy their own equations (`TenFacts`,
`DigitCountFacts`, `ZerosFacts`, `SumOfFacts`). The rest is arithmetic over those: sums of sums and
of multiples, `SumIsMonotone`, `SumOfIndicator`, `TrimmedTimesTen`.

*Rows.* Per dataset one lemma (`PaymentRows`, ..., `LedgerRows`) compares the list of checks with
`Sound`. That each amount of an accepted row is its own cell's is `ReadAmounts`: below `ContextDigits`
digits `scaleb` neither rounds nor passes a fraction, and beyond them it is off by half a unit at most. *Writing.* `GroupsAreRead`: lakhs and thousands are
groups that the three patterns accept, whatever the length; `WrittenIsRead`: no digit is lost on the
way. *Splitting.* `SharesAddUp`: what the floors lose is at most the number of remainders that are
not zero, and `PlacesAreFilled`: the order of the remainders is a bijection onto the places, so
that exactly as many shares get a unit as are left over, and no share of a zero weight is among them.

Assumptions: `NormaliserAssumption` types the calls - cells and dates as the cells of a CSV can be
described, weights that `allocate_minor` does not refuse (`money.py:384`), amounts within the column
- and asks that a `Decimal` keep more digits than the column holds, `MinorMax + 1 <
Ten[ContextDigits]`. The code's numbers are 2^63 and 28 digits. `RowsAreJudged` says nothing of a
cell longer than that: there the rounding of `scaleb` could accept what a longer context would not.

## 5. People

`Sessions` is one account: the refresh-token table, the four endpoints, and the frontend's server as
their client with the browser's cookie jar. A call goes through find, user, consume, store or
revoke, each one repository call. The access token and its cookie end apart: a token's `exp` is fixed
when it is minted, the cookie's `maxAge` counts from its receipt, so `AccessTokenExpires` may come
before `AccessExpires`. A page that the API answers with 401 (`OpenRefusedPage`, behind a cookie whose
token has expired or whose account is inactive; `Onward`, after a refresh that did not reach the API)
is sent to `/session-expired`, which deletes both cookies whatever they hold by then. `Lose` takes the client away and lets the API go on; `Raise`,
`Crash`, `TokenExpires` and `Deactivate` are the other things that befall a session. `Accounts` is
the users table with the requests that change it, the audit trail as what its last events say of
each account, and the start of the process that seeds accounts and promotes one. An account is its
address: rows are never deleted and addresses are unique.

The code does not lock, and two windows are open: a second use of a token between another's check
and its update (`auth.py:227`), and a role change by an administrator who has just lost the role
(`auth.py:334`). The invariants name them - `shared`, `overtaken`, `stale`, `muddled` are history
variables that record exactly the steps that fall into a window - and say that there is no other; they
do not say that the windows are shut, and the properties of section 7 that do are violated. The
browser has its own, which `disturbed` names: a fault, a deactivation, one token sent by two calls, a
page refused under a live session, and the cookies of one session that arrive while a sign-out of
another is still to be answered (`auth-actions.ts:124` clears whatever is in the jar by then).

| Run | Checks | Shows |
|---|---|---|
| `sessions` | `ExchangedOnce` | a token has one successor, in its own family, and is spent before it, unless two calls held it live at once |
| | `EndedFamilyIsDead` | nothing can be exchanged in a revoked family unless a refresh was past its check |
| | `QuietSessionSurvives` | however refreshes, sign-ins and sign-outs overlap, a step takes the refresh cookie from an undisturbed browser only when its session was revoked, and leaves none that cannot be used |
| | `OverIsDropped` | the browser gets rid of a session that cannot be used; no page sends it round in circles |
| | `TypeOK` | types |
| `accounts` | `AdminRemains` | the only way to lose the last administrator is the named window |
| | `TrailTellsTheAccount` | what the trail says of an account is what it is, unless an event was lost or two changes were recorded at once |
| | `OneAccountPerAddress` | however registrations overlap, one request opens the account |
| | `TypeOK` | types |

Bounds. `sessions` has about 534,000 states: two calls at once, which is what a window needs; three
tokens, so that an exchanged token has a successor that is exchanged too, or a second family beside
the first; one fault. `Room` reserves a token for every call that may store one. `accounts` has about
218,000: a seeded administrator, a seeded analyst and a free address that the start promotes; three
requests, of which two overlap and one follows or all three do; one raised call, three starts.

Fairness (`FairSpec` of `Sessions`). The API goes on with every call and the client takes every
answer (weak, per call): the event loop does. A token and its cookie expire (weak): time passes. A browser with a
session opens another page: strong for `Navigate` and for the refused page, because in an instance
with two calls sign-ins may take the last free one again and again, which two calls of the model and no
real server would. Nothing is assumed of faults or users.

### Proofs (`Sessions_proofs`, `Accounts_proofs`)

Sessions, for any number of calls, tokens and faults: `Invariance`, `TypeCorrect`,
`TokensAreExchangedOnce`, `EndedFamiliesAreDead`, `QuietSessionsSurvive`. `ExchangedOnce` needs
`RotationOK`: of two calls that rotate one token, or one after another has stored its successor, the
token is in `shared`. `QuietSessionSurvives` is an
action property, so that it speaks of the step that takes the cookie away, and the deepest: an
undisturbed state is `Quiet` - every call is in a family of its own (`Apart`), only the call that
holds the jar's token is in the jar's family (`Held`), and the token in the jar is live or carried by a
call that will replace or drop it (`Carried`). In such a state only the answer of a sign-out empties
the jar, and its family is revoked (`QuietLoss`); what disturbs a session is not forgotten
(`DisturbedStays`).

Accounts, for any addresses, roles, requests, faults and starts: `Invariance`, `TypeCorrect`,
`AnAdminRemains`, `AccountsAreOpenedOnce`, `TheTrailTells`. An administrator remains because a
request that is about to write its own caller's row leaves it an administrator (`RequestOK`), and
otherwise the caller, who is one unless `stale`, remains. `TrailOK` says what the trail will tell
once the one event due is recorded.

Model-checked only: `OverIsDropped`.

## 6. Investigations

`Evidence` is the packet (`packet.py`), the pseudonyms (`redact.py`), the schema (`schemas.py`) and
the verifier (`verify.py`) as functions. `Investigation` is `request_investigation` with the bounded
loop of `client.py`, while re-runs, the reset and a crash fall between its steps. The provider is
asked in a synchronous call, so nothing else of the process moves between `BuildAndAsk` and the
outcome (`Blocked`). A number in a text is its digits and its places; an answer is what the verifier
looks at: citations, figures, counts. A provider may answer with any of `Answers` or raise. What the
engine computed includes what the gate's conditions say, of which only the confidence is a number.

The forms in which a computed value may be written go through `float` (`verify.py:142`): `AsFloat` is
the nearest number of `FloatBits` significant bits, 53 in the code, and `Hundredfold` multiplies and
rounds as the code does, twice. Left out are the bounds of the exponent (figures beyond 1.8e308, or
with hundreds of decimals) and computed texts that `float()` reads though they are not plain decimal
numbers. The instances use 24 bits and small figures, because TLC's integers have 32.

| Run | Checks | Shows |
|---|---|---|
| `investigation` | `KeptAnswerIsGrounded` | at whatever try it came, a kept answer cites evidence of the case and each large figure has the digits of one of its own |
| | `GivesUpInTime` | a refusal is recorded after every try the setting allows and no more |
| | `ShownWasRecorded` | what the case page shows was stored, whatever deletes the case meanwhile |
| | `NamesStayApart` | two customers never share a pseudonym, although their digests collide, and one never has two |
| | `LoopEnds` | the loop that blocks the process ends |
| | `TypeOK` | types |
| `numbers` | `NumbersAreTheEngines` (violated) | with 100.05 in the packet, a figure of 1000500 passes |

Bounds. About 235,000 states: two requests, one retry, eleven answers that are grounded or fail in
each way, two versions of the case with records whose customers collide under one seed or the other,
a reset, a crash. One retry is a first try, a last one, and the step between. Fairness: a provider
answers or times out (the clients set a timeout), nothing else.

### Proofs (`Investigation_proofs`)

For every set of cases, answers, retries, requests, resets and crashes: `Invariance`, `TypeCorrect`,
`RefusalsUsedEveryTry`, `TheShownIsRecorded`, `CustomersStayApart`, `KeptAnswersAreGrounded`, and
`KeptCitationsExist`, the part of the last that holds in any currency. What is shown was stored because a request past `Store` is in
`stored` or `superseded` (`CallOK`): every step that empties `stored` moves it there. Citations are
those of the packet, and `CallOK` keeps the packet's evidence that of the case the request read.

`CustomersStayApart` (`NamesStayApart`) is by induction over the records: there is always a free
suffix among the first n + 1 for n names (the pigeonhole), and the next name is either that of the
same customer or free. `KeptAnswersAreGrounded` follows a figure back through the verifier: each form
that `_allowed_tokens` admits has, without its trailing zeros, the digits of the value it is a form of.

The theorem has a hypothesis, `FiguresFitFloats`: no figure of a case has more than two decimals, and
a thousand times its units in the last place are no more than 2^53. So it holds for amounts in rupees
and six more of the ten currencies up to 90,071,992,547.40, and not beyond. It is needed twice. With
three decimals, as in dinars and rials, `round(x * 100)` drops a digit and 1.005 admits 100. And a
figure of 17 digits, as the reference of a bank may be (`exceptions.py:264`), admits a neighbour: with
9007199254740993 in the packet the code accepts 9007199254740992. `MCInvestigation` assumes the
hypothesis of its instance, so that TLC evaluates it. Within the bound the argument is one of distances: a float is off by at most one
part in 2^53 (`AsFloatIsClose`, from `BitsTell` and `HalfEvenIsNearest`), so a hundredfold is off by
300 such parts of the number, less than half a unit, and is rounded back to the number itself.
`FiguresAssumption` types the cases: amounts are whole, texts have digits.

Model-checked only: `LoopEnds`.

## 7. Disagreements with the documents

Four runs show the code doing what a comment or a document says it does not; `PROJECT.json` quotes
the lines under `findings`.

| Run | Violated | Shows |
|---|---|---|
| `stuck_run` | `RunningMeansExecuting` | a process that ends during a run leaves it running and `start_run` refuses from then on |
| `stale_amount` | `MaterialCasesNeedAController` | `get_case` serves the first run's amount after a re-run that raised it |
| `shared` | `GroupsShareNothing` | two invoices of one order put its payment into two groups, and the commit of the run fails |
| `numbers` | `NumbersAreTheEngines` | zeros stripped from whole numbers and a hundredfold of minor units let a figure of another size pass |

More are stated in the modules and have no run of their own. To see one violated, put it in place of
the `INVARIANT` and `PROPERTY` lines of the configuration (and drop its `SYMMETRY` line):

| Property | With | What the code does |
|---|---|---|
| `AtMostOneRunExecutes` | `Workflow_safety` | the check in `start_run` and the row that says running are several awaits apart |
| `FirstVerdictStands` (`PROPERTY`) | `Workflow_safety` | two overlapping requests pass `get_decision` and the later overwrites the earlier |
| `LateSettlementsAreHeld` | `Reconcile_rules` | a settlement outside the window clears with a `date_mismatch` case on it |
| `DoublePostingsAreHeld` | `Reconcile_rules` | a journal posted twice balances and clears |
| `BankLegsAreCredits` | `Reconcile_rules` | R2 takes a debit for the credit of a settlement |
| `DuplicateMeansLoaded` | `Imports_uploads` | a file is refused as imported already when the earlier import died pending, or fails later |
| `ReuseEndsEveryToken` | `Sessions_refresh` | a refresh past its check stores a live token of a family that was revoked |
| `SomebodyManages` | `Accounts_admin` | two administrators who demote each other at once leave none |
| `RefusedPageMeansOver` (`PROPERTY`) | `Sessions_refresh` | a token's `exp` counts from its minting and its cookie's `maxAge` from its receipt, so a page may be sent with an expired token and no refresh; the 401 that `api.ts:90` takes for the end of the session leads to `/session-expired`, which deletes a live one |
| `NothingIsRounded` | `Normaliser_rows` | `scaleb` rounds to the digits of a `Decimal` before the test for a whole number, so a longer amount is accepted, though `money.py:11` says none is rounded |
| `BlankLedgerSidesAreKept` | `Normaliser_rows` | `ledger.py` refuses a row with both sides blank that its comment says is kept and flagged |

Found while reading, with no property: `verify.py:128` says that no number is accepted that appears
nowhere in the packet, and above 2^53 the forms made of a float are such numbers (section 6); `docs/03-architecture.md:358` says that every mutation writes
its audit event in the same transaction, which `record_decision` does, while uploads, runs,
investigations and the changes of accounts write it in a commit of its own after the change (`muddled`
names what that does to the trail of accounts, `CompletedImportIsWhole` and `ShownWasRecorded` hold
without it); a zero amount of a bank row or a settlement carries no
`zero_amount` flag (`canonical.py` says it does); the comment at `auth.py:100` says a role change waits
for the access token to expire, but `deps.py` reads the row at each request; `money.py:380` says
remainders go to the largest weights and the code gives them to the largest remainders; an error of
the refresh endpoint destroys the session in `middleware.ts:89`; `schema.sql:589` says grounding
violations are kept, and a re-run's cascade deletes them.

## 8. Not modelled

* In-memory repository: its coroutines never suspend, and it adds no behaviour.
* Reports, matches, health, listings: they change no state.
* Frontend pages beyond the session; generated and synthetic data, evaluation scripts, deployment.
* Password hashing, the signature of access tokens, the providers' HTTP clients and prompts, and the
  patterns that recognise references and scrub free text: taken as given.
* The database itself: a commit is atomic and durable, a unique index holds, a cascade follows.

What no property covers although the model has it: a re-run re-inserts a decided case as open while the
process still answers 409 for it, and decisions outlive a reset and not a restart. Both are as the
code is written, and it does not say which is meant.

## 9. Running it

    tlc -config Workflow_safety.cfg MCWorkflow
    tlc -config Workflow_progress.cfg MCWorkflow
    tlc -config Reconcile_rules.cfg MCReconcile
    tlc -config Normaliser_rows.cfg MCNormaliser
    tlc -config Imports_uploads.cfg MCImports
    tlc -config Sessions_refresh.cfg MCSessions
    tlc -config Accounts_admin.cfg MCAccounts
    tlc -config Investigation_answers.cfg MCInvestigation
    for m in Numbers Workflow Reconcile Normaliser Imports Sessions Accounts Investigation; do tlapm ${m}_proofs.tla; done

Each run takes from a few seconds to two minutes; the proofs of `Sessions` take the longest. What is left
to TLC is what the prover cannot express, liveness under fairness: `AcceptedRunsEnd`, `OverIsDropped`
and `LoopEnds`. Every other property of a passing run is a theorem. The definitions marked "Variant" are
small changes a programmer might make by mistake; `PROJECT.json` pairs each with the property that
fails under it.
