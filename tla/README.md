# Beacon: verification of the financial research decision chain

TLA+ specifications of the parts of this repository that hold state and can go
wrong in ways tests hardly reach, TLC runs that check small instances of them,
and TLAPS proofs for every value of the constants. Everything is translated
from the code under `src/`; paths below are relative to it, and `PROJECT.json`
maps each definition to its lines.

## 1. The system and its parts

Beacon is a Next.js application that answers research questions with paid calls
to a model provider. Its server keeps no database: durable state is files, and
several server processes plus an operator's command line share the directories.
Its browser half keeps ledgers in local storage, shared by tabs.

| Part (code) | State | Operations | Works with |
|---|---|---|---|
| Operation store (`apps/web/lib/research-operation.server.ts`) | per operation a receipt directory and an index directory; lock directory; recovery hold | read, claim, complete, quarantine, release of an abandoned lock | the question handler, the recovery commands |
| Recovery commands (`apps/web/lib/research-operation-maintenance.server.ts`) | backups, event files | backup, restore, quarantine, verify, unlock | the store's files, under its lock |
| Model budget (`apps/web/lib/model-budget.server.ts`) | an attempt file per reservation, a result file per settlement, a lock directory | reserve, finish | the question and memo handlers of all processes |
| Question handler (`apps/web/lib/research-question.server.ts`) | model slot of the process | POST plan and execute, GET replay | store, budget, body reader, access |
| Memo handler (`apps/web/lib/research-memo.server.ts`) | the same slot | POST | budget, body reader, access |
| Body reader (`apps/web/lib/request-body.ts`) | one stream, one timer | read with size limit, timeout, abort | both handlers, login |
| Access (`apps/web/lib/reviewer-access.ts`, `app/api/access`, `proxy.ts`, `review-security.ts`) | cookie, limiter counters | login, logout, session check, limit | everything |
| Content contracts (`apps/web/lib/question-citation-policy.ts`, `question-explanation-contract.ts`, `research-memo-contract.ts`, `adversarial-review.ts`) | none | the schema a provider is given, the validators that read its answer, the review of an explanation by a judge | both handlers, decision chain |
| Question client (`apps/web/components/research/question-workflow.tsx`, `research-question-pending.ts`) | draft, pending pointer, unresolved list | ask, recover, retry, end waiting, review | handler, question ledger |
| Question ledger (`apps/web/lib/research-question-storage.ts`) | runs and reviews in local storage | append run, append review | version store |
| Memo ledger and revisions (`apps/web/lib/research-memo-storage.ts`, `research-memo-revisions.ts`) | three local storage keys | append run, append revision, review | version store |
| Version store (`apps/web/lib/research-versions.ts`, history page `components/research/version-history.tsx`) | version list and active pointer of each of two libraries; the library on display | append, rollback | update workflow |
| Report parsers (`lib/parser-*.ts`, `apps/web/lib/parser-v04.ts`) | none | five generations that turn positioned text items into metrics, and decide whether these may become evidence | decision chain |
| Decision chain (`lib/chain-*.ts`, `apps/web/lib/research-engine.ts`) | none | three generations of the rules for C-04, K-07, valuation and gates; the engine that runs them on reviewed values | update workflow |
| Update workflow (`apps/web/components/research/update-workflow.tsx`) | selection, material, candidates under review, pending saves | read a file, edit, accept, reject, preview, save, start over | decision chain, version store |
| Batch runners (`apps/web/scripts/run-*-batch.mjs`, `lib/question-batch-budget.ts`) | checkpoints and archives on disk | reserve, call, archive, checkpoint, summarize what was used | provider |

The archive secret scan and the user interface keep no state that a model would
say anything about.

What makes each part correct, and what makes that hard:

* **Store**: one identifier is claimed once, by one session with one input; it
  leads to at most one provider request; an answer is durable before it is
  sent; a decided outcome never changes; a damaged store admits nothing. Hard
  because two tabs, sessions and processes race, any process can die between any
  two file writes, and an operator repairs the store with services perhaps up.
* **Recovery commands**: they never take the lock of a live writer, and nothing
  is admitted between an abandoned lock and a verified store.
* **Budget**: a finite number of provider requests for the life of the ledger,
  bounded per rolling minute and per visitor and rolling hour, one in flight over
  all processes. Hard because the lock is released during the request, clocks are
  set back, and a crash leaves spending unknown.
* **Handlers**: the slot of the process always comes back; claim, reserve, call,
  settle and complete happen in an order that never pays twice.
* **Body reader and access**: whoever ends a read, nothing of it stays behind; no
  sender or provider holds the slot beyond the time limits; nothing is paid for
  long after the review ended. Hard because a timer, an abort, a size limit and
  the stream race, and the wall clock may be set back.
* **Content contracts**: an answer that keeps to the schema the provider was given
  is not refused by the validators, since it has been paid for by then; no failure
  of a judge passes or blocks an explanation.
* **Batch runners**: a batch killed at any write and started again pays for no
  request twice, and none without a trace on disk; it uses no more than the person
  who started it acknowledged.
* **Report parsers**: what is promoted to evidence is what the primary table
  states, in its columns and units; a generation does not contradict the one it
  replaced. Hard because labels wrap, columns are restated, tables go on over
  pages, and other tables follow.
* **Client and ledgers**: a late answer, a second tab or a closed tab loses no
  paid result and applies none twice; a ledger entry refers to versions that
  exist; a save or rollback enters the library it was meant for.
* **Decision chain**: K-07 triggers and is watched exactly as the policy says,
  the layers that amend one another stay consistent, and no caller closes a
  professional gate. Hard because histories may be broken in many ways.
* **Update workflow**: only values a person accepted reach a library, and only
  the library their source belongs to. Hard because reading a file and waiting
  for a lock take time, and the page goes on meanwhile.

## 2. What is modelled

| Module | Models |
|---|---|
| `OperationLedger` | the promise of the store: an identifier is bound once, sent at most once, decided once, and answered to its owner only |
| `OperationStore` | the store's files, its lock, the request handler around them, server processes, and the recovery commands unlock, quarantine and verify |
| `MCOperationStore` | its instances |
| `OperationRecovery` | backup, restore and the loss of receipts (it extends `OperationStore`) |
| `MCOperationRecovery` | its instance |
| `OperationStore_proofs`, `OperationRecovery_proofs` | their theorems |
| `ModelBudget` | reserve and finish on the shared ledger |
| `MCModelBudget` | its instance |
| `ModelBudget_proofs` | its theorems |
| `VersionStore` | saving and rolling back research versions of two libraries in local storage, and the history page |
| `QuestionLedger` | the ledger of runs and reviews, composed with the version store (it extends it) |
| `MCQuestionLedger`, `QuestionLedger_proofs` | their instances and theorems |
| `MemoLedger` | memo runs that are asked for, recorded and reviewed, and the panel that displays them |
| `MemoRevisions` | human revisions of a memo and their reviews, over three keys (it extends `MemoLedger`) |
| `MCMemoRevisions`, `MemoRevisions_proofs` | their instance and theorems |
| `QuestionClient` | the question page in several tabs, its pointer, and the service in outline |
| `MCQuestionClient`, `QuestionClient_proofs` | its instances and theorems |
| `DecisionChain` | `runC04Chain`, `runC04ChainK07B` and `runC04ChainReviewed` as operators |
| `ResearchContracts` | the evidence of a run of the chain, the citations the model is offered and those that are accepted (it extends `DecisionChain`) |
| `AdversarialReview` | the review of an explanation: what the judge is shown and what its verdict amounts to (it extends `ResearchContracts`) |
| `DecisionCases` | the chain and the contracts against its policy, over reports, labels and histories |
| `ReportTables` | rows, columns, labels, and the older generations of the parser |
| `ReportParser` | segments, units and promotion: the generations V0.6 and V0.6-strict |
| `ReportDocuments` | reports as they are typeset, with what they state (it extends `ReportParser`) |
| `ResearchEngine` | documents parsed and then decided on: `ReportDocuments` composed with `DecisionCases` |
| `MCDecisionCases`, `MCReports`, `MCResearchEngine` | their instance |
| `UpdateWorkflow` | the update page, with the engine it calls (it extends `DecisionChain`) |
| `MCUpdateWorkflow` | its instance |
| `DecisionChain_proofs` | theorems about the page, the chain, the contracts, the review, the parser in use and the batch budget |
| `BoundedBody` | the race that ends the reading of one body |
| `ReviewAccess` | login, logout, sessions, limiter and the end of the review (it extends `BoundedBody`) |
| `MemoHandler` | one memo request from the proxy to the settlement (it extends `ReviewAccess`) |
| `BatchRunner` | the two scripts that pay for a batch of requests, and their files |
| `QuestionBudget` | what a batch of questions may use, and what it is known to have used |
| `QuestionRuns` | planning and executing one question, and the run records and their validation |
| `ReviewService` | a server with visitors, with a question, or with a batch as its only client |
| `MCReviewService`, `ReviewService_proofs` | its instance; theorems about all of these |

**OperationStore.** `guard[op]` is the index directory of an operation
(`claim.json`, `completed.json`, `uncertain.json`), `root[op]` its receipt
directory (`record.json` and the temporary file of a completion). A file is
absent (`Nil`), a record, or `Torn`: an incomplete write. A hash of a file is
represented by the record it was computed from. `Readable` is `readOne`,
`InventoryOK` is `inventory`; every writing operation first takes the lock
(`Acquire`, `LockTimeout`, `WriteHolder`, `Release`), then takes one action per
file it creates (`MkGuard`, `MkRoot`, `WriteRecord`, `WriteClaim`; `WriteTmp`,
`WriteDone`, `Rename`). `Fault` may end any of them with an exception, `Crash`
may kill the process between any two; both leave what was written.
`ReleaseFails` is a lock directory that cannot be removed. `req[w]` is the
program counter of an HTTP request and its local variables: read, take the slot,
claim, read again if the claim was lost, call, complete, reply. A GET is a
request without input. Which response a completed request stores - an answer, a
failure report, a refusal - is any member of `Responses`. `calls` counts
provider requests and is there for the properties only.

The operator runs one command at a time. The code asks for a flag saying that
the services are stopped and cannot check it, so the commands are allowed
beside live services, with one exception: of a lock directory *without* a holder
file the code knows nothing, and the model then takes the operator's word
(`Stopped`). The check that the holder's process is alive is assumed to see
that process (same host, same pid namespace, no reuse of a pid).

**ModelBudget.** `attempt[id]` and `result[id]` are the two files of an attempt.
`Verdict` is the sequence of checks in `reserve`, in order. A process takes the
lock, decides, writes, releases (`Acquire`, `Decide`, `WriteAttempt`,
`Release`), sends with no lock held (`Send`, `Return`), and settles under the
lock (`CheckOwn`, `WriteResult`). A process has one reservation at a time because
memo and question handlers share one slot. The clock is any value at any
moment (`SetClock`). A lock of this ledger has no holder file and no command
removes it (`docs/PRODUCTION_MODEL_BUDGET.md`), so there is no unlock action. A
reservation whose fields do not validate ends like a `Fault`.

**OperationRecovery.** `backup` holds the receipts of the last backup that has a
manifest. A restore sets the hold, takes the lock, and then looks at one key of
the live index per step: a receipt that is there must be the expected one
(`Preserve`), one that is missing comes back only if the index expects its hash
(`BringBack`), in place, so that the write may be cut off. `EndRestore` may come
after any of them. `BeginRestore` takes the operator's word that the services are
stopped (`Stopped`), unlike the other commands: the hold is written without the
lock, so that a claim that has just looked for a hold under the lock would create
its files after it. The services may be started again the moment after. `lost`
and `unverified` are history for the properties.

**VersionStore and QuestionLedger.** Tabs share, for each library, the keys
`versions[w]` and `active[w]`, and the question ledger (`runs`, `reviews`). Code
without an `await` runs undisturbed by other tabs, so reads and the computations
that follow them are one step; each `setItem` is a step, because it may throw for
want of space and the tab may be closed after it. A save or rollback is a
`request` that captured its library, its version and its content at the click,
and waits for the lock of that library; `Begin` is the grant of the lock and what
is computed at once from the keys, with the refusals of `appendVersion`
(`Accepts`); `AppendVersion` and `SetActiveVersion` are the two writes. `page` is the
library and the versions that a history page displays; it may be switched while
a rollback waits. `Timeline` are the versions on that page, and `CanRollback` lets
its user go back to one of them that is not the active one. `interrupted` and `misplaced` are history: an append whose
pointer was never written, and a rollback after the switch of section 5.
The append of a run or a review takes the lock of the question ledger, reads,
awaits hashes and writes the whole key, which is a step to take the lock and
read, one to check the active version (reviews), and one to write. A Web Lock is
released by the browser when its tab goes away (`Interrupt`, `Abandon`). `asked`
remembers which version a run was asked about.

**MemoLedger and MemoRevisions.** A memo run is paid for before it is recorded:
`call` follows `generate()` through the request, the look at the version and the
wait for the lock, `judging` a review with the copy of the ledger it read, `panel`
what is on the screen. `told` remembers whose user knows that saving failed. The
revisions defend twice: they hold a lock of their own, and compare the bytes of
three keys with what they read, just before they write. `Bytes` is that
snapshot: the lengths of the two ledgers, which only grow, and a counter of the
changes that come from elsewhere (`Alter`; `Intact` is what a revision needs of the
run it revises). The ledger is read as a whole or not at all: `LedgerHolds` is what
the reader demands of it, and `Readable` its use. `shown` and `draft` are what a tab
displays and what its editor started from; `CanWrite`, `CanSave` and `CanReview` are the
conditions under which the panel offers its buttons, `busy` the state that disables most of
them while an append is under way. A click (`Save`, `ReviewDraft`) captures what the page
holds, in `op[t].asked`; the append takes the lock later (`Enter`), captures the bytes and
checks what was asked against the ledger. In between the page is not still: events make it read the
records again and the history list has another revision selected (`Sync`), the question about
unsaved changes gives the draft up (`DiscardDraft`), and another run is another panel
(`ShowRun`), which knows nothing of the append. `CloseTab` closes the tab with everything it was doing in both.

**QuestionClient.** One record in `calls` is one HTTP call in progress; `at` says
how far it is: sent, past the first read, executing, or its reply on the way.
`view[t]` holds the variables of the page that decide which buttons can be used,
`todo[t]` what continues in the tab once a lock is granted, in any order. The
service appears in outline only: an operation is absent, running, answered or
refused, and requests for it are replayed, as `OperationStore` promises. `kept`
merges the question ledger, the list of unresolved tasks, and a result that could
not be stored and is on the screen with the advice to export it. `turnedAway`
remembers what was rejected, for the properties. Noting a task as unresolved
and abandoning its call is one block of the code without an `await`, and one
step. Selecting an older run, and the hand-off to other pages, change nothing
that another tab sees and are left out.

**DecisionChain and DecisionCases.** The chain is a function, so the model is a
set of operators: one per computation of the code, the loop over prior periods
as a fold, each generation calling the one before. Amounts are integers in steps
of 0.0004 CNY mn, so that the tolerance of the profit bridge (0.001) lies
between two and three steps and rounding of binary fractions cannot matter; a
period is a kind and a number, which is what `ordinal` makes of its name. A row
with any field wrong (basis, unit, scope, a growth that is no number) is not
accepted. Texts and the graph difference are left out. `C04ChainResult` is the set of
results, with every field the later layers read. `DecisionCases` lets a caller review any report, label it rightly or
wrongly, and hand in any history; `TwoInARow` and `OneInARow` say what the policy
text says without a loop, a count or a fallback; `ResultsCohere` says which
parts of a result must agree, whatever was handed in.

**ResearchContracts.** `ChainEvidence` gives each piece of evidence its direction;
`CitationChoices` are the groups that generations 7 to 10 of the answer schema
enumerate per paragraph, `ControlledGroup` the one of generation 11, and
`AcceptsParagraph`, `AcceptsExplanation` and `AcceptsMemo` what the validators demand.
References are named without the identifier of their source. Generation 11, the
current one, offers complete sentences from a fixed list, of which the model keeps
what they depend on (`ControlledTexts`): the sides of the evidence, the status of the
assumption as it is shown, and whether the comparison is missing. An answer names its
groups; they are checked, replaced by their members, and the answer is checked once more
(`Expanded`, `AcceptsOutput`). A memo is sent with a slot for each point and stored as lists
(`OfferedMemo`, `StoredMemo`), under the limits of the version of its prompt. The patterns on
prose judge answers of the earlier generations, which remain for archived runs, and
are left out.

**AdversarialReview.** `BuildReviewState` validates an explanation again, `DecideReview` is the
sequence of thresholds applied to a verdict, and `ReviewCandidate` what is recorded of both.
Probabilities are whole percents, so that each threshold lies on a value; other integers stand
for what is no probability. No route of the application calls this code: theorems
are all there is about it.

**ReportTables to ReportDocuments.** A document is a set of text items with a page
and a position. A text is a token (`"owners"`, `"profit"`, `"unitWan"`), a number one of
three tokens with a value; what a regular expression finds in a joined label is a
sequence of tokens in it. Items have no width. Numbers are parsed into
hundredths. The parser's tolerances (`Y_TOL`, `HEADER_Y_TOL`, `LABEL_Y_TOL` and the
column distances) are the code's, since which row and column an item falls into
is all the parser decides. The generations share code in the repository as they
do here; where `validate` was copied, the copies differ only in which metrics count as
ratios, which is a parameter (`Validated`), and the pattern tables of V0.4 and of
the copy in the web application, equal for the metrics of `Schema`, are mapped
once. `ReportDocuments` changes a plain report the way the parser tests change their
sample: a label wraps, a number slips, a column is restated, a row is missing, a
unit is declared above, a second table follows; `document.states` is what the
table says after the change, by construction of the document and not by reading
it. No two items lie at one place (`Placed`; for two that do, the code keeps the order
in which the reader delivered them). The loops over rows are recursive functions,
so that they can be proved about. Every operator takes what it needs as an argument rather than in a nested
`LET`, which TLC would evaluate once per use.

**ResearchEngine** feeds the parser's result to the chain as the engine does: what
is not promoted is refused, what is promoted is decided on under every label and
history.

**BoundedBody, ReviewAccess, MemoHandler.** `body[r]` is the body a request reads:
its result, its stream, whether the reader is held, its timer. Chunks, end,
abort, size limit and timer are actions in any order; senders and the provider
may stall for ever. Time passes only while nobody has work to do and no timer is
due (`Tick`, `Waiting`): a single-threaded server runs a due timer before anything
else that takes a second. The wall clock is `clock - setBacks`; timers and abort
signals use the former, sessions, limiter and the remaining time of the provider
exchange the latter, as in the code. `stage[v]` is the one request a visitor has at a
time. Settling and reserving are `ModelBudget`'s and succeed or fail; waiting for
the ledger's lock takes no time here. In open mode the proxy replaces missing
sessions.

**BatchRunner.** `records` is the manifest in memory; `numbered`, `manifest` and `archives`
are the files. The two scripts have actions of their own: a question is reserved, sent,
archived and recorded (`ReserveRequest`, `CallRequest`, `Archive`, `RecordResult`); a sample is
reserved, run in a process and a directory of its own, and recorded (`ReserveSample`,
`RunSample`, `RecordSample`), where a fingerprint other than that of the first sample
fails it, and the last one completes the batch. Each write is a step that may
fail or be cut off by `KillBatch`; `StartBatch` may follow any number of times, and
`StartFails` leaves an output directory after which no batch of questions starts there. **ReviewService** puts all under one
next-state relation: a batch starts a server of its own on localhost with stores
of its own, and the questions have a module of their own, so a behaviour has
visitors, a question or a batch.

**QuestionBudget** has the amounts that `BatchRunner` leaves out, with the numbers of the code:
the estimate of one request, the summary of a batch over its receipts, and the limits at which
an answer that was verified is no success. Amounts are in millionths of a dollar. They
are estimates and no cap: a request that has no answer may have been charged. No
run uses them; a sum over six requests of any size is for the prover.

**QuestionRuns.** `ask[q]` is a POST to the question handler; `at` says where it is:
at the store, in `core.POST`, reserving, calling, settling, completing, or its reply on
the way. Unlike in `OperationStore`, claim and completion are a step each, and `receipt`
is what they leave; what matters here is the run record that is built in between.
A text of the model is the plan or the explanation it amounts to, or `Garbled`; what is no
member of the schema (`QuestionPlan`) is refused by `ValidateQuestionPlan` before anything is
done with it. An event is its name and the part of its details that `validateQuestionRun` compares; a
digest is what it is a digest of. A plan names its company, periods and references as
far as `makeResearchContract` objects to them (`Objectionable`). Runs are validated
where the browser does it. The clock only goes forward here and nobody tampers with
the draft, so its signature is its owner and its age. `over` says that the review has ended,
and with it every session: `core.POST` asks for the session once more (`BeginRun`), so that
a request which is past the first look may become a stored 401. The budget refuses with one code for each status
such a refusal is sent with (`BudgetRefusals`). `sent` is history: the phases whose question really
went to the provider, which a call in the run record does not say.

**UpdateWorkflow.** `step`, `selected`, `parsing`, `material`, `candidates` and
`named` are the state of the React component; buttons that are not shown or
disabled are guards, and so are the panels of the three steps (`MayImport`, `ReviewShown`,
`ImpactShown`). A file that cannot be read, or not in time (`ExtractionFailed`), and one that turns out to be
another report than the one selected (`ExtractionRefused`) leave the page as it was before. `parsing` keeps the source selected when the file was
chosen, as the closure of `processFile` does, and an entry of `saving` keeps what
the closure of `saveVersion` captured. `Saved` is what runs once the lock is
granted, at any later time. `endorsed` remembers the value of each metric when it
was last accepted. Identifiers, parents and the active pointer of the versions
are the subject of `VersionStore` and left out here. `BuildMemoContext` and
`ResolveQuestionEvidence` are what memos and questions later demand of a saved version:
they run the chain again on its report and its evidence. The dialog that confirms
that unsaved work is given up is one step with the action it confirms.

Definitions whose comment begins with "Variant" are not part of any behaviour.
Each is a definition with a plausible mistake in it; it serves to confirm that
the property named for it in `PROJECT.json` fails when the mistake is made.

## 3. What is checked

| Run | Instance | Shows |
|---|---|---|
| `store_contended` | 1 identifier, 2 sessions, 2 inputs, 2 processes with a request each | one provider request, durable answers, implementation of `OperationLedger` |
| `store_recovery` | 2 identifiers, 2 sizes, room for 5 of 6 units, 2 processes, 1 loss of receipts | what a claim reserves covers what its completion writes; writers exclude each other and the operator; admission only to an intact store without hold, and after a restore only when verified; no older receipt comes back |
| `store_liveness` | 1 process, 2 requests | every request is answered, the slot always comes back |
| `budget_shared` | 2 processes, 2 visitors, 3 attempts, windows 2 and 4 on a clock 0..4 | the allowance, both windows, one request in flight, a ledger that only a torn file can spoil, orphans that block |
| `ledger_tabs` | 2 tabs, one of them with the history page, 2 libraries, up to 3 versions, 1 run, 2 reviews | each library is one line of versions and a rollback walks back in it; no regression material enters the research library; no run or review is lost or recorded twice |
| `memo_editors` | 2 tabs, 2 runs, 2 texts, 2 revisions, a review of each kind, 1 change from elsewhere | what was paid for is kept or its loss told; nobody revises or reviews what they had not seen at the click, nor on a source that changed since |
| `client_tabs` | 2 tabs, 2 questions, 4 calls | no operation that may have been paid for is forgotten; a busy page waits for something that will come |
| `client_successor` | 2 tabs, 1 draft, 4 calls | violated: see section 5 |
| `client_refusal` | 1 tab, 1 draft, 4 calls | violated: see section 5 |
| `decision_cases` | 3 layouts with up to 2 of some 30 changes; 12 reports, 7 labels each, histories of up to 3 of 10 rows, all gates, 8 opinions | what is promoted is what the table states; the generations agree; K-07, earnings basis and signal follow the policy; no gate is closed without a human opinion; offered answers are accepted |
| `update_page` | 2 sources, 3 files and the sample, 2 or 3 values per metric, 2 saves | libraries get well reviewed versions of their own sources only, which memos and questions can use; a slow file lands on its own selection only |
| `review_service` | 2 visitors, a review that ends at 3 of 6 ticks, bodies of 1 and exchanges of 2 ticks, the clock set back once; or 2 requests about one of 3 questions, 7 plans, drafts that last 1 of 2 minutes, a review that ends at any time; or a batch of 6 questions or 3 memos | readers let go, the slot is held for a bounded time, logins are limited, memos are settled, no call after the end; runs that the browser accepts, refused evidence is not sent and consumes no task; nothing paid for twice or without a trace |

The type predicates are not among the properties: those of the store, the budget, the
question ledger and the question client are proved (section 4), the others describe
their variables.

*Why these bounds.* The races of the store concern two requests for the same
identifier (owner and input equal or not: two values each), and damage to one
operation that must stop another (two identifiers). Any process can crash and
start again any number of times, and requests arrive without limit, so
behaviours are not cut off; the state space is finite by itself, because an
identifier is never forgotten. Capacity needs a quota that two reservations of
the largest size exceed and a response that is smaller; the limit on the number
of operations, a count compared in `claim`, is not reached with two of them. In the budget, a window of 2 on a
clock of 5 instants can be full, partly expired and expired; the fourth
identifier is the one that would exceed the allowance. `MaxTime` bounds a value,
not the length of a behaviour.

The browser models have bounds on behaviours, since their ledgers only grow:
`MaxVersions`, `MaxReviews`, `MaxRevisions`, `MaxRunReviews`, `MaxAlterations`, and
`MaxCalls`, the number of calls that users and reloads make. Three versions, over
both libraries, are a baseline with an update and a rollback, one of them perhaps
lost between the two writes, or two baselines and a rollback from the wrong page;
two reviews are what two tabs can take from each other; two revisions let a tab
be outdated. A tab has one append of a revision or of its review under way at a time, though a
page that shows another run could begin a second one, and `memo_editors` reviews runs before the
first revision is written only (`BoundedSpec` in `MCMemoRevisions`): a review of a run
only matters to an append of a revision by changing a key between its capture and its write, which one before the first
revision does. The theorems have the first of these bounds only. With `MaxVersions` 2 the library run was also made with two question runs
and the page in both tabs (14.6 million states), where all its properties held. Four calls are a plan, its execution, and two more: a
recovery and a retry, or a second question. The two runs of `PlannedSpec` start
where a plan was made and its answer recorded, a state that `Spec` reaches after
one call, which leaves all four calls to its execution.

One loss of receipts is enough to lose any set of them, after a backup of any
age; once there is a backup one process runs beside the operator (`Beside`), since
races of two are what the states before it show. In `review_service` the deadline
lies where a body can be read across it and an exchange end after it; a limit of
one attempt makes the next one the refused one; six requests are the three
questions of the script with a plan and an execution each. Two requests are a plan
or an execution and a second one that meets it at the store, or the two in turn;
minutes 0 to 2 let a draft be fresh, at the end of its life, and too old.

Two changes to a document are needed for the interactions the parser guards
against: a wrapped label next to a slipped number, a second table under a
restated column. The amounts of the second tables never close the bridge
together with the first: `validate` accepts one number in place of another
only by coincidence, and then nothing in the document tells the parser.

A history of three periods is the shortest with a gap, a repetition or a mixture
before two good periods, and evidence used twice by periods that are not
neighbours. The numbers of `update_page` include an edit of two metrics that
reconciles and one that closes the bridge but contradicts the disclosed growth;
two saves are a save pressed twice, or a second one prepared while the first
waits. Among its reports is one whose profit follows a loss, since growth is relative to
the magnitude of what it is compared with, and one compared with zero. `MaxVersions` bounds the saves of the page, nothing else.

*Deadlock* is checked in every run but two: in `memo_editors`, once each run was
altered from outside as often as the bound allows, nothing is left to edit, and
in `review_service` a question batch whose output directory exists does not start
again.
*Symmetry* is used in the safety runs only, over identifiers, sessions, inputs,
tabs, runs and texts that the instance does not tell apart.

*Fairness* is assumed in `store_liveness` alone, and only as weak fairness of
`Serve(w)`, the request handler: the event loop runs, the wait for the lock is a
loop of 200 attempts 25 ms apart, and the provider call carries a timeout. No
client, crash, restart or command of the operator is forced to happen.

The file system is assumed to keep what a process wrote before it died; loss of
unsynchronised data in a power failure is not distinguished from a torn file.
A failure of `ensure()`, which the code calls before it takes the lock, looks to
everyone like `Acquire`, `Fault`, `Release`. That `holder.json` cannot be
unlinked although it was just created is not modelled; that the directory cannot
be removed is.

## 4. What is proved

For any number of operations, sessions, requests, processes, attempts, tabs, runs,
visitors and reports, and for all limits, from the `ASSUME`s of the modules: functions
have their types, what stands for "nothing" (`Nil`, `Torn`, `"none"`, `"free"`) is not
also a value, sets of identifiers of the budget are finite. A theorem whose property a
run checks shows for every instance what the run shows for one.

`OperationStore_proofs`:

* `TypeCorrect`: `[]TypeOK`. Not inductive alone: that a completion has an input
  to write (`WellFormed`) is kept only because a request holding the lock is not
  idle, part of `LockInv`; the two are proved together (`TypeAndLock`).
* `WritersAreExcluded`: `[]WritersExcluded`, from `LockInv`: who holds the lock
  is inside its section, requests live in running processes, and the unlock
  command in progress means that the lock is nobody's - no step of a request or
  of the operator makes it somebody's again before the command removes it.
* `AtMostOneCall`: `[]AtMostOneProviderCall`, from `CallInv`: a request is
  *entitled* to call from the moment it has created the index directory; two
  entitled requests never share an operation, no entitled request has called, and
  a called operation has its directory, which nothing removes. So the promise
  rests on one `mkdir`, neither on the lock nor on the recovery procedure.
* `FilesConsistent`: `[]FileInv`: the files of an operation form a prefix of the order
  in which its owner writes them, and the one who writes holds the lock and knows how
  far they are. From it `AnswersAreDurable` (`[]AnsweredIsDurable`): a reply on its way
  agrees with index and receipt (`ReplyInv`), neither of which is written again.
* `AdmissionIsHealthy` (`AdmittedOnlyWhenHealthy`), from `AdmitInv`: what a claimant
  saw of the inventory and the hold under the lock still stands when it creates the
  directory. `OperationsAreBounded`: the number of operations stays within its quota.
* `StoreImplementsLedger` (`ImplementsLedger`): the store implements `OperationLedger` step
  by step. An identifier is bound when `claim.json` is written (`WriteClaim`), and decided by
  `Rename`, if completed, or by a mark of quarantine, if uncertain; every other step is a
  stutter, which is where `FileInv` and `CallInv` are needed.

`OperationRecovery_proofs`, over the specification with backup, restore and loss:

* `WritersStayExcluded`, `StillOneCall`, `AdmissionStaysHealthy`, `OperationsStayBounded`: a
  step of recovery keeps what the invariants above say of files, since it takes the lock
  and touches receipts only.
* `ResumesOnlyVerified` (`ResumesVerified`), from `HoldInv`: as long as a restore is unverified
  the hold is there or the restore is at work, and no request owns an operation:
  services were stopped when the restore began, and the hold keeps new claims away.
* `LatestReceiptComesBack` (`[]LatestComesBack`), from `ReceiptInv`: a receipt in the store is
  the one its index expects, and the index is never lost; what a backup says of
  an operation that went on afterwards does not match it and is refused.
* `CapacityHolds` (`[]WithinCapacity`), from `RoomInv`: the space a record may still grow to is
  set aside from its index entry on, `RecordUnits` of it until `completed.json` says the size of
  the response or a mark says that there will be none. Nothing after the entry needs more than was
  promised (`PromisesShrink`), and what a claimant reserved against under the lock still stands when
  it writes. Sums of sizes are sizes of sets of units (`Space`), so that the theorems about finite
  sets add them up and no induction over the operations is needed.

`ModelBudget_proofs`:

* `BudgetTypeCorrect`, `AtMostOneInFlight`, `OrphansBlock`: from `ExclusionInv`:
  there is at most one unresolved attempt, the process that reserved it is the
  only one that holds it, and none exists when a process is about to write.
* `AllowanceHolds`, `RateLimitsHold`, `LedgerStaysHealthy`: from `BoundsInv`: a
  process about to write has counted under the lock it still holds, and no
  attempt is later than the time it read. The last part is why the check
  that the clock went back (`MODEL_BUDGET_CLOCK_INVALID`) is needed: without it
  an attempt in the future escapes the count, and TLC finds a full window.

`QuestionLedger_proofs`:

* `HistoryIsOneLine`, `HistoryWalksBack`, `ResearchStaysApart`: from `VersionInv`. The holder of a
  library's lock is the only one between the writes of its two keys, so what it
  computed from the keys is still right when it writes (`HolderInv`); versions are
  numbered in order and each rests on earlier ones (`LineInv`).
* `LedgerTyped`, `RunsRecordedOnce`, `LedgerOnlyGrows` (`NothingLost`): from `LedgerInv`: what the
  tab inside the lock read is what is stored, however many awaits ago it read.

`MemoRevisions_proofs`:

* `RunsAreKept` (`[]ReturnedIsKept`), from `CallInv` and `JudgingInv`: a review in progress holds
  the ledger's lock, so that the copy it writes back is the present ledger.
* `NothingIsWrittenUnseen`, `SourcesHoldStill`: from `RevisionInv`: equal bytes of the three keys
  mean equal lengths and no change from elsewhere since, hence the same ledgers. The
  lock alone would not do: `Alter` does not take it. What an append is about to write is what
  was asked for at the click, checked against the ledger whose bytes it holds (`Underway`); nothing
  is said of what the page shows by then.
* `LedgerStaysReadable` (`[]LedgerHolds`): no append makes the ledger one that its own reader
  refuses, after which no revision could be read or written any more. Revisions are
  numbered in order, an append in progress has the identifier and the parent that
  fit the ledger it read, and that ledger is still the stored one when it writes.
  `Max` over the places of a run needs that a non-empty set of numbers up to n has a
  greatest (`Greatest`), by well-founded descent. No run checks it; TLC found it invariant under the
  instance of `memo_editors`.

`QuestionClient_proofs`:

* `ClientTyped`. `BusyPagesWait` (`[]BusyForAReason`), from `BusyInv`, which says of each reason
  for waiting what will end it: a call, a lock, or the wait of the user.
* `NothingPaidIsForgotten` (`[]Unforgotten`), from `MemoryInv`: every request on its way and
  every task a page still has pending is accounted for, by the pointer, the
  list of unresolved tasks, the ledger, or because it was turned away. The pointer
  of an operation is erased only after one of the others has it.

`DecisionChain_proofs`, over the update page, the reports, labels and histories of `DecisionCases`, and the
documents of `ResearchEngine`:

* `MaterialIsSelected`: `[]MaterialMatchesSelection`, from `SelectionInv`: while a
  file is read there is no material, and the source it will be compared with is
  the one selected. No step in between may change the selection; the disabled
  selection is what the proof rests on.
* `LibrariesAreReviewed` (`LibraryIsReviewed`). `PageInv` and `SavesInv` say what a page, a save
  and a library consist of: a candidate for every metric that was read, accepted at
  the value it still has, captured with the library of its source. The rest is
  calculation, for all integers: what `ReviewAndRun` lets through reconciles
  (`Rounded`), is watched at most (`OneReportV01` to `OneReportV03`, one lemma per generation of the
  chain), and passes when memos and questions run it again (`SnapshotIsReviewed`). The
  attempt to prove it showed that questions may refuse what was saved (section 5).

* `PolicyDecides` (`[]TriggeredByPolicy`), for histories of any length. What the loop over prior periods
  keeps (`ScanHolds`) is shown of a first period at which it would fail (`ScanFinds`): the library
  has no induction that the installed provers can use, but well-founded minima of sets they can (`Least`),
  and the same argument shows that the recursive function of the loop exists (`ScanUnfolds`). The rest relates
  the count of trailing periods to the last two (`Trailing`), an unverified history to
  none at all (`CountIs`), and the criterion of one layer to the basis and signal of another.
* `OpinionsDecide` (`[]OnlyOpinionsOpenGates`): the gates given by the caller reach the layers below only as
  `EffectiveGates` leaves them.
* `ResultsAgree` (`[]ResultsCohere`): whatever label, history, opinion, gates and valuation is handed
  in, each generation returns a whole result whose parts agree. First of V0.1, then each
  amendment is shown to keep it. The attempt to say it settled the exceptions: an opinion about another
  report has no result at all. No run checks it.
* `OffersAreAccepted` (`[]OfferedIsAccepted`): a group that is closed under what its members require stays
  closed (`ClosedUp`), and there are no more references than may be cited (`ReferencesFit`).
  These are about `CasesSpec`, where reports are any. `EngineDecides` states the three that a run checks
  for `EngineSpec`, the specification of the run, where they come from the parser: what
  the chain needs of a report (`CasesTypeOK`) is that its period is a number and its
  growth one if there is any, and `ParsedHasPeriod` finds that of every document.
* `FiguresPrinted` (`[]FiguresArePrinted`), for documents of any size and number of
  tables: each metric that V0.6 promotes consists of three numbers printed in one
  line, from left to right, and the total is one that is printed. A figure is never
  made up, and a metric never put together from several lines. Nothing is assumed of the numbers, only that items have places of their own. The
  argument follows the reading: items in reading order are numbered by how many
  precede them (`Ranks`, `Sorts`), so that `Sorted` is a sequence of them although
  its elements are chosen; every line is in the reach of one that begins a row
  (`RowsBegin`), so a row keeps within the tolerance (`RowItems`); aligned cells stand in
  their row in order (`CellsInRow`); and the segments and totals that the loops
  over rows keep are made of rows of the document (`SegmentsDetected`, `TotalsChecked`).
  A loop is a recursive function: `Iterates` shows that the function exists, by
  the first step at which it would not, and `Keeps` that what each step keeps
  holds of all. A number joined out of two cells, as `BandNumber` makes it for V0.4,
  is what makes the statement false of that generation.
* `NothingPassesByAccident`: a candidate that passes the review was validated once more, and its
  verdict came, was well formed and supports it in each respect; a judge that fails or
  answers nonsense neither passes nor blocks. `BetterScoresNeverHurt`: a verdict with more
  support never ends worse, over all pairs of verdicts. `OnlyChangesAreReviewed`: the review takes exactly the
  accepted explanations of a change (section 5).
* `BatchStaysInBudget`: a batch that goes on is known to have cost no more than
  was acknowledged, and the estimates of six admitted requests promise no more. `OnlyItsOwnLimitsRefuse`:
  an answer is refused for its own usage only, since the limit of the whole batch cannot be
  reached by six requests within theirs. The sum over the receipts is a recursive function, to which
  `Iterates` and `Keeps` apply. Both assume that no request failed before: a failed request ends
  the batch, and nothing bounds what it used.

`ReviewService_proofs`, over the visitors, the batches, and the service they make up:

* `BodiesLetGo`, `SlotComesBack`, `MemosAreSettled`, `NothingAfterTheReview`: from `MemoInv`, which
  says of every stage of a request since when it has held the slot and until
  when its timer or abort signal will let it. Bounds in seconds hold although a sender
  or the provider may stall, because time does not pass over a timer that is due.
* `BatchPaysOnce` (`[]PaidOnceWithTrace`), from `BatchInv`: the files that a killed batch leaves
  are a prefix of those its requests write, and a request is sent after its reservation
  has reached them.
* `RunsAreAccepted` (`[]RunsHold`), from `RunsInv`: at each
  stage of a request its run has what the conclusion of that stage needs. An opened run has no
  call and no event of one (`Opened`), a called one has asked once (`Called`), an accounted
  one was heard of once, in the words its call has for good (`Accounted`), and whatever is
  concluded from it then is something the browser accepts (`Concludes`). An execution carries a plan
  that the browser would confirm (`Confirmable`), found to have its evidence before the claim.
* `TasksAreSpared` (`[]TaskIsSpared`), from `RunsInv` and `SparedInv`. A request past its claim has
  the plan and the snapshot of the receipt, which never change again, so the second look at the evidence
  finds what the first did and what is sent is the receipt's. As long as nothing was sent, what settles a request
  is a refusal of the budget, which is never reserved and so never fails to settle, or a late one, whose
  reason (`Spared`) stays true: the review stays over and the plan gets no younger.
* `LoginsAreLimited` (`[]LoginsLimited`), from `LimiterInv`. Since the wall clock was last found before
  the window in progress, windows have begun at least `Window` apart and admitted `Limit`
  each, so a stretch as long as a window meets at most two of them (`WindowsHold`); each time before
  that cost a setback of the clock. Attempts are counted as a set of pairs, as sizes are above.
* `ServiceHasItsParts`: the behaviours of the composed service are behaviours of its parts.

Only model-checked:

* `RequestsAnswered` and `SlotReturned`: liveness, where fairness involves `ENABLED`, which is out of
  the reach of the prover.
* `PromotedIsStated`, `GenerationsAgree`: what a table states, and whether it has its
  page for itself, an instance says of its documents. `FiguresPrinted` is the part that holds
  of every document: figures are printed in one line. That it is the right line
  is a matter of how tables are typeset.

## 5. Where the code and its documentation disagree

Each of these runs checks what a test, a comment or a message of the repository
says, and finds a behaviour of the code that does otherwise. `PROJECT.json`
quotes the lines under `findings`.

* `client_successor` (`SuccessorSpared`): a late completion must not erase the
  pointer of a successor. Clearing compares phase and identifier, and a repeated
  execution of one draft has both in common with the attempt before it. A tab that
  still shows the first attempt, settled long ago without a record (turned away, or
  answered with a demand for material), resends it; its completion erases the
  pointer of the second while the second is on its way to the provider.
* `client_refusal` (`RefusalIsFresh`): a refusal by the budget asks the user to
  try again later. It has been stored as the outcome of its identifier by
  then, so the same draft, executed again, is answered with the stored refusal.

Further observations, of which no run is made:

* A review of an answer is said to be bound to the active version. The code checks
  that version, awaits, and writes under the lock of the question ledger; saving
  a version takes another lock, so a second tab may activate a new version in
  between (`apps/web/lib/research-question-storage.ts:98`).
* `performRollback` captures the library at the click and waits for its lock. When the
  user switches the library meanwhile, the page then displays the versions of the
  first under the name of the second (`apps/web/components/research/version-history.tsx:136-151`).
  Until it reads the keys again, a rollback there names a version of the wrong
  library; `appendVersion` refuses what would bring regression material into the
  research library (`LibrariesApart`), so that only `restoredFrom` can name a version
  that its library does not have. `WalksBack` makes that exception (`misplaced`) and
  no other.
* A run that could not be saved is to stay exportable on the screen
  (`memo-panel.tsx`), but `sync()` replaces the displayed runs by the stored ones at the
  next storage event from another tab. `UnsavedStaysExportable` in `MemoLedger` states it; TLC
  refutes it under the instance of `memo_editors`, so it is not part of that run.
* "Gate failures make zero provider requests and do not consume the signed task"
  (`apps/web/lib/research-question.server.ts:215`). Session, draft and evidence are looked at before the
  claim and again after it. A plan that became too old in between leaves a stored 422 as the
  execution of its task, a review that ended in between a stored 401 (`:129-131`, `:161`, `:237`), neither
  with a run. A refusal by the budget, which is no gate, is stored as well, with a run that has a call in it but
  without a request to the provider. `TaskIsSpared` makes these exceptions and no other:
  evidence that is not ready is never sent and never stored.
* A valid version may have no fact against the claim, or none for it. Then no memo
  can cite one, and every memo is refused (`COUNTER_REFERENCE_MISSING`,
  `SUPPORT_REFERENCE_MISSING`, `apps/web/lib/research-memo.ts:214-215`) after its call was
  paid for. `OfferedIsAccepted` says so of memos and shows that nothing alike happens
  to answers.
* A report whose non-recurring items are compared with zero can be reviewed and saved:
  `reviewAndRun` looks at the comparison of the other two metrics only
  (`apps/web/lib/research-engine.ts:123`). `resolveQuestionEvidence` then refuses a comparison with
  zero in any metric (`apps/web/lib/research-question.ts:168`), so no question can be asked about
  the version. `LibraryIsReviewed` makes that exception and no other.
* `buildReviewState` validates an explanation without the contract it was written for
  (`apps/web/lib/adversarial-review.ts:42`), so that the texts of a change are expected of every
  explanation: accepted answers to an evidence audit or about the effects on a decision throw
  before the judge is asked. `OnlyChangesAreReviewed` states it. No route uses the review yet.
* Nothing disables the save button of the update page while a save waits for the
  lock, so pressing it twice stores the same material as two versions; and a save
  granted after the user went back to edit takes the page to its last step, where
  the edits no longer count as unsaved.

## 6. What could follow

1. Theorems: from `FiguresPrinted` towards `PromotedIsStated`, for a class of documents
   described by how a table is typeset instead of by a list of changes.
2. Two processes that initialize one store at the same time
   (`research-operation.server.ts:75-99`).
3. The content checks on wording, as far as they can be told apart without the text.

## 7. Not modelled

* Patterns on prose (`question-content-validation.ts`, the texts of memos), the
  archive scan, prompts, logs and exports: predicates on text, without state.
* The user interface beyond the pages named above, with its vendored widgets.
* Reading PDF files (`pdf-import.ts` and the library it uses): the parser models start
  from its text items.
* Cookie signatures and hashes: cryptography; hashes are taken to be injective.
* Unreadable local storage keys, which stop every writer.
* `initialize`, `inspect` and the command lines of the scripts.

`PROJECT.json` says under `components` what is left of each part, and under `hazards`
why a hazard has no property.
