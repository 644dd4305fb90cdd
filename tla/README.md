# smeta-check in TLA+

smeta-check takes construction estimates (an Excel workbook or a photo), parses
them in the background and shows the lines to their owner. The server is one Rust
binary over Postgres, a directory of files, an SMTP server and a language model;
there is no broker and no Redis: queues are tables, and whatever must not happen
twice is kept apart by statements, locks and timestamps. This directory models that
part of it. Paths below are those of the repository (`server/src/...`).

## Inventory

| Component | State | Operations | Interacts with | What is hard | What makes it correct |
|---|---|---|---|---|---|
| Estimate queue (`estimates/worker.rs`, loop in `jobs.rs`, `replace_lines` in `estimates/mod.rs`) | rows of `estimates` (status, attempts, ages), `estimate_lines` | give up on stuck, claim, parse, replace lines, mark, retry or give up, give back an attempt | files, language model, Postgres | works outside transactions: crash, take-over after 10 minutes, refused or unanswered statements | one verdict per estimate and for good; lines of one attempt; attempts counted exactly |
| Estimate intake (`estimates/http.rs`, `create` in `estimates/mod.rs`) | rows of `estimates`, files | early check, body, save, create (lock, count, insert), remove | file storage, pool of 5 connections, rate limiter | two stores without a common transaction; concurrent uploads; a handler dropped anywhere | the limit per owner; no card without a file; nobody waits for ever |
| File storage (`core/storage.rs`) | files named by id | save, read, remove | intake, queue | a write that breaks off | a file is whole before it is named in the table |
| Outbox and mail loop (`jobs.rs`, `core/mailer.rs`) | rows of `outbox_emails` | send, deliver a batch, retry by the operator, sweep | SMTP server, `bin/ops.rs` | the transaction of a batch spans the SMTP calls; several processes | no copy that is not accounted for; nothing given up early or swept unsent |
| Sessions (`auth/sessions.rs`) | rows of `refresh_tokens` | issue, refresh, logout, list, revoke one/all/others, sweep | login, password change, web client | concurrent statements at READ COMMITTED on rotating rows | one live row per session; what is revoked stays so; the current session is spared |
| Accounts, login, passwords, second factor (`auth/mod.rs`, `auth/account.rs`, `users/`) | rows of `users` | register, login, 2FA, change, forgot, reset, change of address | sessions, outbox, one-time tokens | hashing between two statements; several statements without a transaction | a changed password ends what was opened with the old one |
| One-time tokens (`auth/mod.rs`, `auth/verify_email.rs`, `auth/account.rs`) | three token tables | issue by mail, use, sweep | outbox, users | used before what they allow is done | at most once; a failure does not strand the user |
| OAuth (`auth/oauth.rs`) | `identities` | find or create | users, provider | four statements, no transaction, two first sign-ins at once | one account per identity, with a confirmed address |
| Access tokens and roles (`auth/jwt.rs`, `auth/http/mod.rs`) | none | sign, verify | every handler | role stays as signed for 15 minutes | - |
| Language model (`core/llm.rs`) | `llm_calls`, retries | budget check, call, record, sweep | photo parsing, queue | check, call and record are three steps | the daily cap, retries only where they help |
| Photo parsing (`estimates/photo.rs`) | none | read, ask, check the answer | language model | telling bad answers from a failed provider | only complete and consistent lines are taken |
| Workbook parser (`estimates/parse/`) | none | header, sections, lines | queue | numbers and headers in many forms | deterministic: the same file gives the same lines |
| Rate limiter (`core/rate_limit.rs`) | counters per key, in memory, kept by the library `governor` | hit, sweep | auth and upload routes | - | the library's |
| Operator commands (`bin/ops.rs`) | none | promote, outbox list/retry, config check | users, outbox | run beside the server | - |
| Start, stop, health (`bin/api.rs`, `lib.rs`, `core/health.rs`) | shutdown channel | spawn loops, serve, stop | both loops | a stop in the middle of a job | a stop is no worse than a crash |
| Reading estimates (`estimates/http.rs`) | none | list, get | queue | card and lines are two statements | what is shown as parsed is whole |
| Web client session (`web/src/api/client.ts`, `web/src/auth/AuthContext.tsx`) | access token in memory, refresh cookie | request, refresh on 401, logout | sessions | two refreshes at once, several tabs, a lost response | one refresh at a time; a user is not signed out by a race |
| Web pages, configuration, errors, translations, telemetry, bot, scripts | - | - | - | - | not state that other parts share |

`PROJECT.json` lists the same components with what is modelled of each, and under
`hazards` every line where one of the hard behaviours bites.

## Modules

| Module | What it is |
|---|---|
| `EstimateQueue` | the queue of estimates with its workers, and the refinement mapping to `EstimateLifecycle` |
| `EstimateLifecycle` | what the user is promised about an estimate, abstractly |
| `MCEstimateQueue` | its instance for TLC |
| `EstimateReading`, `MCEstimateReading` | a reader of the API composed with the queue |
| `EstimateQueueProofs` | theorems about the queue, its refinement and its reader |
| `EstimateIntake`, `MCEstimateIntake`, `EstimateIntakeProofs` | uploads |
| `EstimateParse`, `MCEstimateParse`, `EstimateParseProofs` | from a workbook, or the model's answer about a photo, to lines |
| `LlmBudget`, `MCLlmBudget`, `LlmBudgetProofs` | calls of the language model and their daily ceiling |
| `Outbox`, `MCOutbox`, `OutboxProofs` | mails |
| `Sessions`, `SessionsProofs` | refresh tokens |
| `SessionAnswers`, `MCSessions` | an observer composed with `Sessions`: what each request promised to end |
| `Credentials`, `MCCredentials`, `CredentialsProofs` | what opens an account and what changes it: login, second factor, passwords, reset links |
| `Accounts`, `MCAccounts`, `AccountsProofs` | how accounts come to be, how addresses are confirmed and changed, first sign-in through a provider |

Conventions of all of them:

* One action is one statement of the code, since every statement is atomic in
  Postgres and everything between two of them may be interleaved. Where one
  statement is not atomic enough (a scan that waits for rows), it is several
  actions. Code between two statements that touches only locals is part of the
  action of the statement before or after it.
* A statement may be refused (an action of its own, or a disjunct), and one that
  was applied may lose its answer, where that makes a difference to the code.
* Time is abstracted to the comparisons the code makes: a row is or is not stale,
  expired, old, of today. An action of the environment sets the flag at any moment
  the clock could.
* Variables marked `history` are not in the program; no action reads them.
* Operators named `X_Something` are wrong versions of `X`, each the kind of bug
  its property is there to catch.

### EstimateQueue

`status`, `attempts`, `error`, `lines` are columns; `stale` stands for
`parsing_started_at` more than `STALE_AFTER_MINUTES` ago, `expired` for `created_at`
more than `GIVE_UP_AFTER_HOURS` ago. A worker is one process; `pc`, `job`, `tries`,
`done`, `seen` are the locals of `run_pending`, `run_one`, `replace_lines`.
`GiveUpOnStuck` and `Claim` are the statements at the start of a tick;
`ReadOrParseBreaks`, `ParseWorkbook`, `PhotoAnswered`, `ProviderFails` the four ways
an attempt goes; `DeleteLines` takes the snapshot of the DELETE and `InsertLines`
applies the transaction at its COMMIT; `MarkParsed`, `MarkFailed`, `RetryOrGiveUp`,
`GiveBackAttempt` are the closing UPDATEs, which go by id whatever the row says by
then, and `StatusNotUpdated` is any of them refused. `judged` is history: the answers
of the model that `photo::parse` read, whether as lines or as a bad answer. `ProviderFails`
is every `PhotoError::Provider`; some of these calls are billed all the same (a timeout, a
body that is no JSON), which is not this module's to count: see `LlmBudget`. `Crash` loses the locals and the
open transaction. `JobsMayStall` tells whether a live worker may keep a job longer
than the stale age: a photo makes one provider call, cut off after 60 seconds
(`llm.rs:31`), against the ten minutes of the stale age, so the code counts on FALSE;
the theorems that need it say so, and the others hold even with TRUE.

Simplified: a DELETE that meets rows another transaction is deleting waits for it;
here the two sets are subtracted in either order, which gives the same outcomes.
`SKIP LOCKED` may skip a row another worker is changing, and only then.

### EstimateReading

`get_estimate` reads the card (`Get`) and the lines (`LinesOf`) in two statements, and
answers with the second. `list` is one statement. `read` is what the handler has by
then; any step of the queue may come between.

### EstimateIntake

One request is one call of `upload_estimate`; `pc` is its place, from the early check
to the removal of the file. `file` is what the disk has under the id of the request,
`cards` the committed rows. `Begin` takes a connection of the pool, `Lock` the advisory
lock of the owner, `Count` is a statement after it and sees what was committed by
then. `Cut` is UPLOAD_TIMEOUT, a client that leaves, or a kill. A COMMIT may always be
applied and reported as an error (`Commit`), and the handler then removes the file.
Statements outside the transaction take a connection only for a moment and are not
counted.

### EstimateParse

The walk of `parse` over sheets and rows (`Open`, `NextSheet`, `TakeRow`, `FinishBook`)
and of `to_lines` over an answer (`TakeAnswerLine`, `FinishPhoto`). What decides is pure
and is operators: `ColumnsOf` and `Find` are `header.rs`, `ParseRow` and what it uses
`line.rs`, `OutOfBounds` and `CutRow` `book.rs`, `Usable` and `NumbersAgree` `photo.rs`.
A cell is what the code asks of its text: the header words it contains, its shape (a
unit, too short for a title, too long for a unit), and whether it is a number. Which
texts give which answers to these questions (`parse_number`, the word lists) is not
modelled. A field of a line is the column it came from, so a number in the wrong place
is told from the right one. A line of a photo keeps its numbers, in hundredths, so that
both tolerances of `numbers_agree` are met: a hundredth of the sum, and a hundredth of one.

### LlmBudget

`spent` is the sum of `llm_calls` per day of age. `SpentToday` is the question before
a call, `Answered` and `Unanswered` are the provider, `Record` the INSERT after it,
`RecordFails` an INSERT that fails or a process that ends first. `Midnight` is
`date_trunc('day', now())` moving on, in the middle of calls. `billed` and `unknown`
are history: what the provider bills today, and what of it no row will tell of.

### Outbox

`state` and `attempts` are columns; `batch[s]` is what the open transaction of
process `s` knows of each mail. `SendAccepted` is the SMTP server taking the mail,
whether or not its answer arrives; `Commit` publishes the outcomes of a batch at once;
`Break` is every `?` in the loop, a COMMIT that fails, a kill: the outcomes are
forgotten, the mails are gone. `RetryEmail` is the operator's command and waits for a
locked row as an UPDATE does.

### Sessions and SessionAnswers

One user. `row` and `session` are columns of `refresh_tokens`, a session is named by
its first token. Statements are taken apart as Postgres runs them at READ COMMITTED:
`Start` fixes the set of rows of the snapshot, `Visit` waits for the lock of a row and
tests the WHERE again on what the row is by then, and the end of the statement changes
the rows that were kept. A row that was not in the snapshot is never visited. `Rotate`
is the COMMIT of `refresh`; the locks of its UPDATE last until then. The other requests
are transactions of one statement, except `revoke_others`, which reads the current
session in a statement before. How Postgres locks is knowledge from outside the
repository and marked external in the map.

`SessionAnswers` adds what each request is to end, fixed when its statement begins
(`promised`), and the part of it that no refresh worked on meanwhile (`steady`). What
appears later is none of its business. It constrains no step of `Sessions`.

### Credentials

One account. A request reads the row of `users` once (`ReadAccount`, with the verdict of
the handler), and writes in later statements (`IssueSession`, `SetPassword`,
`RevokeAll`, `SetSecret`, `UseLink`, ...); `Break` is a statement or a hash that fails, or
a client that leaves, before any of them. `seen` is history: the states of the account
since the request began. `first` is history too: the request whose pending token a second
step presents, so that `SignInIsProven` can ask of a sign-in in two steps that its first
step was passed. A password is equal to itself only; hashing takes time and is
the gap between two steps. A TOTP code is told by the secret it was made from, so a code
of the current window is assumed fresh. Sessions are as coarse as they can be: live,
ended, or in the middle of a refresh, where an UPDATE does not reach them; `Sessions`
justifies this row by row.

### Accounts

Several accounts and handlers. `email`, `verified`, `password` are columns of `users`,
`identity` is the row of the visitor's identity, `link` the rows of the two token tables
with the mailbox each was sent to. A handler is a sequence of steps, named after the
statement it is to make next. Whether an address is free is asked in one step (`look`,
`free`, `check`, `match`) and relied on in another (`create`, `move`, `adopt`), where the
unique index decides again. `proven`, `told` and `left` are history: the addresses that
were reached or vouched for, the notices to old addresses (and those that were lost, when a
handler broke off before sending one), and the addresses that accounts have moved away
from. A link is opened only by one
who reads the mailbox it was sent to. The address that comes with an identity is the
provider's, if its configuration trusts it with one (`trust_email`), and else a synthetic
one.

## Runs

| Run | Question | Bounds | Outcome |
|---|---|---|---|
| `one_worker` | Does one process, which may crash anywhere, keep the promise of `EstimateLifecycle`, and does every estimate settle for good? | 2 estimates, 2 attempts, batches of 2 | holds |
| `two_workers` | Do two processes keep out of each other's way when jobs end before the stale age, and does a reader see whole estimates? | 2 estimates, 2 attempts, 1 reader | holds |
| `intake` | Limit, no card without a file unless its upload was answered with an error, truthful answers, and an end of every upload | 3 uploads of one owner and 1 of another, limit 2, 2 connections | holds |
| `card_without_file` | Does every card have its file? | same | violated |
| `parser` | Are headers read as meant, is no row lost, is no number guessed, does every limit hold? | every header of three cells out of 13 over one row of work out of 7, books at the limits, answers over 11 values of each number | holds |
| `budget` | How far can a day pass the ceiling? | 3 processes, a ceiling of two calls, 2 tokens lost a day, rows kept for 1 day | holds |
| `outbox` | Copies, give-ups, sweep, and an end for every mail | 2 processes, 3 mails, one of them bad, batches of 2, 2 attempts, 1 break, 1 retry | holds |
| `sessions_safe` | One row per session; is the current session spared; do revocations end what stood? | 4 tokens, 2 requests of any kind at a time | holds |
| `revoke_misses` | Does `revoke_all` end every session it began with? | 3 tokens, 2 requests | violated |
| `credentials` | Has whoever opens a session passed each step; who sets the password or turns the second factor on or off; what does a new password end? | 3 requests of any kind, 1 link, 2 passwords, 2 secrets, any account to begin with | holds |
| `stale_login` | Does a changed password open nothing any more? | 2 requests | violated |
| `accounts` | Is what counts as confirmed confirmed, an identity bound to the account of its address, a change announced; does the visitor get in? | 1 handler of any kind beside the visitor, 3 accounts, 2 addresses, 2 links, 1 failure | holds |

Why the bounds are enough. The queue's rules compare one row with one worker; two
estimates are needed for the order and the batch, two attempts for a first and a last
one. Three uploads against a limit of two are the smallest number with one too many; two
connections are the smallest pool in which one upload can wait for the lock while another
has it. Three mails and batches of two leave one behind a batch, and two senders are
enough to meet. Four tokens are a session that is rotated twice beside another, or two
sessions that are each rotated. `parser` needs three cells because the columns of a
header take part in one rule at most three at a time (price, total, cost), and two rows
because a row is judged by one header above it. `budget` needs a third process to see
that calls under way add up, and a sweep of the oldest day. In `credentials` a race has a
reader and a writer of the account, and a third request may make either of them stale, or
hold the pending token of the other. In `accounts` the visitor only signs in through a
provider, again and again; the one handler beside him is of any kind, a sign-in with the
same identity included, and serves one request after another. Two requests of other kinds
therefore never run at once there: they meet through the links, of which two may be out
together, and through what the first has left in the tables. `AccountsProofs` covers any
number of handlers side by side. The theorems below hold without the bounds.

`CHECK_DEADLOCK FALSE` is set where the model really ends: a finite number of uploads,
mails, tokens, requests and rows is used up. The runs of the queue check for deadlock,
since its loop never ends.

### Fairness

* Queue: the loop of `spawn_estimates` ticks and every call in it returns (weak
  fairness of `RunPending`), and a day passes (weak fairness of `Expire`). Parses,
  claims and statements may fail for ever. The database is not assumed to refuse
  `give_up_on_stuck` for ever.
* Intake: a handler that can go on does. Neither the timeout nor an error is counted
  on, so `EveryUploadEnds` shows that lock and pool by themselves never leave all
  waiting for all.
* Outbox: the loop of `spawn_mail` ticks. The number of broken batches is bounded: a
  database that breaks every batch delivers nothing, and so would the code.
* Accounts: the visitor keeps trying (weak fairness of `SignIn`) and his handler goes on
  (weak fairness of `FindOrCreateUser`); statements fail a bounded number of times. A
  person who gives up, or a database that always fails, gets no account.

### What the violated runs show

* `card_without_file`: if a COMMIT is applied and its answer is lost, `create` returns an
  error and the handler removes the file, taking it that there is no card
  (`http.rs:141-144`). The card is there: the estimate without a file that the comment at
  `http.rs:120-121` is about. `FileBehindCard` shows that this is the only way to one.
* `revoke_misses`: `refresh` is one transaction, as its comment says it must be so that
  "log out everywhere" misses nothing; but an UPDATE of many rows does not see a row
  committed while it waits for the row it replaces.
* `stale_login`: `login` reads the hash, verifies it for some tens of milliseconds and
  issues a session in a later statement. A password change that begins and is answered
  in between ends the sessions there are, and the old password opens one more.

Seen on the way and not given a run of their own:

* With several processes and jobs longer than the stale age, a holder that was overtaken
  writes to the row and its lines by id: a parsed estimate is reopened, or has the lines
  of two attempts. `compose.prod.yaml` runs one process, and a job is cut off after a
  minute.
* `retry_or_give_up` leaves `error_key` as it is, so a retry after another process's
  give-up shows an error on an unfinished estimate (`estimates/mod.rs:66` says only a
  failed one has it). An estimate whose last attempt was cut off is taken by no claim and
  waits for the 24 hours of `give_up_on_stuck`.
* File and card have no common transaction: the files of uploads that are cut between the
  two stay, and `MAX_PER_USER` does not count them.
* An attempt that ends in `PhotoError::Provider` is given back (`worker.rs:166`), though a
  call that timed out, or was answered with a body that cannot be read (`llm.rs:107-131`),
  may have been billed. One photo can therefore cost more billed calls than `MAX_ATTEMPTS`;
  `JudgedBounded` bounds only the answers that were read, and the bill is bounded by the
  daily ceiling alone.
* A header is looked for by words, and the row found is skipped. In a sheet without a
  header a row of work with two of the words («Подготовительные работы», «ед.») is taken
  for one and is no line, not even as raw text, against `parse/mod.rs:3-5`.
  `NothingIsLost` therefore lets one row that says two columns go.
* «Стоимость единицы» after a column «Цена», in a header without a total, is taken for
  the sum (`header.rs:95-106`), although `header.rs:42-43` and `:91` call it a price.
  `ColumnsAsMeant` and `NumbersAreTheSheets` name this case (`UnitCostForSum`) and claim
  the column of sums in every other; the run contains such headers.
* `to_lines` drops a line of the answer that has no name, with its numbers
  (`photo.rs:119-121`), although its comment says that nothing is thrown away
  (`photo.rs:113`). `NothingIsLost` claims the named lines only.
* A change of the address whose handler breaks off between its two mails, the link and the
  notice, goes through untold. `OldAddressIsTold` excuses exactly this one, by the notice
  that was lost, and no other failure.
* An account is found by its address and bound by its id two statements later; by then it
  may have moved to another confirmed address. `BoundByAddress` allows that and nothing else.
* Failures counted in a batch of mails that breaks off are forgotten, so a mail may fail
  more often than `MAX_SEND_ATTEMPTS`, and one that went out in it goes out again
  (`CopiesAccounted` says exactly how often).
* A logout names a token and not a session: one that is overtaken by the rotation of the
  token leaves the session open.
* A reset link is spent before the password is set, and a link of an address change before
  the address is found taken: the user has to ask again.
* Two first sign-ins through a provider at once: the one that loses answers 500, though
  the next one works. An account whose first sign-in broke off before
  `set_email_verified` is bound by the next one and stays unconfirmed.
* Two changes of the address confirmed one after the other: an address in between may not
  be told, since the notice goes to the one that was current when the change was asked for.
* A header «Цена за ед.» contains the words of two columns; the number under it is then
  taken for the unit as well.

## Proofs

TLAPS proves the following for every value of the constants. The assumptions are the
`ASSUME`s of the modules: finite sets of workers, requests, mails and tokens, positive
limits, values that differ from `None`.

| Theorem | States | Argument |
|---|---|---|
| `EstimateQueueProofs!TypeCorrect` | `TypeOK` of the queue; in particular attempts never exceed the maximum | inductive together with the accounting: an attempt is only added below the maximum |
| `EstimateQueueProofs!AttemptsAccounted` | `AttemptAccounting` | inductive: each action moves an attempt between "in hand" and "spent", or gives it back with the row |
| `EstimateQueueProofs!AnswersCostAttempts` | `JudgedBounded` | `JudgedInv` bounds the answers read by attempts that can no longer be given back; with the accounting these are at most the maximum |
| `EstimateQueueProofs!JobIsExclusive`, `LinesNeverDoubled`, `ParsedNeverEmpty`, `VerdictsAreEarned`, `ParsedForGood` | `ExclusiveJob`, `NoDoubledLines`, `ParsedHasLines`, `CondemnedAfterAllAttempts`, `ParsedIsFinal` if jobs do not stall | `QueueInv`: a held row is parsing and not stale, or was given up by the sweep; so no claim reaches it, its holder's count is the row's, and nobody else changes its lines |
| `EstimateQueueProofs!OneWorkerImplements` | with one worker the queue implements `Lifecycle!Spec`, the safety part of `EstimateLifecycle`, even if jobs stall | `SoloInv`: the row in hand is parsing and its lines are one batch. `Upload` maps to `Accept`, `MarkParsed` to `Succeed`, the verdicts of failure and the sweep to `Fail`, everything else to a stutter |
| `EstimateQueueProofs!ShownWhole` | `ParsedIsShownWhole` if jobs do not stall | `ReadingInv`: "parsed", once read, is still true when the lines are read, by `ParsedStays`; and then they are one batch, by `QueueInv` |
| `EstimateIntakeProofs!LimitSafe` | `LimitHolds` | `LimitInv`: one holder of an owner's lock, and room for one more card while he is past the count |
| `EstimateIntakeProofs!CardsStandOnFiles` | `FileBehindCard` | `FileInv`: the file is whole from `begin` on, and a request with a card comes to `remove` only by a lost answer, after which it answers an error |
| `EstimateIntakeProofs!AnswersTrue` | `AnswersAreTrue` | `AnswersInv`: a card and a verdict are only seen at `remove` or later, and cards only grow |
| `EstimateParseProofs!ColumnsRead` | `ColumnsAsMeant`, for rows of any length | below; where the two oracles for the cost differ, a cell says price and cost, so there is a price column, and only a missing total makes it matter |
| `EstimateParseProofs!LinesAreKept`, `NumbersAreTaken` | `NothingIsLost`, `NumbersAreTheSheets` | `WalkInv`: the header is the one of the sheet being read; every row before the place is blank, the header or a line; every line stands before the place |
| `EstimateParseProofs!LimitsKept` | `LimitsHold` | `BoundsInv`: a book that is walked passed the limits, and no field names a column beyond the cut rows; `WalkInv` bounds the lines |
| `LlmBudgetProofs!DaysStayBounded` | `RecordedBounded` | `BudgetInv`: what is recorded and the most that the calls under way can still add are together within the bound; a call is let out only while the record is below the ceiling |
| `LlmBudgetProofs!BillStaysBounded` | `BilledBounded` | `BilledInv`: what is billed is recorded, or lost, or owed by calls that were answered and not recorded yet |
| `OutboxProofs!MailTypes`, `CopiesCounted`, `GivenUpRightly`, `SweptRightly`, `SettledStays` | `TypeOK` and the other safety properties of the run `outbox` | `OutboxInv`: a mail in a batch is queued and in no other batch, and refusals not yet in the row are in a batch |
| `SessionsProofs!OneToken`, `CurrentSpared` | `OneTokenPerSession`, `CurrentIsSpared` | `SessionsInv`: a locked row is still as its holder saw it; without that, two rotations of one token would each see it alive |
| `SessionsProofs!AnsweredIsEnded` | `EndsWhatStands` | `SteadyInv`: every row left of a session that is to end and is not being refreshed is one the WHERE picks, and the statement still comes to it or has it locked. Only a rotation adds a row to a session that has begun |
| `CredentialsProofs!SessionsAreEnded`, `LinkResetsOnce` | `ChangeEndsSessions`, `ResetOnce` | `SessionsEnd`, `LinksApart`: a session is opened once, so what stood when the password was set cannot come back after `RevokeAll`; a link belongs to the one mail it was made for and to at most one reset that used it up |
| `CredentialsProofs!SignInProven`, `PasswordAuthorised`, `SecretAuthorised` | `SignInIsProven`, `PasswordIsAuthorised`, `SecretIsAuthorised` | `Grounds`: a request that comes to a write has seen the account in a state that allows it; together with what each kind asks for (`CallShape`), the steps it gets to (`StepsOfKinds`), and `TokensEarned`: a pending token is there only for a first step that was passed, and stays its own |
| `AccountsProofs!IdentityFits` | `BoundByAddress` | `AccountsInv`: a handler about to bind knows an account that has the address, or has left it for a confirmed one |
| `AccountsProofs!OldAddressTold` | `OldAddressIsTold` | `TellInv`: a link to a new address is mailed only by a handler that goes on to tell the old one, and whoever opens it finds that done, about to be, or broken off in that very handler |
| `AccountsProofs!ConfirmedIsReached` | `VerifiedIsReached` | `AccountsInv`: a handler about to confirm an account knows a proof of the address it has. What a handler or a link relies on outlives the steps of the others, because each of them is `Steady`: an account keeps its address or moves to a proven one, and a link keeps what it is for and where it was sent |

`OneTokenPerSession`, `LimitHolds`, `FileBehindCard`, `LimitsHold`, `CopiesAccounted`,
`VerifiedIsReached`, `ChangeEndsSessions`, `EndsWhatStands` and `NothingIsLost` are not inductive by
themselves: nothing in them says what a request, or the walk, knows between two of its
steps. The strengthenings say exactly that, and TLC checked them before they were
proved. They stand at the end of the modules they are about, as conjunctions of named
parts; only `BilledInv`, which speaks of a function TLC cannot enumerate, stands with its
proof and was not tried first.

Three arguments are of a different kind.

* Headers. `Seen` walks over the cells of a row of any length as a recursive function,
  and `ColumnsMeant` says without a walk what a header means. `SeenIs` shows that after
  `i` cells the walk has seen exactly the first columns of each kind among them. Since no
  induction rule over an operator can be used here, it takes the least `i` at which the
  two differ (`LeastNat`, from the well-foundedness of the natural numbers) and refutes it
  with the equation of the function and `SeenStep`. `HeaderSays` and `ColumnsSay` carry
  the result to what the lines of the estimate rest on.
* The bill. `BilledInv` needs a sum over the callers. It is carried as a function on the
  sets of callers that adds up what each owes; each step changes the debt of one caller
  (`ShareChanges`), so the function of the next state is written down and no induction on
  the number of callers is needed.
* Refinement. `Lifecycle` reads the abstract status and lines off the row. The theorem is
  stated for one worker, as in the deployment, and needs no assumption on how long jobs
  take; with several workers it would be false: the sweep of one may give up a row that
  another has in hand and then marks as parsed.

`ParseAssumption` says of the workbooks and answers only what shape they have: cells that
are `Cells`, rows and sheets of any length, numbers or none. The limits are any natural
numbers.

Only model-checked: liveness under fairness, which is beyond the prover:
`SettlesForGood`, `EveryUploadEnds`, `EveryMailEnds`, `SignInWorks`, and the liveness
part of `ImplementsLifecycle`. The properties of the three violated runs do not hold
and are not theorems.

## Not modelled

* Rate limiter: the counting is done by a library; the repository chooses keys and quotas.
* Web client session and pages: the client keeps an access token and calls what the server
  modules model. `ClientSession` is in the plan.
* Tokens signed by `jwt.rs` beyond the pending one of the second factor: a signature check
  over one request, without state.
* The exchange with an OAuth provider before `find_or_create_user`, and the cookies.
* Start, stop and health: wiring; a stop is a crash of the queue and a break of a batch,
  which are stronger.
* Configuration, translations, error formatting, telemetry, the bot stub, the API schema,
  build and deployment: conversions and wiring without shared state.

## Plan

1. `ClientSession` composed with `Sessions`: one refresh at a time in a tab, the first
   refresh of `AuthProvider`, several tabs, a lost response, logout beside a refresh.
2. What several processes may do to a verdict, as a theorem: only a row that the sweep of
   another process gave up while it was in hand ever leaves `failed`.
