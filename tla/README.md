# Verification of Simplifi (FlowCompliance)

TLA+ models, TLC runs and TLAPS proofs for the employment equity forms of this
repository: what its forms, handlers and event store may be relied on for when
requests interleave, answers get lost, and users move on before they arrive.
Every definition is translated from the code; `PROJECT.json` says from which lines.

- [1. The system](#1-the-system)
- [2. Modules](#2-modules)
- [3. Runs](#3-runs)
- [4. Bounds](#4-bounds)
- [5. Fairness](#5-fairness)
- [6. Proofs](#6-proofs)
- [7. What does not hold](#7-what-does-not-hold)
- [8. Not modelled](#8-not-modelled)
- [9. Plan](#9-plan)

## 1. The system

A Fastify API (`apps/api`) over PostgreSQL with row-level security, a React
application (`apps/web`), and schemas and rules they share (`packages/shared`).
A tenant is an employer. It fills in four statutory forms (EEA2, EEA4, EEA12,
EEA13), its employees fill in EEA1, its CEO signs the EEA2 with a TOTP code, and
every change leaves an event in `eea_events`.

| Component | State | Operations | Hard behaviour | What makes it correct |
| --- | --- | --- | --- | --- |
| EEA2 draft routes (`routes/eea2.routes.ts`) | `eea2_drafts` row: status, JSON state; events; notifications | create, PATCH state, PATCH status, PATCH, PUT, sign, reject | transactions at READ COMMITTED that read, decide and update by id; two of them answer before they commit | a signed draft stays; status, trail and notifications agree; answers are true |
| EEA2 event routes (`routes/eea2/events.ts`) | append-only events | append, page through with filters, replay | appends between pages, cursors | pages cover the trail in order |
| Replay and projection (`event-store/*.ts`) | drafts rebuilt from events | replay to an event, rebuild, several jobs at a time | ties on `createdAt`, events that commit late, jobs that overlap | a snapshot is of its moment; the projection is the fold of the events and does not go back |
| Generic append (`routes/event-store.routes.ts`) | events | one INSERT | - | - |
| EEA1 routes (`routes/eea1/*.ts`) | declaration with five encrypted columns; events | POST, PATCH, GET | overlapping PATCHes of one tab | events and row agree; no encrypted value in the events |
| EEA1 page, autosave (`hooks/use-eea-autosave.ts`, `PopiaConsentGate.tsx`) | pending fields, a timer, the request in flight | consent, edit, flush, leave | a flush aborts the request before it, which the server may carry out all the same | edits arrive; nothing before the consent |
| EEA1 page, sections (`components/eea1`, `eea1-new.tsx`) | what the sections show, the canvas, the status of the post | edit, draw, clear, resize, submit | a canvas that empties itself, an answer that hides other answers | who signs has signed; what depends on an answer travels with it only |
| EEA2 autosave queue (`features/eea/hooks/use-eea-autosave.ts`) | a queue of edits, two timers, a request in flight, waiting promises | `autosave`, `flush`, `cancel`, retry | four callbacks may start a request; lost answers | one request at a time; what is reported saved is stored; nobody waits for ever |
| Audit panel (`components/eea/AuditHistoryPanel.tsx`) | filters and cursor in the URL, list, cursor of the next page, the drawer | filter, load more, back, reload, open an event | answers of aborted requests, appends between pages | the list shows the filtered trail, in order, once |
| EEA2 wizard (`features/eea`) | step, form state, completed steps, section B total, unsaved flag | edit, move, Next, submit | the closure of a render is used after an await | what is called complete is stored; edits are not lost silently |
| EEA2 sections, matrices, prefill (`components/sections`, `occupational-matrix`, `use-prefill.ts`) | section data, focus, flags of the wizard context | edit, paste, focus, blur, flag | an answer of a save takes the section away; a prefill answers late; a flag outlives its figures | matrices add up; flags are those of the figures; each edit of a cell is an event |
| EEA2 signing page (`eea2-signing-ceremony.tsx`) | entries, messages, one request | enter, sign, retry | a lost answer, a request carried out late, a form that changes meanwhile | a form is signed once, but for requests that overlap, and shown as it is |
| EEA4 form (`features/eea4`) | report, linked EEA2, a local copy per section | link, edit, paste, blur, move, sign | the list of EEA2s arrives late and changes; two copies | head counts are the EEA2's; the CEO signs figures that agree |
| EEA12 form (`features/eea12`) | barriers, profile, comparison, two fetched tables | edit, prefill, link another EEA2 | an answer of the EEA2 before; tables with a part missing | nobody is lost or counted twice; the comparison is of the profile |
| EEA13 form (`features/eea13`) | plans, goals, editors with drafts, removal actions | edit, add and remove years, goals, actions | an editor that remembers a position while positions shift | an edit reaches its goal; goals meet the minimum; severities stay beside their barriers |
| Submission bundle (`features/submission-bundle`) | period, evaluation, confirmation | look, select, prepare | overlapping looks, an effect that may repeat for ever | the page shows the newest look; only what may be submitted is recorded as validated |
| Compliance dashboards (`features/compliance`) | what is asked for, two requests, a company | ask for another tenant or report | answers of aborted requests, one of two missing | both tables are of one request; nobody is lost in the figures |
| Validation engine and rules (`packages/shared/src/validation`) | none | evaluate | rules that read flags other rules set | the order decides nothing |
| Accounts (`routes/auth.routes.ts`, `routes/totp.routes.ts`) | users, secrets, backup codes, tokens | sign in, refresh, enrol, redeem, reset | two statements without a transaction | a code works once; its list is that of the last enrolment |
| Internal signer (`providers/signing`) | codes and chains in memory | issue, sign, verify | restart, a second code before the first is used | codes are used once, chains verify |
| Tenancy, ciphers, employer profiles, LLM and sanitisation providers, bootstrap | - | - | - | see section 8 |

How they interact: the wizard, its matrices and the forms call the draft and event
routes over HTTP; a request may be refused, overtaken, carried out although it was
aborted, or answered without the answer arriving. The handlers meet only in
PostgreSQL: in the row lock, the unique indexes and what a READ COMMITTED read
sees. The event store, the draft row and the notifications are written in one
transaction by sign and reject; the wizard's sections go to the draft row and its
matrix cells to the event store, and the projection joins the two. EEA4 and EEA12
take their head counts from an EEA2, EEA13 its workforce and barriers from an EEA12,
the bundle and the dashboards read an EEA2 and an EEA4.

The hazards of this code are listed in `PROJECT.json` at their lines, each with the
properties that would catch it.

## 2. Modules

| Module | Models | Lines of the code it stands for |
| --- | --- | --- |
| `Eea2Draft` | the draft and every handler that changes it, one transaction per request | `eea2.routes.ts` 24-470 |
| `Eea2Lifecycle` | the abstract specification: one step per request | - |
| `Eea2Refinement` | `Eea2Draft` implements `Eea2Lifecycle` | - |
| `Eea2DraftProofs` | theorems about both | - |
| `AutosaveQueueProofs`, `AuditHistoryProofs`, `Eea2WizardProofs`, `BundleDashboardProofs`, `ReportFormsProofs`, `ApiServicesProofs` | theorems about the module of that name | - |
| `AutosaveQueue` | the hook with `retryOnFailure` and POST events | `features/eea/hooks/use-eea-autosave.ts`, `eea2/events.ts` 110-150 |
| `AuditHistory` | the panel and GET events | `AuditHistoryPanel.tsx`, `eea2/events.ts` 172-235 |
| `Eea1Page` | consent gate, autosave hook, PATCH declaration | `PopiaConsentGate.tsx`, `hooks/use-eea-autosave.ts`, `eea1/declarations.ts` |
| `Eea1PageProofs` | theorems about it | - |
| `Eea2Wizard` | the wizard of one tab over PATCH state and PATCH status | `use-eea-wizard.ts`, `eea-wizard.tsx`, steps C2 and review of `wizard-step-registry.tsx` |
| `BundleGate` | the cross-form rules, the engine and the gate, as operators | `validation-rules.ts` 329-484, `validation/engine.ts`, `bundle-gate.ts` |
| `BundleDashboard` | the submission bundle page | `BundleDashboard.tsx`, `routes/submission-bundle.tsx` |
| `MatrixGrid` | a matrix, its totals and pastes, as operators | `matrix-grid/`, `occupational-matrix/` |
| `Eea2Sections` | sections A, B, C1, D1, F and H1 while they are shown | `components/sections`, `OccupationalMatrix.tsx`, `use-prefill.ts`, the steps of `wizard-step-registry.tsx` |
| `Eea4Form`, `Eea12Form`, `Eea13Form` | the other three forms, from the route to what the autosave gets | `features/eea4`, `features/eea12`, `features/eea13`, `validation/eea13-goals.ts` |
| `Eea1Form` | the sections of the EEA1 page and POST declaration | `components/eea1`, `eea1-new.tsx`, `eea1/declarations.ts`, `kms-encrypt.ts` |
| `SigningCeremony` | the signing page and the sign handler as it sees it | `eea2-signing-ceremony.tsx`, `eea2.routes.ts` 332-402 |
| `ComplianceData` | the hook behind the dashboards and their figures | `features/compliance/lib` |
| `ReportForms` | the seven pages together | `router.tsx` |
| `EventReplay` | snapshots and projections of the events | `event-store/*.ts`, `SnapshotDrawer.tsx` |
| `Accounts` | users, tokens, secret and backup codes | `auth.routes.ts`, `totp.routes.ts`, `lib/auth.ts`, `plugins/auth.ts` |
| `InternalSigner` | one-time codes and the chains | `internal-signer.ts` |
| `ApiServices` | the three services together | - |
| `MC...` | values of constants and symmetry for TLC | - |

### Eea2Draft

`row` is the committed row, `decisions` the EEA2_SIGNED and EEA2_REJECTED events in
commit order, `notes` the notifications. Each request runs one handler: `pc[r]` is
where it is and `tx[r]` what its transaction remembers. The steps are the statements
whose order matters: the read with every early return (`ReadForEdit`, `ReadForSign`,
`ReadForReject`), the INSERT of the event with its `createdAt` (`AppendDecision`),
the UPDATE, which waits for the row lock (`UpdateDraft`), the answer of the two
routes that call `reply.send` inside the callback (`AnswerBeforeCommit`), and
`Commit` or `Rollback`. A rollback may come at any step, the death of the process
included; the acknowledgement of a COMMIT may be lost. The values of the state
column are named by the request that wrote them, so that a lost update shows.
`signedAt`, `due` and the field `after` of a decision are history: when the signature was
committed, which values of a key no handler that began later may have replaced unread, and
how many decisions the handler had seen.

`Eea2Lifecycle` has the same requests in one step each. Its constant `Strict` says
whether their guards hold at the moment they take effect. The interleaved handlers
implement the form without `Strict` for every pool, and the strict form when the
pool has one connection: the refinement maps `status` to `row.status`, `trail` to
the decisions without timestamps, and `Strict` to `PoolSize = 1`.

### AutosaveQueue

The refs of the hook are variables under their names; `retryInFlightReference` is
`retryInFlight`, a promise is a call number in the `waiting` set of an item, and a
request is the item it carries. `RunRetryQueue` is the function of that name, used by
the debounce timer, the retry timer, `Flush` and the end of a request. The server
appends under the primary key `eventId`: a repeated event is refused. A request ends
in `Accepted` or in `Failed`, where it may have been appended all the same.

### AuditHistory

The URL holds label, dates and cursor; a step is a navigation and the render that
follows it, which aborts the request in flight and starts another one. The handler
answers from the log as it is then. `Fetched` says what the query returns: the newest
of the rows that match, in their order, and all of them unless there are more than the
limit and one. The row beyond the limit becomes the cursor. The events' field paths are represented by the section they belong to.

### Eea1Page

The gate, the hook and the PATCH handler. An edit is named by its number; a request
is on its way, then read by its handler, then committed or rolled back, then its
answer is on its way back. An abort only means that the hook ignores the answer. A
handler stamps its events after its read and before it waits for the lock of the row; the
trail is kept in commit order, and `at` is its createdAt.

### Eea2Wizard

`Advance` is `advance()` up to its await, `AdvanceAnswered` what follows it with the
closure of the render it was pressed in. A section's data is told apart by its total,
and 0 is what its schema refuses. The handler is the one of `Eea2Draft`: it reads the
whole state, updates and answers, and commits; handlers overlap, and a COMMIT may fail
after the answer. `aside`, `undone` and `savesOfB` are history variables: `undone` has the
sections that a handler wrote back as it had read them before their save, and those whose
COMMIT failed after the answer, each until it is saved again.

### BundleGate and BundleDashboard

`BundleGate` has no state. A form is the wrapper the page builds, with the values the
rules read; a path with wildcards is a function on `Cells`. `EvaluateRules` is the
loop of the engine; `MetaAt` is what the headcount rule has left for a rule by the time
that one runs.
`Submittable` says the same of two forms without rules, and is what the gate is
compared with. `Eea4Form` uses the rules too, for the declaration. `BundleDashboard`
runs the gate in looks: a look reads the EEA2, then the EEA4, and shows its result if
no newer look has started. Every look, whatever triggers it, is `Evaluate`. A render
makes the effect due again if the clock of the page is its default, which is a new
function each time (`clockIsStable`).

### MatrixGrid

A matrix is a function of rows and columns. `ComputeGridTotals` is the recomputation of
every computed row and of the computed column; `PasteAt` is what a paste writes,
which stops at the edge and passes over computed cells. A cell of two figures is a
record of two grids. `AddsUp` says of a matrix what the recomputation is for, without
computing it. The forms extend this module or take it by `INSTANCE`.

### The forms: Eea2Sections, Eea4Form, Eea12Form, Eea13Form, Eea1Form

The shells of the forms are alike and have the same variables: `step` is the step on
the screen, `formState` what its sections handed to it, `sent` what the form handed to
the autosave last, or in `Eea2Sections`, where each edit of a cell is an event, the
events. What happens to it then is `AutosaveQueue` and `Eea1Page`. An action is a
handler of a section together with the render and the effects that it causes, since
React runs them before the next handler; where an answer, a list or a fetched table
comes from outside, its arrival is an action of its own.

`Eea2Sections` takes the sections while they are shown: the prefill that may answer
after the user has typed, section B with its totals, the matrices with focus, blur and
paste, and the three flags, which are kept in the wizard context and set by an edit.
What moves the wizard and saves is `Eea2Wizard`; here `SaveAnswered` is the answer of a
save, which may take the section away at any time.

`Eea4Form` has the report, a copy of a section's data per step, and the state of the
section on the screen. The list of EEA2s may arrive again with other figures while a
section is shown (`ListArrives`); each section normalises what it has to the linked
EEA2. The declaration uses the rules of `BundleGate` on the forms as the page builds
them. `touched` is a history variable: nothing stops edits after the signature.

`Eea12Form` fetches the two tables of the linked EEA2, again when the address names
another one, and applies them once per stay on section B (`prefilled`). `typed` and
`basis` remember who the figures are from.

`Eea13Form` has an editor per plan with a draft and the position of the goal it is to
replace. React keeps an editor as long as its plan has the same year at the same
position. Goals have numbers, so that the goal an update hits can be told from the one
it was opened from; `shifted` is set when an earlier goal is removed during an edit. The removal
actions that a linked EEA12 seeds are stated by what the loop keeps (`FirstOfCategory`)
and by the order it keeps it in (`SortsBefore`).

`Eea1Form` has the sections of the page, what they gave the autosave, the answers the
page keeps for its post, the canvas, and POST declaration with its schema, dates and
encryption. What the page posts is refused; `OtherClientPosts` posts what else the API
accepts, so that what is stored can be spoken of.

### SigningCeremony

Entries, messages, the request, and what the server made of it. The handler reads the
draft and decides (`Decide`), and commits the event and the status later (`Sign`), by id
alone. One whose answer was lost may still be handled (`DecideLate`, `SignLate`), before,
behind or beside a second request. Others edit, submit, reject or sign the form
meanwhile, in the same two steps. `raced`, `unheard` and `signatures` are history variables:
`raced` is set by a signature that is committed while another handler has read and not yet
written.

### ComplianceData

An effect run asks for the EEA2 list and for section C at once. `effects` keeps the
runs: what was asked for, the two answers, and whether it was aborted, which only
means that it sets no state. The adapters and figures are operators on what was
answered; shares and pay gaps are in tenths of a per cent, rounded as the code rounds.

### ReportForms

A tab shows one page; leaving it unmounts the page, and a page shown again starts from
its `Init`. The pages share no state, and so a behaviour is a behaviour of one of them:
`Init` is a disjunction, each page is followed from its own `Init`, and the variables
of the others are `Undefined`. A property says what it means on each page it is about.

### EventReplay

`Insert` gives an event its `createdAt`, `Commit` makes it visible: commits may come in
another order. `Apply` and `Fold` are the loops of `replay.ts` and of
`projection-builder.ts`; events with equal times may be read in any order. The drawer
asks for a snapshot and compares nothing with its header. A job reads the events in one
step and writes the draft in another, and jobs overlap. `Materialises` says what a
state is of which events, without folding.

### Accounts

A handler is the statements it consists of: the read of the user, and the write, with
other requests and a crash between them. The users are those in the table; section 8 says
why no registration adds one. `twice`, `overtaken` and `accepted` are history variables.

### InternalSigner and ApiServices

Codes and chains are in memory; `Restart` empties both. A record's hash is its id.
`ApiServices` starts one of the three services, which share no table and no variable.

## 3. Runs

Each run is one question. "States" are distinct states.

| Run | Question | Properties | States |
| --- | --- | --- | --- |
| `eea2_concurrent` | what survives every schedule of the handlers? | `SignatureSealsNewcomers`, `SignatureIsLastDecision`, `RejectionReachesManagers`, `AnswersAreTruthful`, `OnlyOverlapLosesChanges`, `StampsFollowCauses`, `ImplementsLifecycle`, `EveryRequestIsAnswered` | 985,278 |
| `eea2_race_immutable` | "Form is immutable"? | `SignedIsImmutable` - violated | |
| `autosave_retry` | may the hook be believed? | `SavedMeansStored`, `NewestWinsUnlessSplit`, `EveryCallIsAnswered` | 120,938 |
| `autosave_stale` | does replay end in the newest edit? | `NewestWins` - violated | |
| `audit_paging` | what does the panel show? | `PagesGoOn`, `ShownPassTheFilter`, `LoadingEnds` | 184,086 |
| `eea1_autosave` | what of the entries arrives, and when? | `DataOnlyAfterConsent`, `TrailEndsInRow`, `PrevValuesChain`, `EditsArrive`, `NoPiiInTrail`, `PendingEnds` | 791,664 |
| `eea1_edits_persist` | "changes are persisted automatically"? | `EditsPersist` - violated | |
| `eea2_wizard` | may "completed" and "submitted" be believed? | `ShownIsInTheDraft`, `SubmittedIsComplete` | 956,137 |
| `bundle_looks` | may "validated" be believed, whatever overlaps? | `ShownIsNewest`, `ConfirmsWhatIsShown`, `LoadingEnds` | 309,771 |
| `report_forms` | do figures, flags, signatures and what is saved agree with what is on the screen? | `FiguresAddUp`, `FlagsAreOfTheFigures`, `SignedOverSoundFigures`, `ShownIsOfItsSources`, `PlansStaySound`, `DeclaredAsAnswered`, `SignedOnceAndSeen`, `EditsAreHandedOver` | 541,360 |
| `api_services` | are snapshots, projections and codes what the log and the user say? | `SnapshotIsOfItsMoment`, `CodesWorkOnce`, `ProjectionFollowsTheLog` | 1,031,271 |
| `snapshot_stops_at_event` | "up to (and including) the specified event"? | `SnapshotStopsAtItsEvent` - violated | |

`eea2_concurrent` and `eea1_autosave` check `TypeOK` as well; the types of the other
modules with theorems are conjuncts of their inductive invariants. The four violated properties:

- **A signed form is changed.** An edit reads the draft, a signature commits, the
  edit updates by id alone. Its state changes under the signature, or PATCH status
  takes the form back to draft. `SignatureSealsNewcomers` says that only handlers which
  had read the draft before the signature do so.
- **The older edit wins.** A request for a cell fails while a newer edit of the cell
  is queued; the queue has two items of the cell, the failed one in front. The next
  edit goes into the first, and the one behind it is appended last.
  `NewestWinsUnlessSplit` says that this is the only way.
- **An edit is dropped without an error.** A flush aborts the request before it,
  whose fields are in no later body. `EditsArrive` says that only fields whose
  request failed or was superseded are concerned.
- **A snapshot goes on behind its event.** Replay takes the events up to the createdAt of
  the chosen one (`replay.ts` 51), so one appended after it in the same millisecond is in
  the state of it. `SnapshotIsOfItsMoment` says what a snapshot is of when no other event
  shares the millisecond.

Two properties of the EEA2 handlers say exactly how far a race reaches.
`OnlyOverlapLosesChanges`: the state column is written back as a whole, so a change of it is
lost only to a handler that was open when it was committed, and to nobody who read the draft
afterwards. `StampsFollowCauses`: by createdAt a decision may come before one that was
committed earlier, but never before one that its handler had seen.
`TrailEndsInRow` says the same of EEA1: the last event committed has the value of the row,
and one with a later createdAt was committed after the handler of the row's value had read.
`ShownIsInTheDraft` and `SubmittedIsComplete` hold of every section but those in `undone`.

What the properties of the two composed runs say, page by page:

- `FiguresAddUp`: every matrix of EEA2 and EEA4 adds up after any edits, pastes over the
  edge and new figures of the EEA2; nobody who is not there is paid; in the dashboards
  nobody of the answered tables is lost or counted twice.
- `FlagsAreOfTheFigures`: the disability flag is what the validation says of the matrix
  on every step; a termination matrix that shows a barrier is flagged; the comparison of
  the EEA12 is of the rows as they are, also the one handed to the autosave.
- `SignedOverSoundFigures`: no EEA2 goes to the CEO with figures that had to be flagged,
  and the EEA4's CEO saw head counts equal to those of the EEA2.
- `ShownIsOfItsSources`: section A has the answered profile and the typed contact in
  either order; rows of the EEA12 are of the user or of one EEA2; the two halves of a
  company in the dashboards are of one request.
- `PlansStaySound`: an edited goal replaces the goal it was opened from, no goal is below
  the minimum of its sector, three to five different years, and each removal action has
  the severity of its barriers.
- `DeclaredAsAnswered`, `SignedOnceAndSeen`: what is declared was drawn and answered; the
  page signs a form at most once and shows it locked, unless a signature is committed beside
  a handler that has read and not yet written: a repeated request beside the one whose
  answer was lost, or another user's.
- `EditsAreHandedOver`: what a form gave the autosave is what its sections show.
- `SnapshotIsOfItsMoment`: a snapshot is the event of its header and every event of the
  form before it, and nothing else, if no other event shares its millisecond.
- `ProjectionFollowsTheLog`: a projection is what the events left at one moment, and goes
  back to an earlier one only if two jobs overlapped.
- `CodesWorkOnce`: the codes left are those of the enrolment without the accepted ones,
  unless a redemption overtook another write.

## 4. Bounds

Every bound is a CONSTANT and stands in a guard.

| Constant | Value | Why it is enough |
| --- | --- | --- |
| `Requests`, `PoolSize` | 3, 2 | a race needs two handlers in flight; the third request arrives before, between or after them, or sees what they left. The proofs have no bound |
| `Keys`, `Managers` | 1, 2 | an edit may name the key or not; a partial notification needs two managers |
| `MaxClock` (`Eea2Draft`) | 1 | two stamps in either order, or equal |
| `Cells`, `MaxCalls` | 2, 5; 2, 3 | a failed item, the one queued behind it, a third that replaces one of them, an item of another cell, and one more |
| `PageSize`, `MaxEvents`, `MaxVisits` | 2, 6, 3 | three pages with an append in between; filter, load more and back |
| `Fields`, `MaxEdits` | 3, 3 | two edits of one field with another between; one field that must not be named. `StampEvents` stamps in the same millisecond as the one before it or in a later one, so the clock needs no bound of its own |
| `StepIds` | B, C1, C2, review | the sections whose code depends on each other or on a load; the other sections behave like B without its total |
| `MaxInputs`, `MaxOpen` | 6, 2 | five inputs fill in, save and reach the review; one remains for a move, a repeat, a change or a remount; two saves in flight overtake each other. The proofs have no bound |
| `MaxInputs` (`BundleDashboard`) | 3 | a selection, a look and a Prepare in any order; of the looks that were superseded the last one is followed, and one is enough to answer late |
| `Cells`, `EEA2Forms`, `EEA4Forms` | 2, 4, 4 | one cell and one total; a form in order, and forms that break one or two rules, in every combination. `GateIsExact` is proved for every pair of forms, so the forms need only open and close the gate |

`ReportForms` (a bound per page, since the pages do not meet):

| Constant | Value | Why it is enough |
| --- | --- | --- |
| `PermanentRows`, `DemoCols` | a level and the temporary row, 2 columns, in the EEA2 and the EEA4 | a paste of two by two runs over either edge; every total, by row, by column and grand, has two terms |
| `Heads`, `DisabledCounts` | 30; 1, 2 | two cells make 60 heads: over the 50 above which disabilities are asked for; 1 of 60 is below three per cent and 2 of 60 above |
| `Lists` (EEA4), `Tables` (EEA12) | 2 lists of 2 EEA2s; 3 EEA2s | the same EEA2 with other figures, one without a table, one with more disabled than employed, one without Table 1.2 |
| `Prefills`, `Kinds`, `Sectors` (EEA13) | none or one; 2; 2 | a barrier category named twice with different severities; a kind with and one without a target of the sector |
| `OtherBodies` (EEA1) | 4 | a body in order, one for another employee, a foreign national with and without the date |
| `MaxInputs2`, `MaxInputs4`, `MaxInputs12`, `MaxInputs13`, `MaxInputs1` | 2, 2, 4, 3, 3 | values the user enters; moves, focus, blur and arrivals are not counted. Two edits of one cell, or of two that share a total; in the EEA12 a barrier and its action, or edits before and after a second EEA2; in the EEA13 a goal, a second one and the edit of either |
| `MaxEntries`, `MaxRows`, `MaxPosts`, `MaxEntered`, `MaxForms`, `MaxSends` | 2, 3, 1, 5, 2, 2 | an entry before and one behind the one that is removed; three entries fill the signing page in, two more correct it; a request and its repetition, beside two of others |
| `Tenants`, `Eea4Ids`, `MaxEffects`, `AnsweredLists`, `SectionsC` | 2, 1, 2, 3 lists, 2 | what is asked for now and what was asked for before; a list whose first EEA2 is not valid, totals that do not divide by the heads |

`ApiServices`:

| Constant | Value | Why it is enough |
| --- | --- | --- |
| `Forms`, `Paths`, `MaxEvents`, `MaxMillis`, `MaxReads` | 2, 2, 3, 2, 2 | a path and one below it; two events of a form in one millisecond and one of another; two jobs, or a job and a snapshot |
| `Jobs`, `Requests` | 2 | a race needs two; the code runs up to three jobs, and two have every order of reads and writes |
| `Emails`, `BackupCodes`, `MaxEnrolments` | 2, 2, 2 | an administrator and a user of their tenant; one code while another is redeemed; an enrolment that replaces another. The codes are model values only to be symmetric |
| `AccessTtl`, `RefreshTtl`, `MaxTime`, `OtpTtl` | 1, 2, 2, 1 | before, at and after each expiry |
| `Signers`, `Otps`, `MaxGenerated`, `MaxRecords` | 2, 2, 3, 3 | a code that comes up again, a record between two of another tenant |

`ApiServices.cfg` and `SnapshotStops.cfg` use symmetry, and no liveness. No run has a state
constraint. Deadlock is checked in all runs but `report_forms`, `api_services` and
`snapshot_stops_at_event`: a
step that leaves everything as it is stands for a user who has stopped, and is enabled
only when nothing is under way. In those the model stops when what may be entered
and asked for has been.

## 5. Fairness

- `Eea2Draft`: weak fairness of the steps of a handler that has read the draft. The
  event loop delivers the result of each statement, and PostgreSQL grants a free lock.
  Requests need not arrive, and a rollback is never assumed.
- `AutosaveQueue`: armed timers fire; a request is accepted or fails in the end; and a
  server tried again and again does not refuse for ever (strong fairness of
  `Accepted`). The last is an assumption about the server, not about this code:
  without it a refused event is retried for ever, which is what the code means to do.
- `AuditHistory`, `Eea1Page`: requests are answered or break off, timers fire.
- `Eea2Wizard`, `ReportForms`, `ApiServices`: none; what they are asked is safety.
- `BundleDashboard`: React runs its effects, and a fetch is answered or rejects.

## 6. Proofs

`tlapm` checks every theorem for all values of the constants: any number of requests,
events, calls, cells, periods, rows, goals and steps. What it assumes of them stands in
the modules by name, and TLC evaluates it on the values of the runs:

- a bound is a natural number, `PageSize` and `PoolSize` are positive, `Requests` is finite;
- what stands for nothing (`NoOne`, `NoEvent`, `NoPeriod`, `NoEvaluation`, `Undefined`, ...)
  is none of the things there may be;
- steps have different names and the sections the code names are among them
  (`StepsAssumption`); `Pii` and `Excluded` are fields (`Eea1Page`); neither the computed rows nor
  the temporary row are levels, and the total is no column of its own terms
  (`RowsAssumption`, `Rows2Assumption`); the body of a POST has the fields of the schema, a
  missing one being `Absent` (`BodiesAssumption`);
- shares and targets are integers (`PlansAssumption`), and a barrier has one of the three
  severities of its schema (`PrefillsAssumption`);
- what the user enters is a natural number, and so is every figure of a table the API
  answers with (`FiguresAssumption`, `TablesAssumption`, `AnswersAssumption`,
  `CompanyAssumption`): the cells of `schemas/matrix.ts` are
  `z.number().int().nonnegative()`, amounts being counted in their smallest unit. Races and
  levels are finitely many, and foreign nationals are no race. Of the totals of an answered
  Table 1.1 `AnswersAssumption` says that they are the sums of its levels, as section C1 made
  them: the schema does not ask for it, and the dashboards believe the totals;
- a field path is not empty and no form is called FIELD_UPDATED (`ServicesAssumption`).

No theorem assumes more of the schedule than the code gives: handlers overlap in any pool,
and where a property has an exception, the exception stands in the property.

`Eea2DraftProofs`

| Theorem | States | Rests on |
| --- | --- | --- |
| `TypeCorrect` | `TypeOK` | by kinds of step (`StepCases`) instead of routes |
| `Sealed` | `SignatureSealsNewcomers` | `IInv` |
| `LastDecision` | `SignatureIsLastDecision` | `IInv` |
| `Notified` | `RejectionReachesManagers` | `IInv`, `CommitTrail` |
| `Truthful` | `AnswersAreTruthful` | `AnswerInv` |
| `Changes` | `OnlyOverlapLosesChanges` | `ChangeInv` |
| `Stamps` | `StampsFollowCauses` | `StampInv` |
| `Refinement` | `ImplementsLifecycle` | `IInv`, `SerialInv`, `EntriesAppend` |

`SignatureSealsNewcomers` is not inductive: a handler that holds the lock could
commit what a signed row forbids. `HandlerInv` adds who holds the row lock (exactly
a handler between its UPDATE and its end), what a handler of each kind is about to
write, and that no handler has read a version newer than the row or a signed row;
`IInv` adds that the last signature is no newer than the row. `AnswerInv` adds
that a request in flight has no decision in the trail and that one which has ended
is in it at most once. `SerialInv` says that with one connection what a handler in
flight has read is the row, and that its guard still holds: it is what the strict form of the
lifecycle needs. `ChangeInv` adds that what a handler is about to write back is still due for
every key, since a change that is committed beside it leaves the older value due; `StampInv`
that no stamp is ahead of the clock, nor the stamp of a handler behind one that the handler
had seen. The refinement is one
fact per kind of step: all but `InsertDraft` and `Commit` leave the mapped variables
alone, and `Commit` is one lifecycle request chosen by the kind of the transaction.

`Eea1PageProofs`

| Theorem | States | Rests on |
| --- | --- | --- |
| `TypeCorrect` | `TypeOK` | |
| `Consent` | `DataOnlyAfterConsent` | `ConsentGiven` |
| `Trail` | `TrailEndsInRow` | `StampInv`, `OnlyCommitsWrite`, `CommitWrites` |
| `NoPii` | `NoPiiInTrail` | `ReadBodiesAreAccepted` |
| `Arrive` | `EditsArrive` | `IInv` |
| `Chain` | `PrevValuesChain` | `IInv` |

`EditsArrive` speaks of the newest edit and says nothing of the requests that are
still about. `IInv` adds that a request is in one place only (`OnePlace`), that
`pending` and the newest body hold newest edits (`NewestOnly`), and that in a field
without trouble the hook's requests are alone, so that what a handler has read is
still in the row (`UntroubledAlone`). One lemma per action keeps it. `StampInv` says that a
handler which has stamped its events did so after every event it had read.

`AutosaveQueueProofs`

| Theorem | States | Rests on |
| --- | --- | --- |
| `Inductive` | `IInv` | one lemma per step |
| `Saved` | `SavedMeansStored` | `SavedInv` |
| `NewestLast` | `NewestWinsUnlessSplit` | `NewestInv`, `AnswerInv` |

One request at a time is out, and the lock of the hook is its event (`OneInv`); the calls
are in the order of their events and nothing is sent that was not made (`MadeInv`).
Whoever waits for an item made an edit of its cell that is no newer (`SavedInv`), so an
item may be merged into another and still answer those who wait for it. `NewestInv` is
the reason why the newest edit is last: it is the last one queued, else the one that is
out, else the last one appended, cell by cell, as long as the cell was not split.

`AuditHistoryProofs`

| Theorem | States | Rests on |
| --- | --- | --- |
| `Inductive` | `IInv` | `FetchedRows` |
| `Pages` | `PagesGoOn` | `PageInv` |
| `Filtered` | `ShownPassTheFilter` | `FilterInv` |

`FetchedRows` says of an unfiltered page, of any size, that it has no gap and begins right
below its cursor. `PageInv` says that the list ends one event above the cursor of the
request in flight and of the next page, unless the browser went back; `FilterInv` that a
cursor, a further page and a shown event are those of an unfiltered list.

`BundleDashboardProofs`

| Theorem | States | Rests on |
| --- | --- | --- |
| `GateIsExact` | the gate is ready, gives "ready" as its reason and has no blockers for exactly the forms that `Submittable` describes without rules, for all pairs of forms | the cases of the rules |
| `Inductive` | `IInv` | `EvaluationIsExact`, `ReportIsFresh` |
| `Newest` | `ShownIsNewest` | `LookInv`, `NothingInv`, `GateIsExact` |
| `Confirms` | `ConfirmsWhatIsShown` | `RecordInv`, `GateIsExact` |

Only one look may write, and it looks at the selected period unless another look is due
(`LookInv`); what is being recorded passed the gate, and is on the screen unless a look
was under way (`RecordInv`).

`Eea2WizardProofs`

| Theorem | States | Rests on |
| --- | --- | --- |
| `Inductive` | `IInv` | one lemma per step |
| `Shown` | `ShownIsInTheDraft` | `ShownInv` |
| `Submitted` | `SubmittedIsComplete` | `StoredInv`, `TotalInv` |

Completed steps are stored, in the state, in the closure of every save and in every answer,
unless they are in `undone` (`StoredInv`): a handler that writes back a section as it was
before puts it there, and a save of the section takes it out. A save under way carries what
the screen shows of a section that was not left aside (`SentInv`). Such a section is saved,
or on the screen with the flag on and every answer still to come about it (`ShownInv`): that
is why an answer may clear the flag. While section B was saved once its total is the only one
about, also in what handlers have read (`TotalInv`).

`ReportFormsProofs`

| Theorem | States | Rests on |
| --- | --- | --- |
| `Inductive` | `IInv`: the page on the screen has its invariant | one step lemma per page |
| `SignedOnce` | `SignedOnceAndSeen` | `SignInv` |
| `Declared` | `DeclaredAsAnswered` | `DeclaredInv` |
| `Planned` | `PlansStaySound` | `Inv13` |
| `HandedOver` | `EditsAreHandedOver` | `Handed1`, `Handed2`, `Handed4`, `Handed12`, `Inv13` |
| `AddedUp` | `FiguresAddUp` | `Inv2`, `Inv4`, `DataInv`, `GridAddsUp`, `NobodyIsLost` |
| `Flagged` | `FlagsAreOfTheFigures` | `Inv2`, `Inv12` and `Handed12`, `Quotient` |
| `SignedSound` | `SignedOverSoundFigures` | `Inv2`, `Inv4` |
| `OfItsSources` | `ShownIsOfItsSources` | `Inv2`, `Inv12`, `DataInv`, `LevelSum12` |

`SignInv` says that a form the page signed is locked, or answered so, or the answer is lost,
and, as long as no signature was committed beside a handler (`Unraced`), that a form signed
once has no handler left that could sign it again. `DeclaredInv` says that the page and its
section have the same answers, that ink the page knows of is on the canvas unless it was
wiped, and what each post and the stored row are. `Handed2` follows the events of each
cell of section C1: each goes on where the one before it ended, and the last one leads to
the figure, or to the figure a cell in focus had before. `Inv13` says that the plans of the
EEA13 have different years and sound goals, that an editor knows the goal at its position
unless an earlier one was removed, and that every removal action stands beside the highest
severity of its category; `NextYear13` says that `AddYear` finds a free year because there
are six and at most four are taken, `Kept13` that the editors React keeps are those of
unchanged plans, and `Seeds13` that seeding leaves each category once, at its severest.

The figures rest on what sums are. `SumFunctionOnSet` of the community modules is a fold
over a set in an order that `CHOOSE` picks. `SumStep` unfolds it, `SumRemove` says that the
order does not matter, and from there `SumOfRows` and `SumOfColumns` say that a table has one
sum by its rows and by its columns. Induction over finite sets is made without operator
parameters: `SetInduction` is about the set of the sets that have the property, and follows from the
well-founded order of the finite subsets.

- `Totalled` says that every computed row and column of a matrix is the sum of the cells it
  is of. A matrix is made totalled (`ComputedTotalled`), whatever cells an edit or a paste
  leaves, and a totalled matrix adds up in all directions (`GridAddsUp`).
- `Inv2` says that every matrix of the EEA2 is totalled, that section A has what is typed and
  what was answered (`Profile2`), and that the flags are of the figures, also those of a
  matrix whose section is not on the screen (`Flags2`): the wizard's context and the form are
  written together.
- `Inv4` says that what a section shows and what the report has are totalled matrices,
  those of the linked Table 1.1 (`Correct4`), and that a signature needs a link. `SoundWhenSigned4`
  is the reason why the CEO signs sound figures: the blockers are empty only then.
- `Inv12` says which tables the rows are of (`OfOne12`, `Rows12`): each row is what the user
  typed or what the tables make of it. `LevelSum12` adds the rows of a level up to the head
  count of its Table 1.1: nobody is lost between races, genders and disabilities.
- `DataInv` says that an effect that is not the last one was aborted, that what is shown is
  of an effect that has ended, and of the last one if that has. `NobodyIsLost` says that the
  groups of the citizens and the foreign nationals are all the heads of a level, and
  `AnsweredTables` carries it from the tables to the company.

`ApiServicesProofs`

| Theorem | States | Rests on |
| --- | --- | --- |
| `Inductive` | `IInv`: the service has its invariant | one lemma per operation |
| `Moment` | `SnapshotIsOfItsMoment` | `DrawerInv` |
| `Follows` | `ProjectionFollowsTheLog` | `JobsInv`, `DraftFollows` |
| `Once` | `CodesWorkOnce` | `CodesInv`, `OtpInv`, `ChainInv` |

A redemption that nothing overtook has read the codes that are stored, and its code is
among them (`CodesInv`). A one-time code that waits has signed nothing, and no other code
has its number (`OtpInv`); each chain links its records in their order (`ChainInv`).

Replay folds the events in the order of their time. `Folds` is the function that `FoldLeft`
recurs on, over the first places of the sequence; `FoldExists` and `FoldSteps` find it by
induction over the numbers, `FoldLeaves` says that a path is left with an event if none behind
it undoes that event, and `FoldMaterialises` that this is what the events materialise to, for
every order that events of one millisecond may come in. The store only grows at its end
(`CommittedStay`), so a snapshot, a job and the draft keep the moment they are of
(`DrawerInv`, `JobsInv`). `ProjectionFollowsTheLog` is an action property: a job that began
with an older draft and was not overtaken writes one that is not older.

Every invariant was checked with TLC on the run of its module before it was proved.

Every safety invariant and every action property of the runs is stated by a theorem. Only
model-checked is liveness (`EveryRequestIsAnswered`, `EveryCallIsAnswered`, `LoadingEnds`,
`PendingEnds`), which is out of the prover's reach, and so are the four violations.

## 7. What does not hold

Besides the four violations, the models show what one might expect and must not rely
on. Each line of the first list can be reproduced with the module named.

- No change of the draft is lost (`Eea2Draft`): PATCH, PUT and PATCH state write the whole
  state column from what they read. `OnlyOverlapLosesChanges` says to whom.
- The trail by createdAt is the order of the effects: a handler stamps its event before
  it waits for the lock. `StampsFollowCauses` says what is left of it.
- The history of an EEA1 declaration, read by createdAt, ends in the row (`Eea1Page`): of two
  PATCHes that overlap the one whose UPDATE comes last may have the older stamp, and events of
  one millisecond come in no order; `TrailEndsInRow` says when. `replay.ts` is no help: it
  applies events of the type FIELD_UPDATED alone.
- A form is signed once (`SigningCeremony`): a request whose answer was lost and its
  repetition may both have read the form before either signs, and both append
  EEA2_SIGNED. `signatures <= 1` without `~raced` fails.
- "What PATCH state and PATCH status answered 200 is stored": the answer is sent
  before the COMMIT, which may fail.
- `ShownIsInTheDraft` and `SubmittedIsComplete` without `undone` (`Eea2Wizard`): section B is
  answered before its COMMIT; the tab saves section C1, whose handler reads the draft
  without section B, and then both commit. Section B is gone and its step stays
  completed, up to the submission. No second user is needed.
- `SubmittedIsComplete` without `savesOfB = 1`: the comparison with section B is made
  on leaving C1 only, and B may be changed later.
- `ShownIsInTheDraft` without `aside`: the flag is dropped when the user agrees to leave
  a step, whatever is later thought of the edits; Back keeps the flag for the wrong
  step, and the next answer clears it; an answer clears the flag of edits made while
  it was on its way.
- A completed step stays completed: of two advances in flight the later answer
  restores the set of its own render. A reload, or a visit of the audit tab, shows an
  empty wizard: sections are stored under `sectionKey` and looked for under the step.
- `EveryCallIsAnswered` without `Blocked` (`AutosaveQueue`): once an acknowledgement is
  lost the server refuses the repeated event for ever, and the queue does not get past
  it.
- A cancelled edit is not sent (`AutosaveQueue`): the request that `cancel()` aborts
  fails, is queued again and retried.
- Every event is on some page (`AuditHistory`): the row fetched beyond the limit, "to
  signal another page" (`events.ts` 226), becomes the cursor, and the next page skips
  the cursor. One event per page boundary is on no page; `PagesGoOn` says that no more
  is missing.
- `PagesGoOn` after the browser's Back button: the cursor in the URL of the earlier page
  extends the list again.
- Every page asked for is shown: after a failed page Load more goes on behind it.
- The section filter finds the events of the section: the panel sends its label as a
  prefix of field paths, of which it is none.
- An EEA4 without a link to an EEA2 is kept out of a bundle (`BundleGate`): `requires`
  asks nothing of a source without a value, so the gate is ready and the card beside it
  says "not linked". `validation-rules.ts` 350-354 says that such an EEA4 cannot be
  signed.
- A confirmation stays until the next look of the user, and looks come to an end: with
  the default clock, which the route uses, each look causes another one, and a
  confirmation is cleared by the render that shows it (`BundleDashboard`). The tests
  pass a clock.
- A page with periods shows one (`BundleDashboard`): the route renders the page before
  its periods are there, the selection is made in the first render, and `PeriodsLoaded`
  selects none.
- `ConfirmsWhatIsShown` without `overtaken`: a look during Prepare may have closed the
  gate, and the confirmation of the older report appears beside it.
- One event per report: after a lost answer, or a look that clears the confirmation,
  Prepare records the same report again.
- A matrix of section C1 is its events without `loose` (`Eea2Sections`): a paste writes
  cells and no event, and an answer that takes the section away leaves the cell in focus
  without one.
- A flag goes when its figures are corrected: a barrier or an overdue request sets the
  flag of its section, and no edit clears it.
- A signed EEA4 stays as it was signed (`Eea4Form`): the sections stay editable, and the
  status is kept; without `touched` `SignedOverSoundFigures` fails.
- The comparison of the EEA12 on the screen is of the rows on the screen (`Eea12Form`):
  after an edit in section B it is only made again when section C is shown.
- The rows of the EEA12 are of one answer for both tables: when the second EEA2 lacks a
  table, the one of the first stays beside the new one.
- The period of the EEA12 is saved: an edit of it is handed over with the next change of
  a section only.
- An edited goal replaces its goal after an earlier one was removed (`Eea13Form`,
  `UpdateHitsItsGoal` without `shifted`): the position is now another goal's, or nobody's.
- Every goal meets the minimum of the plan's sector: goals stay when the sector changes.
- A signature that is posted was drawn without `wiped` (`Eea1Form`): a change of the
  window's size empties the canvas, and `hasInk` stays.
- "Each code works exactly once" (`totp.routes.ts` 262-263) without `overtaken`
  (`Accounts`): of two redemptions that overlap both accept, or one writes back the
  other's code; one that overlaps an enrolment writes the old list over the new.
- A projection does not go back without overlapping jobs as an excuse (`EventReplay`): of
  two jobs the one that read earlier may write last.
- A snapshot is of the header above it: the drawer keeps the snapshot that was asked for
  when another event is chosen while it is open, although `SnapshotDrawer.tsx` 13 says
  that a new fetch fires.
- Chains survive (`InternalSigner`): after a restart they are empty, and verify.

Read from the code while modelling, and in no module:

- EEA1 page: what it posts lacks the name, the workplace number and the nationality that
  the schema asks for, so every post of the page is answered 400 (`eea1-new.tsx` 58-66;
  the end-to-end test of it is marked `fixme`). Its `formId` is a fresh UUID that no
  declaration has, so PATCHes are answered 404. Switching back to citizen sends a null
  date, which is refused together with the other field of the body.
- Registration: `lib/auth.ts` 49 gives better-auth the Prisma client of the API, so it inserts
  into the table of users a row without the `tenantId` and the `passwordHash` that
  `schema.prisma` 45 and 49 require, and there is no Account model for the password: the
  upsert of `auth.routes.ts` 86 is not reached.
- EEA2: the events of flags lack the `formId` their route asks for and are refused; a
  paste leaves no events; section A's read-only fields stay blank when the prefill fails;
  the barrier trigger compares shares of floating-point numbers with 15; `validate.ts`
  counts white men as designated while section F does not.
- EEA4: the generic append asks for a string where the form sends a report, and answers
  400; there is no `/api/eea4` route; `GET /eea2` answers `{drafts}` where
  `routes/eea4-form.tsx` 155-156 expects an array, so the list is always empty with this
  API. The bounds of section E are shown and stop nothing (`SectionEMedianGap.tsx` 93-94).
- EEA12: the numbered buttons are free, although `eea12-form.tsx` 171-173 says that they
  are disabled; after a nil return, "Add barrier" keeps the nil entry beside the real one;
  the banner about divergence shows whenever there are foreign nationals.
- EEA13: Next and the numbered buttons pass by the condition of the plan's setup, although
  `eea13-form.tsx` 96-99 says otherwise; a prefilled workforce and default years are shown
  and handed over with the first edit only; a cleared end date is filled in again when the
  step is shown; a draft is lost when its year changes; the route passes no prefill.
- Signing: `totpVerified` is true in no token that the API issues, although
  `totp.routes.ts` 250 says that the verify endpoint sets it; so the signing roles are
  always answered 403, except with tokens of the test seed. Sign does not ask for
  `pending_ceo`; after a lost answer the retry says that the form is signed already.
- Dashboards: no screen uses the hook; with this API it shows the demonstration company.
  The first valid EEA2 of the list need not be the one the EEA4 is linked to.
- Projection: a job reads the EEA2 events of the tenant whatever their form, overwrites a
  draft of any status, and only tests enqueue one.

## 8. Not modelled

- GET routes, which change nothing, except GET events.
- Tenancy: row-level security is PostgreSQL's. Every model is of one tenant, except
  `Accounts`, `InternalSigner` and `ComplianceData`, whose tables are told apart by it.
- better-auth, which checks the passwords, registration, which changes nothing (section 7), and
  the algorithm of TOTP: a code is right or wrong. Roles appear as the 403 that a handler may answer. Sign-out, the status of the
  second factor and the check of a code change nothing.
- Ciphers: that an answer is a ciphertext or withheld is in `Eea1Form`; that no encrypted
  field gets into events is `NoPiiInTrail`.
- Employer profiles: their routes answer 501 by intention.
- The LLM and sanitisation providers: outside services and transformations of strings.
  No route of the forms waits for them.
- Bootstrap, configuration and logging: no state that anything here depends on.
- Schemas and reference data: what a schema accepts and refuses is in the guards; the
  tables of population and sector targets are constants, since no property depends on a
  figure in them.
- The EEA2 hook without `retryOnFailure`: a matrix without `autosaveOptions` has no event
  context and hands nothing over, so no page runs it.
- Parts of forms nothing depends on: the text fields of E, G and H2, the sliders of D2,
  the budget and the message about the period in the EEA13 and the representation shown
  beside a target; in the dashboards penalties, the submission window and the income
  differential, which are arithmetic on what `ComplianceData` has.
- `EngineError`, which no rule of the registry raises.

## 9. Plan

Every component whose state can go wrong by order, loss or repetition is modelled; what
section 8 lists has no such state. Every safety invariant and action property of the runs is
proved. What is left:

1. Modelling, when the code gets there: a route that uses the signer, a screen that uses
   the hook of the dashboards, an EEA4 route.
2. The facts about sums and folds in modules of their own, if another component needs them.
