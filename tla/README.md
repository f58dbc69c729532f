# A TLA+ model of Ledger, the Excel plugin

Ledger is an Office.js add-in that lets a language model change a workbook, and
answers `=AI.*` worksheet functions. What can go wrong in it is rarely in one
function: it is what a person, a failing sync, a late answer or a second
recalculation does *between* two steps; and, in the engine under it, whether the
parser, the graph, the simulator and the audit, written apart, see the same
workbook. This directory models those parts, checks the models with TLC, and proves
what matters most with TLAPS.

## 1. The system

| Part | Keeps | Does | Talks to |
|---|---|---|---|
| Change-set engine, `engine/src/changeset`, `agent/repairScope.ts` | nothing; a change set is a value | propose (snapshot, risk, planned inverses), drift check, apply, applied state, rollback, repair scope | called by the agent runtime and both hosts |
| Agent runtime, `engine/src/agent/runtime.ts`, `verify.ts`, `plan.ts` | one run: plan, change set, attempts | plan → approval → change set → approval → drift → apply → verify → repair loop → rollback offer | LLM provider, approver, `WorkbookHost` |
| Simulator host, `engine/src/host/simulator.ts`, `sim/` | the workbook object it hands out | applies and rolls back in one step, recalculates | called by the runtime |
| Live writer, `addin/src/excel/writer.ts` (host in `host.ts`) | nothing; Excel keeps the workbook | applies and rolls back as a sequence of Office.js syncs, recovers a failed apply | Excel |
| AI function coordinator, `engine/src/aifn/batch.ts`, `addin/src/functions/functions.ts` | cache, promises in flight, queue, timer, counters | de-duplicates, batches, caches and caps model calls | Excel (cells), backend |
| Trace highlighting, `addin/src/excel/highlight.ts` | the fills it painted over | paint, restore | Excel |
| Tool-call envelope, `addin/src/api/runTool.ts`, `server/.../routers/tools.py`, `sessions.py` | sessions and their tool-call log | create, execute, post the result | add-in ↔ server ↔ Redis |
| Change-set records and cost, `server/.../routers/agent.py`, `llm.py` | records per session, meters | supersede, route, meter | add-in ↔ server ↔ LLM |
| Add-in authentication, `addin/src/auth/provider.ts` | token cache, client promise | acquire, cache | MSAL |
| Parser, `engine/src/parser` | pure | parse, serialize, normalise to R1C1, extract references | every part that reads a formula |
| Workbook model, `engine/src/model` | sheets, cells, names, tables | look up, change, undo structural edits | everything |
| Dependency graph, `engine/src/graph` | runs, constants read, edges, cycles; rebuilt after each change | resolve, collapse, link, walk | preview, simulator, audit, verify |
| Simulator and evaluator, `engine/src/sim` | the values in the workbook | order the formulas, evaluate each once | simulator host |
| Audit, `engine/src/audit` | pure | rules, ranking, one row per cell | graph, workbook |
| WIL, locale, forecast, corpus, eval | pure | text, numerics, fixtures | |

What is hard, and what makes each part correct:

- **Coordinator.** `flush()` is a coroutine that is public and re-entrant. It must
  never lose a promise, never send a call twice, never exceed the budget of a
  recalculation cycle (INV-7), and never answer a cell with another question's
  answer, while batches fail or fall short.
- **Agent run.** Between any two awaits a person may edit. What is written must be
  what was approved (INV-2), on what was read (INV-8); one rollback must undo the
  change set with all its repairs and yield to newer work (INV-3, D-026, D-027).
- **Live writer.** Office.js has no transaction. Any sync may fail after part of it
  landed, and people edit between syncs.
- **Tool calls and records.** Requests on one session overlap; answers are lost;
  records arrive out of order.
- **Highlighting.** Two traces may overlap; a restore may fail.
- **Formulas.** What is written must mean what was read (parse, serialize, parse),
  and a fill must be one formula in every cell it goes to.
- **Graph.** Its nodes are whole fills, while formulas read cells. Every influence
  of a cell on a formula must be an edge if the audit calls the coverage complete; a
  cycle must be one of cells; the preview must cover what will change.
- **Recalculation.** Each formula is evaluated once, in an order computed from
  precedents that other code works out than the code that reads.
- **Audit.** What follows from something else is dropped, and of several findings at a
  cell one is shown; the cause must not get lost on the way.

`PROJECT.json` lists every component and every hazard at the line where it bites.

## 2. The modules

| Module | Models | Kind |
|---|---|---|
| `AiCoordinator` | class `AiCoordinator` with the add-in's handler | state machine |
| `AnswerService` | what `=AI.*` functions promise a worksheet | abstract specification |
| `AiCoordinatorProofs` | the coordinator's types and safety, and that it implements `AnswerService` | proofs |
| `ChangeSets` | the change-set engine | operators |
| `AgentRun` | `runAgent` on the simulator host, EXTENDS `ChangeSets` | state machine |
| `LiveWriter` | `applyChangeSet` and `rollbackChangeSet`, EXTENDS `ChangeSets` | state machine |
| `WorkbookHost` | what a workbook host promises the agent loop | abstract specification |
| `ChangeSetsProofs`, `AgentRunProofs`, `LiveWriterProofs` | what the change-set operators give, the safety of the two that use them; that the live apply is the simulator's, and that the live host implements `WorkbookHost` | proofs |
| `ToolCalls` | `runTool`, the tool-call endpoints and the session stores | state machine |
| `ToolCallsProofs` | its types and safety | proofs |
| `TraceHighlight` | `highlightTrace` and `clearHighlight` | state machine |
| `TraceHighlightProofs` | its types and safety | proofs |
| `FormulaSyntax` | trees, canonical and R1C1 text, extraction of references, translation of a fill | operators |
| `FormulaParser` | the parser, EXTENDS `FormulaSyntax` | operators |
| `WorkbookModel` | the workbook, EXTENDS `FormulaParser` | operators |
| `References` | from references to areas and cells, EXTENDS `WorkbookModel` | operators |
| `DependencyGraph` | runs, nodes, edges, walks, cycles, EXTENDS `References` | operators |
| `Evaluator` | the evaluator, EXTENDS `References` | operators |
| `Simulator` | recalculation and the preview, EXTENDS `DependencyGraph` and `Evaluator` | operators |
| `AuditRules` | eight rules and the report, EXTENDS `Simulator` | operators |
| `Spreadsheet` | a workbook that is typed into, changed, filled, undone; composes all of these, EXTENDS `AuditRules` | state machine |
| `NumberLemmas`, `LeftFolds` | the least number principle; induction for `FoldLeft` | lemmas |
| `MC*` | TLC instances: constants only | |

### AiCoordinator

One action per code path between two awaits. `request` has four outcomes
(`RequestFromCache`, `RequestShares`, `RequestRefused`, `RequestQueued`).
`FlushLoop` is the body of `flush` from where it starts or resumes to its next
await: with the budget spent it refuses batch after batch until the queue is empty,
otherwise it stops at the handler call of one batch, which joins `flights`. The
handler answers all, some (`m < Len(f)`) or none of a batch, each envelope good or
bad (`unwrapAiResult`); `HandlerAnswers` and `HandlerFails` settle the batch *and*
run the loop on, as the code does without an await. Overlapping flushes are simply
several members of `flights`. A promise is named by the call that made it, so
`promise[c]` says whose promise cell `c` awaits.

`contentHash` is any function from questions to keys: FNV-1a is 32 bits wide, and
`OwnAnswer` therefore promises an answer to a question *with the same hash*: it is about
short and failed batches, and says nothing of two questions that collide.

`AnswerService` knows two variables, what a cell asked and what it shows, and two
steps: a cell asks (and may be answered at once), and waiting cells are answered
together. The coordinator implements it with `asked <- question` and `shows <-
Shown`, where `Shown[c]` is the value of the promise cell `c` awaits: it hides
queue, flights, cache, timer and counters.

### ChangeSets

A workbook is `[sheets, cells, names]`; a cell is `[absent, formula, value,
format]`; formulas are tokens with one reference. The operators carry the names of
the functions they translate. `Differs` is the comparison shared by `checkDrift` and
`changedSinceApply`: the formula for formula cells, the value for constants, number
formats never.

### AgentRun

`pc` is what `runAgent` awaits. The planner answers with any of `EditLists`, the
repair planner with any of `RepairLists`, the approver with either decision, and
`Human` may edit at every await. The plan's steps execute synchronously, so `Execute`
proposes, checks hazards and decides whether to ask, in one action; `Write` is the
simulator's `apply` with its recalculation. Four history variables say what people
changed (`foreign`), what the run last wrote (`lastWrite`), what the approver agreed to
(`consent`) and what he or the run last saw in a cell (`seen`): a cell that holds
something else is `unseen`, and stops being so when a person puts back what was there.

### LiveWriter

`pc` is the sync that comes next. Each action is one `context.sync()`; `Probe` and a
read are two, because `existingSheets` and the load are two. A failing batch has
landed a prefix (`BatchFails(n)`); a failing restore has landed any subset. The two
lookup syncs of `undoCreateSheet` are one action: the first can only refuse, and the
inverse is refused in either case. `Stored` is what Excel makes of a value it is
given. `UndoFails` reports the inverse either way, but `restoreName` deletes the name it saw
before it adds it again, and a failing sync may land the delete alone. The model's Excel (`WrittenCell`, `CanLand`, failing syncs) is what `src/`
relies on: `worksheets.add` throws on a taken name, `getItem` throws on a missing
sheet, `names.add` is taken to replace. `WorkbookAssumption` says what an extracted
workbook is: a cell is blank exactly when it holds nothing, nothing is on a sheet that
is not there, and Excel stores a value it holds as it is. `changed` is what people
changed since the writer last wrote it; `noticed` is the part of it that a read still
to come will compare, without what was put back meanwhile (`PutBack`).

`WorkbookHost` is the interface both hosts implement (`engine/src/host/types.ts`), a call
at a time: an apply does all of the change set or refuses, throws, or takes back what it
did; a rollback takes it back; and a call that may have left the workbook half-changed says
so (`Break`). What a call takes back is everything but what the inverses it reports would
undo. Nothing is promised once people edit. `LiveWriter` implements it with `shown <- AtRest`,
what the workbook shows when no call is under way: during a call that is what it showed
before. What "all of it" means is not the live writer's own word for it but `Planned`, the
simulator's `applyToWorkbook` on the same edits, with the values as Excel stores them, since the
simulator coerces nothing. Cells are compared by what they show (`Shows`).

### ToolCalls

A request is `[run, kind]`, of kind create, result or failure; `req[r]` says whether
it is on its way, loaded by its handler, or answered. `post_tool_result` and
`create_tool_call` are the bodies of the two handlers between `get` and `save`. With
Redis `Loads` and `SavesLoaded` are two steps and the handler saves what it *had*
loaded; in memory `HandlesAtOnce` is one. `GivesUp` is a fetch that rejects while the
request lives on, which is also how an answer 500 looks to the task pane. The catch
of `runTool` surrounds both the executor and the posting of the result, so a lost
answer makes it report a failure (`Error`). One session is enough: sessions share
nothing.

### TraceHighlight

`saved` is the module variable; `op[n]` is click `n`, with the groups it still
restores (`restore`, `toRestore`), the batches it still paints (`paint`) and the fills
it has read (`next`, the code's local). A click takes `saved` at once; each sync is an
action; the last paint replaces `saved`. The history variables `user` and `lost` say
what people gave each cell, and which cells an overlap, a failed sync or a person has
put beyond the code's knowledge. `SavedIsPainted` and `FillsAreRecoverable` say that the damage
stays within `lost`; they do not catch what puts a cell there. That is what `NothingAltered`, which
does not know `lost`, is for. The run `trace_leaves_fill` breaks it by an overlap; with `MaxFailures`
set to 1 it fails after one click, since `saved` is assigned only after the last sync of a trace.

### FormulaSyntax and FormulaParser

A formula is a sequence of tokens, a word or a number being one symbol, and what is
in brackets or quotes again a sequence of words and delimiters, because escaping and
splitting happen there. A parsing operator takes the tokens and a position and gives
the node, the position after it and the number of diagnostics: the code's cursor and
its list of diagnostics, of which only `length === 0` decides anything. Trial parsing
at a space (`Climb`) is the code's save and restore of its cursor and diagnostics. `Text` is `serialize` and
`normalizeR1C1` in one, told apart by the style, since they differ in how an address,
a name and a structured reference are spelled. What a formula may spell is
finite: `CellLikeWords`, `SpacedNames` and `UpperWords` list it. Whether a word names a column
is computed from its letters (`colLettersToIndex`), as the code does it.

### WorkbookModel, References, DependencyGraph

The book is a record; a cell keeps its formula with what the parser makes of it, so
that TLC parses a text once. `Resolve` is `resolveExtracted`, on a host that is a cell
or a whole run (`RunHost`). A node is its rectangle, a graph the
set of runs with their analyses, the constants they read, and edges. `detectCycles`
takes the strongly connected sets of nodes, which the code finds with Tarjan's
algorithm, and confirms each on cells with `hasCellLevelCycle`, which is exact in the
model too: `Shrink` takes away what reads nothing that is left.

### Evaluator and Simulator

Values are integers, texts, booleans, errors and blanks. A division that leaves the
integers gives the marker error "inexact". `evalFunction` takes evaluated arguments:
evaluation has no effect, so it makes no difference that the code evaluates the
arguments of `IF` on demand. `Ordered` is Kahn's algorithm with the code's queue, started
in the order of the graph's nodes.

### AuditRules and Spreadsheet

A rule is a set of findings, `dedupeByAddress` the report. `Spreadsheet` has an action for each
thing a change set or its rollback does to a workbook under the simulator host; each
says what it writes (`Change`), and `Apply` ends it, in the same step, with a fresh graph and one
recalculation, as `apply` and `rollback` do.
`known` and `preview` keep what the user had been told.

## 3. What is checked

| Run | Shows | Bounds |
|---|---|---|
| `ai_coordinator` | the properties of the coordinator | 4 cells, 3 questions, budget 2, batches of 2, 2 cycles |
| `agent_run` | consent, drift, merge, rollback, termination | 6 plans, 6 repair plans, 2 repairs a run, 1 human edit of 9 kinds |
| `live_writer` | recovery, rollback, conflicts, every call ends, the live host implements `WorkbookHost` | 3 change sets, batches of 2, 2 failed syncs, 3 human edits |
| `tool_calls` | what the task pane is told is what the log says, a call is resolved once, no outcome is invented, every run ends | both stores, 3 runs, 2 fetches given up, a log of 2 calls |
| `trace_highlight` | damage to fills stays within the cells that overlap, failure or a person touched | 3 clicks, 2 findings over 3 cells on 2 sheets, 1 failed sync, 1 human act |
| `spreadsheet` | parser, graph, preview, simulator and audit agree with one another | 13 scenes: formulas of up to 5 tokens in four lexicons, of 4 in a fifth at the last columns, and of one bracketed token of up to 4 symbols or 3 parts; workbooks of up to 6 × 6 cells, two change sets; 125 tables of lookup keys |

Why these bounds reach the interesting cases. *Coordinator*: four cells fill a batch
of two twice, so two flushes overlap; with a budget of two the second batch straddles
or exceeds it; the second cycle resets it in mid-flight; three questions leave a
duplicate among four cells. *Agent run*: two repairs are the first number at which
`mergeChangeSets` merges into an already merged set; the plans and repairs cover
every kind of edit, a planned and an implicit sheet, a name defined twice in one
list, an error introduced and one repaired; one edit at any of ten awaits suffices
for every race between a person and the run. *Live writer*: two failures break the
apply and its recovery, or two inverses; three human edits allow an edit, its undoing
and another one; batches of two give a full, a partial and a second batch; one change set has its structural edits
between its cell edits, so that the two hosts do them in different orders, and one of those creates
the sheet a later one writes to. *Tool
calls*: a given-up create of the first run can be served during the second and the
third, a given-up result can be saved around its own failure report, and the third
call pushes the first out of the log. *Trace highlighting*: three clicks are a trace,
one that overlaps it and a clear; the findings share a cell, one lists its primary
cell and a cell twice, and the initial fills are a colour, white and none.
*Spreadsheet*: five tokens reach every production of the grammar and most pairs of
operators, whose precedences are compared two at a time; a fill of three cells has a
first, an inner and a last one and crosses an absolute end; two change sets make a run
and cut it, close a loop and open it, break a cell and read it; three keys hold every order of two equal
and one different; names are shadowed by scope and refer to themselves; sheets
disappear and are renamed under the formulas that name them.

`AckIsRecorded` and `ResolvedOnce` hold for the memory store, and for Redis as long as
the task pane awaited every answer (`Serial`): with Redis a request that overlaps one
the task pane gave up overwrites its save, or resolves its call again. What the two properties
are about is the lost answer and the failure report after it; that the handlers' load and save
are not atomic (`routers/tools.py:86`) no property states, since the code does nothing against it.
`RecoveryIsExact` and `RollbackIsExact` allow a new sheet, or a name that refers to something
else, only if an inverse of that sheet or name was reported (`StructureBack`).
`ImplementsHost` contains that a live apply that reports success left what the simulator makes
of the same list, although it does the structural edits first and the cells in batches.
`AppliedAsPlanned`, which is proved and not run, adds the number formats; those
of cleared cells are left out, because the simulator drops them
(`changeset/engine.ts:302`) and Excel's clearing of contents keeps them.
`FillsAreRecoverable` compares fills as Office.js reads them, so that a cell that was
white and is cleared counts as unchanged.

The properties of `spreadsheet` compare two parts of the engine that compute the same
thing apart, or a part with what it stands for:

| Property | Compares |
|---|---|
| `RoundTrip` | the tree with the tree parsed from its serialization |
| `FillIsACopy` | translated copies with the R1C1 signature that joins them to a run |
| `EveryInfluenceHasItsEdge` | the graph's edges with what the evaluator reads, when the audit claims complete coverage |
| `CyclesExact` | cycles of nodes, loops of cells, and the cells the simulator could not order |
| `RecalcSettles` | the single pass of recalculation with another evaluation of every formula |
| `PreviewCoversChanges` | what the user was told with what changed |
| `AuditNamesEveryRoot` | the report with the chain of errors between cells |
| `TwinsAgree` | lookups, counts and sums that a user takes for the same |

They are stated with the exceptions below, each of which the model shows when the exception is taken out
and which a careful team will want to look at:

- *Ends that pass each other.* `=SUM(A1:A$10)` filled past row 10 swaps its ends, but a run
  sweeps the ends of its first cell (`graph/resolve.ts:61`): precedents of the last
  cells are lost and the coverage is still called complete. `EveryInfluenceHasItsEdge`
  leaves such runs out (`InOrder`).
- *Empty cells have no node.* `impactOfArea` (`graph/graph.ts:405`) finds nothing for a
  write into a cell that was empty, though formulas read it, and `traverse` leaves its
  start out, so that the rest of an edited run, a running total say, is not announced either.
  `PreviewCoversChanges` is about writes into populated cells and adds the edited runs.
- *AUD-004 looks at nodes.* A cell at fault by itself is taken for a consequence when
  any cell of a run that its own run reads holds an error (`audit/rules.ts:411`), and two such
  runs may hide each other: `[@Base]` filled into the totals row, and read by `Sales[@Rate]` filled
  beside it. `AuditNamesEveryRoot` leaves out what depends on such runs.
- *What serialize does not keep.* More than two columns in one structured reference,
  column names that hold a comma or begin or end with a space; `RoundTrip` leaves them out. `[[#This Row],[Rate]]` becomes
  `@[Rate]` and then `@Rate`: the text is not stable, the meaning is, which is why trees are compared. The R1C1
  signature keeps structured references as typed, so that `FillIsACopy` asks for the
  canonical spelling.
- *Fills off the sheet.* `translateFormula` clamps at the first row and column, which a fill, always
  down or to the right, never reaches, and does nothing at the last. `FillIsACopy` holds up to the
  edge (`Fits`), which the scene `edge` reaches; beyond it a reference past XFD is written as a text
  the parser takes for a defined name (`parser.ts:391`), where Excel gives `#REF!`, although a
  translated formula is to be "what Excel does when you fill a formula" (`runtime.ts:699`).
- *References that do not resolve.* The evaluator may find a value where the graph
  counts an unresolved reference: a span of sheets whose end is missing, of which it reads
  the first sheet. `RecalcSettles` leaves those formulas out.

Met while modelling, and outside these properties: a bare `[@Col]` takes the first
table that has the row (`graph/resolve.ts:158`); a LET name that is also a defined
name is local to the graph and defined to the evaluator; of a span of sheets the
evaluator reads one, of a name with several areas the first; `CHOOSE(0, ...)` gives
the index; an approximate VLOOKUP takes the first of equal keys and MATCH the last;
the graph and the evaluator differ in which texts are errors.

Runs that are expected to find a violation, each stating what the repository says:

| Run | States | What the code does instead |
|---|---|---|
| `ai_failures_cached` | a failed request is not cached (`engine/test/aifn/batch.test.ts:210`) | a per-item failure becomes `#AI_ERROR!`, a value, and is cached |
| `colleague_overwritten` | INV-8, for repairs too (`README.md:140`) | a repair on the simulator host is applied with no drift check |
| `rollback_deletes_sheet` | D-026, D-027 (`DECISIONS.md:236`, `:274`) | the sheet is deleted with a cell the rollback has just reported as kept |
| `live_rollback_overwrites` | INV-3 (`README.md:132`) | an edit between the write and the capture counts as ours |
| `trace_leaves_fill` | a trace never leaves a user's formatting altered (`highlight.ts:7`), two traces overlapping | a second trace reads the first's highlight as the original fill, and replaces what the first had saved |
| `live_half_changed` | `writer.ts:14` | recovery asks for a sheet that was never made, and stops |

Every property of the passing runs has a mutant in its module (an operator commented
`Mutant:`), a plausible slip in the code it models, which the property detects.

### Fairness

The coordinator has weak fairness of the timer (the event loop runs what is due) and
of the handler per call (a `fetch` settles). The agent run and the live writer have
weak fairness of the agent's and the writer's own steps: promises of the provider,
the approver and Office.js settle, one way or the other. The tool calls have it of the
server's steps per request and of the task pane's own steps, but not of giving up. Nobody owes a recalculation,
a flush from outside, an edit, or a request to roll back. Deadlock checking is off
where all bounded work can be done. `Spreadsheet` has no fairness: its properties are
about each workbook as it stands.


## 4. What is proved

`tlapm` checks every leaf. The theorems hold for every value of the constants that the
named assumptions of the modules allow: any number of calls, runs, repairs, failing
syncs and human edits, any workbook, any edits, any hash function, any batch size.

| Theorem | Module | States |
|---|---|---|
| `TypeCorrect` | `AiCoordinatorProofs` | `TypeOK` |
| `InflightCorrect`, `OwnerCorrect` | | `InflightExact`, `OneOwner` |
| `NoRepurchaseCorrect`, `OwnAnswerCorrect` | | `NoRepurchase`, `OwnAnswer` |
| `BudgetCorrect`, `BannerCorrect`, `RefusalCorrect` | | `BudgetPerCycle` (INV-7), `BannerMatchesRefusals` (not run), `RefusedOnlyWhenSpent` |
| `QueueCorrect` | | `QueueIsDriven` |
| `ServiceCorrect` | | `ImplementsService`, the refinement |
| `TypeCorrect` | `AgentRunProofs` | `TypeOK` |
| `NoUnseenContentIsOverwritten` | | `AppliedOnlyOnWhatWasRead` (INV-8) |
| `NothingLandsUnapproved` | | `ConsentCoversWrites` (INV-2, D-028) |
| `RollbackIsPolite` | | `RollbackYieldsToLaterEdits` (D-026) |
| `RecalculationIsNotDrift` | | `RecalculationIsNoEdit` |
| `RollbackUndoesTheRun` | | `RollbackIsExact` (D-027, INV-3) |
| `TypeCorrect` | `LiveWriterProofs` | `TypeOK` |
| `NothingNoticedIsLost` | | `NoticedEditsSurvive` |
| `NoFalseConflict` | | `ConflictsAreEdits` (Q-012), for drift and for rollback conflicts |
| `FailedApplyIsUndone` | | `RecoveryIsExact` |
| `RollbackRestores` | | `RollbackIsExact` |
| `LiveApplyIsTheSimulators` | | `AppliedAsPlanned` (not run) |
| `LiveHostImplementsHost` | | `ImplementsHost`, the refinement |
| `TypeCorrect` | `ToolCallsProofs` | `TypeOK` |
| `NothingIsInvented` | | `NoInventedOutcome` |
| `AcksAreRecorded`, `ResolvedAtMostOnce` | | `AckIsRecorded`, `ResolvedOnce` |
| `TypeCorrect` | `TraceHighlightProofs` | `TypeOK` |
| `TheDamageIsContained`, `TheHighlightIsThere` | | `FillsAreRecoverable`, `SavedIsPainted` |
| `OnlyLostFillsAreAltered` | | what remains true of the promise of `highlight.ts:7` |
| `FoldInvariant` | `LeftFolds` | induction for `FoldLeft` |

So every safety property of the runs `ai_coordinator`, `agent_run`, `live_writer`,
`tool_calls` and `trace_highlight` is a theorem. Each inductive invariant was checked with TLC on
the instance of its run before it was proved.

### AiCoordinator

From `BoundsAssumption`, `OptionsAssumption` (a budget of zero is allowed),
`HashAssumption` and `SentinelAssumption`.

1. *Types* (`TypeInv`). `TypeOK` alone is not inductive: the handler answers the
   question of a call in a batch, so calls in the queue or in a batch must have been
   asked (`Asked`).
2. *One loop step* (`LoopShape`, `QueueSplit`). `flush` divides the queue into a sent
   prefix, a refused middle and a rest that have nothing in common; what it sends fits
   the budget.
3. *Ownership* (`Owners`). `InflightExact` and `OneOwner` need each other: that
   removing the settled calls' hashes from the map removes no other call's entry
   follows from the map being exact; that a settled call was pending follows from its
   being owned. Two facts about promises complete it: a settled promise was made by
   its own call (`SettledAreMade`), and a shared one exists (`SharedAreMade`).
   `HandlerOutcome` reduces the handler's cases to a function from the batch's calls
   to values; `FlushOwners` then does the step once, for the timer, the public
   flush and the handler.
4. *Everything a loop step changes* (`LoopRuns`, `LoopStep`) and everything a request
   changes (`RequestShape`) are each stated once; the other properties use only these.
5. *Spending* (`Spending`): the calls sent in the current cycle are at most
   `llmCalls`, which is at most `BUDGET`, and no call was sent in a later cycle. A call
   is sent once, because it is in the queue before and not after.
   `RefusedOnlyWhenSpent` also needs that the cache never holds a refusal
   (`NoCachedRefusal`).
6. *Refinement* (`ServiceInit`, `ServiceStep`): a request is an `Ask`, a loop step a
   `Settle`, a new cycle or a cleared cache a stutter. That a shown value never changes
   is ownership again: a loop step settles pending calls only.

### Folds, and the change-set engine

A change set is applied, inverted and rolled back by folds over lists of edits, and
what a fold computes needs an induction. The library's induction theorems take an operator as a
parameter, which the provers cannot instantiate; a theorem of an INSTANCE they can use.
`NumberLemmas` derives that a non-empty set of numbers has a least element, `LeftFolds` with it
that `FoldLeft` satisfies its recursion, and `FoldInvariant`: what holds of the base and is kept by
every element holds of the fold. Each proof about a fold instantiates
`LeftFolds` with the operator it folds and what it wants to know after `i` elements. Two traces of
one fold meet (`TracesMeet`), which gives the fold of the empty list, of a list cut in two and of a
list but for its last element (`FoldEmpty`, `FoldSplit`, `FoldLast`).

`ChangeSetsProofs` says what the operators give: applying a list leaves every other
cell alone (`EditsApplied`), and a recalculation changes no formula and no constant
(`Recalculated`); a proposal has a snapshot for every cell it touches (`Proposed`); a merge
keeps the first snapshot and takes the later applied state (`Merged`); a rollback gives
back the snapshots of the cells that are still as applied, leaves all others alone and
reports those that are not (`RolledBack`). What a list of inverses undoes is said once for a
whole history: `NamesFit` asks for the names before each of the edits, such that every
inverse takes a name one step back, or leaves it undefined for an earlier inverse of the same
name to restore. Planned inverses have such a history (`PlannedBack`), two histories join into
that of a merge (`HistoriesJoin`), and undoing one in reverse gives the first names back
and takes away exactly the sheets it deletes (`TakenBack`). Lists are compared by their elements, index
by index (`IsList`).

### AgentRun

From `AgentBounds`, `WorkbookAssumption`, `EditAssumption` (edits are well formed) and
`CurrentAssumption`: nothing is on a sheet that is not there, a formula reads a cell, and the
workbook is as its last recalculation left it, as the callers of `runAgent` see to
(`engine/scripts/eval-edit.ts:34`). Only `RollbackUndoesTheRun` uses the last one.

1. `TypeInv` adds that the workbook is one (`IsWorkbook`) and that the change set and the
   repair are change sets (`IsChangeSet`: edits, snapshots, applied state and inverses
   fit each other).
2. `SeenInv`: while the approver decides, the snapshots are what he was shown; after
   the drift check the workbook still is what he was shown, or what a person put there after it.
   With `NoDrift` this is INV-8 at the write.
3. `ConsentInv`: from the drift check to the last repair the change set is covered,
   by an approval of at least its risk and of all its cells, or because it is low;
   what is low is number formats (`LowIsFormat`). `InScope` is the argument of D-028.
4. `RecordInv`: what the run recorded of a cell is what the cell holds, unless a person changed
   it, over every merge; a recalculation changes no content
   (`ContentRecalculated`). `RollbackIsPolite` and `RecalculationIsNotDrift` follow.
5. `ExactInv`, while nobody else edits: the workbook is the original one until the apply,
   and from then on the change set *leads back* (`LeadsBack`): its snapshots are the original
   cells, the other cells are as they were, but for the values of formulas, its
   inverses have a history from the original names to the present ones, and a new sheet is either
   deleted by an inverse or was first named by a cell edit (`ImplicitSheets`). A
   change set leads back when it is applied and each repair keeps it so (`LeadsOn`). At the rollback
   every touched cell is still ours (`RecordInv`), so that all are restored; the sheets to
   delete are then empty, so that no inverse is refused, and a recalculation brings the values back
   (`RecalculatedBack`).

### ToolCalls

From `BoundsAssumption`, `LogAssumption` (the log holds a call) and `StoreAssumption`.

1. `ClientInv` holds on both stores, whatever overlaps: which requests of a run are out
   by its phase, that a status in the log, *or in a log a handler has loaded and not yet
   saved*, was asked for, and that an acknowledgement repeats an answer. `NothingIsInvented`
   follows.
2. `LogInv` holds while handlers do not overlap (`Serial`). Its heart is `LogFits`: the
   log is what doing the accepted requests, and no others, leaves, unless a call has been cut
   off a full log; a loaded log fits the requests done and its own. That no handler
   overlaps is itself derived: in memory nothing is ever loaded, with Redis what is out is
   what is awaited (`OutIsAwaited`) and one run follows the other (`RunsInOrder`).

### LiveWriter

From `WriterOptions`, `WriterBounds`, `WorkbookAssumption`, `EditAssumption` and
`NoneAssumption`.

1. *Types* (`TypeInv`): the structural edits that landed are matched by the inverses recorded for
   them, one by one (`LandedInv`), which needs that the planned inverses line
   up with the structural edits (`InversesAligned`); those left to undo are the recorded ones
   backwards (`UndoInv`); blank cells hold nothing, and nothing is on a sheet that is
   not there (`LiveBook`), after any prefix of a batch and any subset of a restore.
2. *Nothing noticed is lost* (`SurviveInv`). Before a read, what people changed and did
   not put back differs from what the read compares with (`DriftWillNotice`,
   `RollbackWillNotice`), *unless its sheet came after the probe*: then the code takes the
   cell for blank, and it is (`UnreadIsBlank`). So what is written or restored was not
   noticed, and a sheet the writer added, which undoing deletes, holds nothing
   noticed (`AddedSheetsAreBlank`).
3. *No false conflict* (`ConflictInv`): until the write, what nobody changed is as the proposal
   read it, so that an apply refuses for drift only over cells somebody changed (`DriftChanged`);
   between the write and the rollback's read it is as the capture read it.
4. *Recovery and rollback are exact* (`ExactInv`, while nobody edits). With `Pending`
   the number of inverses not yet undone: a sheet that is new is deleted by a pending
   inverse or by one already reported, and a name that neither kind is about refers to what it
   did (`SheetsExact`, `NamesExact`). Each landed edit adds one inverse, each undone one takes the
   last away, and one that fails is reported, whatever it left of the name it is about
   (`FailedInverse`), so that the two hold at every sync and after every failure; at the end nothing is
   pending, and what is left over is, item by item, what is reported.
   Untouched cells never change, touched ones are back once the restore has run.
5. *A successful apply is the simulator's* (`LiveApplyIsTheSimulators`). `ProgressInv`: while
   nobody edits, the workbook is the original one with the structural edits that landed and
   the cell edits that were written (`AsFarAs`), no cell before the last structural edit,
   every written cell on a sheet that is there. A batch lands as if its edits were written one by
   one (`WritesGoOn`), so at the end the workbook is all structural edits and then all cell edits
   (`AllWritten`). That this is the change set in its own order is an induction over the
   list (`PlanAgrees`, kept by each edit in `PlanGoesOn`): a structural edit changes no cell, a
   cell edit no name, and the one thing a cell edit of the simulator may add, the sheet it writes
   to, is there in the live workbook or its batch would have failed.
6. *The live host implements the abstract host* (`LiveHostImplementsHost`). `CallInv` says which
   call each sync belongs to and that nothing is reported before the inverses run; `HostInv` follows
   from the invariants above and says what the workbook shows at rest and what a finished
   call left. `HostStep` then maps each sync: one inside a call stutters, the capture that ends an
   apply is the host's `apply` (by 5), the last inverse is `Recover` or `rollback` (by 4), a failing
   restore is `Break`, and a human edit is `Disturb`.

### TraceHighlight

From `FillAssumption` (people do not use the two highlight colours), `TraceAssumption`
(what a finding is) and `TraceBounds`. `FillsAreRecoverable` is part of the induction:
what a trace reads is right because of it, and it stays true because of what was read.

1. *Batches* (`BySheet`, `ChainRefs`, `BatchesOfATrace`). The two folds that group a chain by sheet
   and drop what was seen give batches with no cell in common, so a click never reads a
   cell it has painted. `Orderly` says where a click is: nothing read while it restores,
   the current batch remembered while it paints, the later ones not yet.
2. *Owners* (`OwnerInv`). Outside `lost`, a cell is claimed by one click, or is saved,
   never both; while a trace is under way nothing saved is outside `lost`, because its end
   will replace `saved`; and two traces under way have lost all they claim. That is why the last
   trace to end may overwrite what the other saved without breaking the promise
   further than `lost` says.
3. *Memory* (`MemoryInv`, `PaintedInv`). What is remembered of a cell is what people gave it, and
   what is saved or painted is highlighted: a restore or a paint of another click
   touches a cell only if both have business with it.
4. A step of a sync changes one click to a value that claims no more than before
   (`OwnersKept`); `ClickKeepsInv` is the one place where claims grow. A failing sync changes
   only what its click restores or has read (`FailingSyncChanges`), all of which is given up.

`NothingAltered`, which the code breaks, holds for all cells but the lost ones and those on deleted
sheets (`OnlyLostFillsAreAltered`).

### What is only model-checked

- *Liveness* (`EveryCellSettles`, `RunEnds`, `CallsEnd`, `EveryRunEnds`): the provers
  do not reason about fairness and ENABLED.
- `Spreadsheet` (`RoundTrip`, `FillIsACopy`, `EveryInfluenceHasItsEdge`, `CyclesExact`,
  `RecalcSettles`, `PreviewCoversChanges`, `AuditNamesEveryRoot`, `TwinsAgree`): its modules recurse
  over trees, and what a recursive operator computes for every input is out of the prover's reach.

## 5. What is not modelled, and why

- The tokenizer's reading of characters, number formats, prompts, WIL, locale: text,
  where the code's tests reach what matters.
- Forecast, rounding, roots, dates, NPV and PMT, STDEV, VAR, the health score: real
  numbers, which TLC does not have.
- AUD-003, AUD-007 and AUD-010, which ask the semantic map for the role of a cell, a heuristic on labels,
  and AUD-013.
- Agent tools: single reads that change nothing; what a plan may write is a constant
  of `AgentRun`, and the fill of `formula.set` is in `Spreadsheet`.
- Corpus and evaluation, React views, token validation and configuration: fixtures,
  views, or one call to a library.
- Renames and tables in the live writer, and everything of extraction but the snapshot: `LiveWriter`
  takes the extraction as one read, so an edit between two of its syncs is no case of it.
- The MSAL client promise, routing and metering, change-set records: each a few lines
  with one cache or one counter. The hazard at `auth/provider.ts:75`
  is listed without a property.

What a next step would add, in this order: `AgentRun` on `WorkbookHost` instead of the simulator
host, so that what is proved of a run holds on a live workbook as far as the interface
promises it; renames and tables in the live writer; the token cache. The modules of the spreadsheet
recurse over trees and stay with TLC.
