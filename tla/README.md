# Canonical company auditor: specifications, checks and proofs

This directory models the part of `canonical-company-auditor` (a Rust library, CLI and
HTTP service, with a JavaScript worksheet and two runtime probes) in which order,
concurrency, failure or a chain of decisions can go wrong. TLC checks the models on
small instances; TLAPS proves the main results for every instance. Source paths below
are relative to the directory that holds `src/`: the crate is `src/src/`, its documents
are `src/docs/` and `src/*.md`.

## 1. Inventory

| Part | State it keeps | Operations | What is hard | What makes it correct |
| --- | --- | --- | --- | --- |
| Output files and command lifecycle: `app.rs`, `app/output.rs`, `cli.rs`, `main.rs` | the file system; one process per command | `assess`, `audit`, `package`, `prompt`, `readiness` read, compute, create a directory, write files by create-new + flush + sync, exit 0, 1 or 2 | several invocations at once; I/O errors and kills between any two calls; power loss; readers of files that are being written | an exit code is right about the files; a manifest seals a packet; nothing is published from a torn source; what is written stays |
| Deterministic assessment: `engine.rs`, `evidence.rs`, `model.rs`, `program.rs` | none | validate, seal, evaluate rules, summarise, verify a report | freshness boundaries, aggregation, sorting and digests | same evidence, same report; only own, current evidence; monotone in evidence |
| Evidence merging: `evidence_merge.rs` | none | merge bundles of many collectors | arrival order, duplicates, conflicts, foreign scopes | order-independent, lossless, refuses conflicts |
| Engagement record: `engagement.rs` | a record people edit | validate, validate against inputs, finalisation gates | any order of edits, phases moved back and forth | a finalized record is complete |
| Audit dossier: `audit.rs`, `app.rs` | none | run the audit, conclude, verify a dossier, exit code | precedence of gaps and exceptions, conclusions that must agree with counts | conclusions are earned; exceptions are not lost |
| Package: `package.rs` | none | render ten documents and a manifest, verify a package | ten documents rendered apart from each other; a seal that must notice any damage | accepts what audit wrote; its documents agree; damaged packages are refused |
| Readiness, Rust: `app/readiness.rs` | none | validate and analyse a questionnaire | parity with the JavaScript implementation | same answers, same analysis |
| Readiness worksheet, browser: `readiness/browser.mjs`, `readiness.mjs` | draft, dirty flag, import gate | edit, import with a five-second deadline, export, leave | late reads, overlapping imports, edits lost | no silent loss; controls come back |
| Runtime probes: `probes/` | a child process; a traversal queue | spawn, collect, time out, settle; bounded traversal | racing callbacks; truncation | settles once, always; truncation is reported |
| HTTP service: `server.rs` | the settings it was started with; its connections | start under a policy, authenticate, catalog, prompt, assess, audit, package, drain and return | shutdown with requests half sent, in work or unread; a policy checked at the start that each request relies on; clients that stall | beyond the host only signed bodies are worked on; a clean exit drops nobody; the drain ends when its clients do |
| Customer audit configuration: `audit_config.rs`, `config` in `app.rs` | none | validate, list missing fields, redact, digest, choose the interaction mode | redaction by field name over a nested document | what is shown, digest included, tells nothing of a secret's target and all the rest |
| Command-line contract: `main.rs`, `flags.rs` | none | refuse by contract, then by parser, then run and choose an exit code | order of the refusals | part of the commands' outcomes |
| Evidence adapters: `*_evidence.rs`, `scanner_signals.rs` | none | translate a report to a bundle | expiry arithmetic, what an identifier digests, counts a receipt claims, repeated scans | lanes compose into one set; a run and its cases agree; scanner signals grow with the evidence |
| Telemetry, `report.rs` and prompts, schemas, scripts | none | formatting | none that is stateful | not modelled |

The parts meet through files (a report or dossier written by one command is read by
another), through function calls (audit runs the assessment; package verifies the
dossier; the service calls the same engine as the commands) and through the evidence
bundle that collectors deliver. PROJECT.json lists under `hazards` what is hard to test
at which line, and the properties that cover it.

## 2. Modules

| Module | Models | Extends / uses |
| --- | --- | --- |
| `Publication` | the abstract promise: claim a path once, make it whole or give up, seal last, report only what is whole | |
| `OutputFiles` | the commands at the file boundary, one action per call | instance of `Publication` |
| `PowerLoss` | `OutputFiles` on a machine that loses power | `OutputFiles` |
| `Server` | the HTTP service: start-up policy, requests, connections, drain | |
| `AuditConfig` | the customer configuration and the `config` command, as operators | |
| `Process` | one process that publishes no file: `main`, `catalog`, `validate`, `config`, `serve` | `Server`, `AuditConfig` |
| `Sorting` | sorting by a key that differs | |
| `Engine` | the assessment and the merge, as operators | `Sorting` |
| `Adapters` | the four adapters and the summary of scanner findings, as operators | `Engine` |
| `EvidencePipeline` | deliveries, merge, assessment, repeated | `Adapters` |
| `Engagement` | the engagement record and its validation, as operators | |
| `AuditPackage` | the package's documents, its seal and their verification, as operators | `Engagement` |
| `Audit` | edits, audit, exit code, package | `Engine`, `AuditPackage` |
| `Readiness` | the questionnaire's validation, import and analysis, in JavaScript and in Rust, as operators | |
| `Worksheet` | one browser tab of the worksheet | `Readiness` |
| `ProbeLauncher` | the parent process of the JavaScript probe, and any child | |
| `ProbeTraversal` | the bounded traversals of both probes | `Sorting` |
| `OutputFilesProofs` | theorems (section 4) about `OutputFiles` and `PowerLoss` | `PowerLoss`, TLAPS |
| `SortingProofs`, `ProcessProofs`, `AuditProofs`, `WorksheetProofs`, `ProbeLauncherProofs` | theorems about the module of that name | that module, TLAPS |
| `EvidenceProofs`, `ProbeTraversalProofs` | theorems about `EvidencePipeline` and `ProbeTraversal` | these modules, `SortingProofs`, TLAPS |
| `MC*` | the values TLC is given | the module of that name |

### OutputFiles: state and actions against the code

`pc[p]` is the call an invocation makes next; a command is the sequence `ReadSource`
(`read_json`, `app.rs:261-277`, with the verification of what was read), `MakeDir`
(`create_private_dir`, `output.rs:13-24`), and for each output `Open` (create-new),
`WriteAll`, `Flush`, `SyncAll` (`output.rs:26-39`) or `EmitStdout`, then `Finish`.
`Fail` is the error return of whichever call is next (a `BufWriter` that is dropped in
`write_all` or `flush` tries to write its buffer once more, so the file may hold more,
up to all of it); `Kill` ends the process, and its buffer is gone. `Finish` chooses
among the exits of the command line: `assess` and `audit` parse `--fail-on` only after
the output is written, so a bad value gives exit 1 with the file in place. `holder` and
`made` say which invocation's create-new or mkdir made a path; `len` how much of the
contents is in the file; `synced` which files' `sync_all` returned.

Contents are abstracted to a length and to what a reader makes of the file (`Readable`):
a proper prefix of the JSON does not parse, and a whole file is accepted when it is of
the right sort (the newline that ends it is part of its last chunk, though no reader
misses it). That `package` accepts every whole dossier is itself checked, by
`PackagesWhatAuditWrote` in `Audit`; that it may find one longer than the 10 MiB it
reads is the outcome `unreadable` there. A packet has `Documents` documents instead of
ten; the dossier is the last of them and the manifest comes after it, as in
`package.rs:75-149` and `app.rs:213-222`.

### Process, Server, AuditConfig

`Process` is one run of the binary under a command that publishes no file. `ParseArgv`
is `main` up to the command: `flags.rs` may refuse, or fail to write its contract, then
clap may refuse or print help. `Catalog`, `ValidateInputs` and `ShowConfig` are those
commands of `app.rs`, each of which can also fail on stdout; `Serve` lets `Server` take
a step, and `ServeReturns` is the exit code made of how `run` returned. `Kill` is any
other signal. `dropped` records the clients whose connection the process took with it,
whatever ended it.

In `Server` every client has one connection (`closed`, `idle`, `sending`, `received`,
`answered`) with one request on it. `Listen` is `run` up to `axum::serve`: `PolicyHolds`
is the checks it begins with together with those of the secret (`read_webhook_secret`),
and the bind may fail. `Response` is the routes: the limit first, then the signature
over the body, then decoding, then the engine; its statuses are those of `ApiError`. A
body beyond the limit is answered 413 while it is still being sent, and before anybody
looks at its signature, because the layer that limits bodies is outside the handler;
`Answer` may therefore fire in `sending`. `Interrupt` is Ctrl-C, or the failure to
install a handler for it, which the code answers by draining at once
(`server.rs:354-364`). While draining nobody connects, idle connections are closed
(`CloseIdle`), requests under way are answered, also those that are only half sent, and
`Return` follows the last connection. There is no deadline, and a second Ctrl-C is
swallowed by the handler that tokio keeps installed: a client that stalls in the middle
of a request holds the drain up, which is why `ShutdownEnds` has an antecedent.
`ListenerFails` is the error that the type of `axum::serve` allows and `run` handles
(`server.rs:97-115`); today's accept loop retries instead, so this only adds behaviours. What
axum and hyper do is external and modelled from this use.

`AuditConfig` is `audit_config.rs`. A document is a record of the fields that are looked
at; those that admit one value only are represented by the set of those that have
another (`otherThanAdmitted`), and fields nobody looks at by `rest`. A secret reference
is scheme and target. The digest of the redacted document is that document. `config`
asks for a prompt and chooses its exit code from what is missing and from the mode
alone: `prompt_for_missing` and `fail_on_missing_required` of the document play no part
(`app.rs:76-105`).

### Engine, Adapters, EvidencePipeline, Engagement, Audit

`Engine` and `Engagement` translate pure functions as operators, one per function. A
digest is what it digests; a list sorted by identity is a set where nothing depends on
the order, and a sequence where something does (the bundle's observations, whose order
enters `evidenceSha256`). `Adapters` turns a report of a collector into a bundle, or
refuses it: what it keeps of the code is the validation, the freshness, the facts, and
above all what each external id is the digest of, because an id that digests too little
makes the merge refuse evidence that does not conflict, and one that digests too much
hides a repetition. An observation's source carries the version of its adapter, which no
id digests: a report imported again for the same second, by a newer adapter, conflicts
with itself. The ids of an evaluation receipt leave the whole context out (`Boundary`),
so a receipt imported at two times, versions or validities cannot be merged.
`LanesCompose` names these two, a source that speaks twice of one second and a receipt
under two contexts, as the only ways in which imported bundles of one company can
conflict, and says of the second that the observations in conflict are the same but for
the context: two receipts never collide, nor do two cases of one. A fact that is JSON's
null is an absent one, which only a bundle written by hand can hold. Thresholds are
numbers compared with bounds; whole ones stand for the code's `f64`. `EvidencePipeline` is the concurrency around them: a feed is a set of
collections, each a report of some lane with its context or a bundle somebody wrote by
hand, and `ToEvidence` is what becomes of one; then come `Deliver` (a collector,
external), `Merge` (`merge_evidence_bundles`), `AssessMerged` and `AssessAsDelivered`
(`assess`); `past` remembers runs so that two can be compared. In `Audit` the people of
an engagement edit the record in any order (`EditPaper`, `EditRequest`, `EditResponse`,
`MovePhase`, `Collect`: environment), `RunAudit` is the audit command with its exit code
and `Package` is what `package` does with the dossier. An edit sets the last dossier
aside, so a dossier in the state is always of the record in the state.

`AuditPackage` is `package.rs`. A document is the set of its rows, each with what the
code prints of it (a count where it prints a count), under the names the dossier uses,
so that two documents can be compared; `Sealed` is the manifest with its inventory and
its identity, and `Damaged` lists what a package becomes when a document is dropped with
its line in the inventory, or when two exchange contents.

`Sorted` is written without recursion, by how many elements come before each, so that it
can be reasoned about: `SortingProofs` proves that it lists each element once, in the
order of the key.

### Readiness and Worksheet

`Readiness` holds the two implementations side by side: `Validate`, `ImportDraft`,
`Issues`, `Analyze` are `readiness.mjs`, `CliValidate`, `CliIssues`, `CliAnalyze`,
`CliAssess` are `app/readiness.rs`. What they share word by word (a context, an answer's
field rules, the summary) is written once; where they are written differently (how a
duplicate is found, which answer a question has, how issues are collected) so are the
operators. Texts are classified by the sets they belong to: blank after trimming (both
sides use the same list of white space), within length and control characters, an
identifier.

`Worksheet` is `browser.mjs`. A handler is one action, since the browser runs it to its
end. The import is the exception: `Change` is the part up to the await (gate,
`setImporting`, size, the start of the read), `ReadAnswers`, `ReadFails` and `Deadline`
are the three ways the race ends, each with the code behind the await and both `finally`
clauses (`FinishRead`, `EndImport`). A read whose race is over stays in `reads` and may
answer at any time. `OpenPicker`, `ChooseFile` and `DropFile` are the browser and the
user: a picker opened before an import began may deliver while it runs, which is the
overlap `exclusiveOperation` is for. `half` is the set of questions whose due date is
half typed: such a field has the empty value, is invalid, and when its value was empty
before there is no input event.

### ProbeLauncher and ProbeTraversal

`ProbeLauncher` is `inspectModule` and `main`: `OutputArrives`, `ResultArrives`,
`SpawnFails`, `Deadline`, `Close` are its callbacks and `Finish` the settle-once
function. `Finish` sends SIGKILL, it does not wait for it: a child that is `killed` goes
on writing and forking, and may still exit by itself, until the signal takes effect
(`Dies`). `NoChildOutlivesItsProbe` therefore says that none is left to run on, and
`ProbeEnds` that it is gone in the end. The child and what it forks are external and may
do anything in any order. A
report is two pieces, so that a prefix, a report with something behind it and two
reports are all different from a report; that the piece counts as a report is
`safeReport`.

`ProbeTraversal` is `inspectBindings` (JavaScript) and `inspect_bindings` (Python) over
a graph of objects; a step is one turn of the loop, with the enqueueing it does.
JavaScript limits what it queues, Python what it takes from the queue. `Bindings` are
the queued entries of one object, in the order of their names. The two properties
compare the prints with what is in reach, which is defined without the traversal:
`Reachable` is what every set that is closed under the graph's bindings contains, and
`Chains` are the paths of objects within the limits on keys. Of names the two probes
promise different things. JavaScript looks at a name before it asks whether it has seen
the value, so it prints every sensitive one; Python passes over a value it has seen
before it looks at the name, so a sensitive name may be hidden by the name through which
its object was reached first. `PythonFindsSecretsInReach` says that a name of the module
is hidden only by one that sorts before it and is bound to the same object, and that
nothing hides a secret value.

## 3. Runs

| Run | Bounds | Shows |
| --- | --- | --- |
| `contention` | 3 invocations, 1 file, 2 directories, packets of 2 documents + manifest, 2 chunks, errors and kills | `TypeOK`, `OutcomeSound`, `ManifestSealsPacket`, `PublishedFromWhole`, `FrozenOnceEnded`, and `KeepsPromise`: the commands implement `Publication` |
| `fair` | 3 invocations, 2 files, 1 directory, no faults | `EveryCommandEnds`, `ContestedPathFilled`, for all five kinds of command |
| `power_loss` | 3 invocations, up to 2 losses | `VouchedFilesNotTorn`: what a success or a manifest vouches for is gone or whole |
| `process` | 2 clients, 10 requests, 48 settings, 74 configurations under 6 argument lists | `OnlySignedWork`, `CleanExit`, `ShutdownEnds`, `TargetsStayIn` |
| `evidence` | 3 feeds: 6 hand-made bundles, 4 imported scans and a finding noted by hand, 5 imports of the other lanes (and 2 refused); up to 3 deliveries a run, 2 runs, 8 observations in a bundle | `ArrivalDoesNotMatter`, `MergeKeepsEverything`, `EvidenceOnlyHelps`, `CitesOwnCurrentEvidence`, `LanesCompose`, `ReceiptCountsHold`, `SignalsOnlyGrow` |
| `input_order` | 4 bundles, as delivered | finding: the order of a bundle's observations alters the report |
| `type_mismatch` | the same | finding: `equals` fails on a fact of another type |
| `audit` | 2 rules (high and low), 9 workpapers, 2 requests, 2 responses, 4 observations, 4 values of `--fail-on` | `SatisfactoryIsEarned`, `FinalizedIncompleteOnlyFromEvidence`, `ExceptionsAreNotCoveredUp`, `QuietUnsatisfactory`, `ReviewCoverageIsHonest`, `PackagesWhatAuditWrote`, `DocumentsAgree` |
| `count_tests` | the same | finding: a gap masks an exception in the counts |
| `worksheet` | 2 questions, 2 fields typed, 4 files (fitting, of another assessment, no packet, too big), 2 reads, 2 views; over a thousand packets for the comparison | `OneImportAtATime`, `SummaryIsCurrent`, `BrowserAndCliAgree`, `ContentWhenComplete`, `NoSilentLoss`, `NoStaleImport`, `ImportsEnd` |
| `probe_launcher` | 1 unit of output and 3 pieces of result within the limits, 1 more written | `ObservationIsWhole`, `InvalidMeansInvalid`, `NoChildOutlivesItsProbe`, `ProbeEnds` |
| `probe_traversal` | 3 objects, up to 6 bindings, depth 2, 2 keys, 2 sensitive names, limits of 3, 5 and 9 bindings | `UntruncatedMissesNothing`, `PythonFindsSecretsInReach` |

Why the bounds are enough to be interesting. Three invocations are two that contend for
a path or a directory and a third that reads what one of them wrote, or that squats on
the manifest's path; two chunks give a torn state between empty and whole; two documents
give a packet with something before and after each write. The theorems lift these
results to any number of each. Two power losses let a retry after the first be hit by a
second. Two clients let one stall while the other is answered or goes away; the requests
are signed rightly, wrongly, for another body and not at all, of every kind of body, one
that decodes to nothing and one beyond every limit; the settings combine each bind
address, limits on both sides of what is admitted and each secret. The configurations
differ from one another in targets only, in one other field, or in nothing. Three
deliveries are the least for which two orders and a repetition differ at once, and two
runs are what a comparison needs. The imported bundles are a scan and its repetition
with a higher severity, another tool that found the same in the same second, a finding
without a resource's name (its summary is refused), one that somebody noted by hand with
a null for its provider, a native report, telemetry imported under two versions of the
adapter, and a receipt imported twice; a receipt with false counts and a validity past the end of
time are refused. In `audit` every conclusion, each of the finalisation gates that
depends on papers, requests, responses or actors, and both ways of crossing a threshold
are reached. The packets compared in the worksheet run hold every answer there may be to
one question beside a complete one, and answers left out, given twice or to no question.
Two reads (`MaxReads`) let a late answer meet a newer import, and two questions let an
edit be in one while the filter hides the other. The launcher's channel holds a report
and one piece more, so that a report with something behind it is within the limit, and a
fourth piece is beyond it. The traversal's depth, key and binding limits (4, 256 and
5000 in the code) are small enough that graphs of three objects lie on both sides of
each.

`CHECK_DEADLOCK FALSE` is set because the systems stop: commands end, and a packaged
dossier that nobody edits stays.

Fairness. `FairSpec` of `OutputFiles`: a started command goes on taking its own steps
(`WF_vars(Command(p))`), because a command is straight-line code that waits for no other
process. Starting a command, errors and kills are not fair. `FairSpec` of `Process`: the
service answers what it has received, closes the idle, returns and exits, because the
runtime runs every task that can run; clients owe nothing, neither the rest of a request
nor reading an answer, and neither Ctrl-C nor a failure need come. `FairSpec` of
`Worksheet`: `WF_vars(Deadline)` alone, because a browser runs a timer that has expired;
nobody owes the page a file. `Spec` of `ProbeLauncher`: `WF_vars(Deadline)`, for the
same reason, `WF_vars(Main)`, since `main` goes on when its promise is settled, and
`WF_vars(Dies)`, since the kernel delivers a SIGKILL that was sent; the child owes
nothing.

Findings (disagreements between a document and the code, each a run that TLC refutes):
`docs/architecture.md:37-38` says input order cannot alter a report, but
`evidenceSha256` digests the bundle in input order (`evidence.rs:85`);
`THREAT_MODEL.md:44` says type-incompatible evidence is never a fail, but `equals`
answers false for it (`engine.rs:194`); `audit.rs:71` documents `exception_controls` as
the tests with exceptions, but a gap takes precedence (`audit.rs:382`).

## 4. What is proved

The theorems hold for every value of the constants that meets the assumption of the
module, which TLC evaluates in the runs:

* `OutputFilesAssumption`: positive sizes, null values outside their sets, well-formed
  command lines.
* `ServerAssumption`: sizes and limits are natural numbers.
* `ProcessAssumption`: the documents are of the shape that decoding gives them, and the
  value for "no secret sources" is not what redacting some gives.
* `PipelineAssumption`: the reports have their decoded shape too; external ids have an
  order, and a bundle written by hand does not claim an adapter's source, id or type (an
  id is a digest, so this takes a collision or an intention).
* `AuditAssumption`: finitely many rules, papers and requests, severities are numbers,
  records are records of the right fields.
* `ReadinessAssumption`, `WorksheetAssumption`: the catalog and a packet hold lists, the
  empty text is blank, the empty field is no date.
* `LimitsAssumption` (probe launcher): limits are natural numbers.
* `TraversalAssumption`: so are they here; the root is an object, entries are lists, and
  no object binds a name twice. The graph may have cycles, and any number of objects.

**OutputFilesProofs.** `TypeCorrect`: types, with `JobInv` (where an invocation is
agrees with its command line), `Shape`. `Inductive`: `IInv`, the conjunction of `Shape`
and five layers. `OwnInv`: what an invocation is writing is its own, and it is where the
code says. `HolderInv`: a path is held only by a command that has it among its outputs
and has reached it. `ProgressInv`: the outputs before the one being written are the
command's own, whole and synced. `DirInv`: files of a packet belong to the maker of its
directory. `SourceInv`: past its read, a command's source is readable. None of the
safety properties is inductive alone: `OutcomeSound` speaks of the end of a command and
needs `ProgressInv` on the way there; that in turn needs that nobody else writes a path
one holds, which is `HolderInv` and `OwnInv`. `OutcomeIsSound`, `ManifestIsSeal`,
`PublishesFromWhole` follow from `IInv`, and `EndedIsFrozen`, the action property, from
`IInv` and the lemma `StepKeeps` (no step takes a path or shortens a file).

`Implements`: initial states map to initial states (`MapInit`), and each action to `Begin`, `Claim`, `Complete`, `Publish`, `GiveUp` or a stutter
(`MapStart`, `MapClaim`, `MapGiveUp`, `MapStep`); one more invariant, `EmptyInv`
(nobody's file is empty), is needed so that a new file is not already whole.

`VouchedFilesSurvive`, of `PowerLoss`. A loss takes files from commands that wrote
them, so `ProgressInv` and `DirInv` do not survive it. `SettledInv` is what does: the
outputs a command has left behind, and those of a command that succeeded, are whole and
synced *as far as they are still there*. With `OwnInv` and `HolderInv` it is inductive
over the commands' steps and over `PowerLost`.

**ProcessProofs.** `ProcessTypeCorrect`, `ShutdownIsClean`, `WorkIsSigned`, for any
number of clients and any requests. The invariant says besides the types that there are
connections only under a policy that holds (`OpenUnderPolicy`), that nobody is connected
before the service listens nor after it has returned (`NobodyBefore`), and that who is
owed an answer has asked (`Asked`). `WorkIsSigned` rests on `OpenUnderPolicy`: that a
service beyond the host has a secret is checked once, at the start, and relied on by
every request. `TargetsNeverShown` compares the redactions of any two documents:
`RedactionHidesTargets` goes over every place a reference can be in and shows that what
is left of it tells its scheme and nothing of its target (`ShownTellsSchemes`),
`RedactionKeepsRest` that two documents which redact alike differ in nothing else; the
invariant `PrintedIsOutcome` ties what was printed to the command's outcome.

**SortingProofs.** `SortedOnce`, by counting (`Places`): with keys that differ, the
number of elements up to an element is its place, and places are a bijection that keeps
the order.

**EvidenceProofs.** `MergeLosesNothing`, `MergeForgetsOrder`, and the invariant
`EvidenceInv`: what is being merged and what past runs reported is what the code computes
of the bundles they were given. `ReportsAreOfWhatCame` turns that into the fact the
theorems need, that a report is of some accepted bundle with exactly the observations
delivered.
`ReportsForgetArrival`, `MergesKeepEverything`, `MoreEvidenceOnlyHelps`,
`CitesAreOwnAndCurrent`.

About what the adapters deliver there is a lemma each (`ExternalDelivers`,
`NativeDelivers`, `OperationalDelivers`, `AgentBundle`): the bundle is well-formed, and
every observation is `SignedBy` its lane, that is, its id says which lane, source and
second it is of (`AgentSigned`: which receipt). `LanesAlwaysCompose` follows, since two
observations of one id are then of one lane, and of one source and second or one
receipt; in that case the ids say which run or case each is of (`AgentIds`), so that two
imports of one receipt differ in their context alone (`ImportsDiffer`,
`ReceiptsDoNotCollide`). `ReceiptCountsAlwaysHold` traces a run and its cases in a merged bundle back to
the one receipt both are of (`AgentOrigin`, `OneReceipt`) and counts its rows
(`RowsCount`). `SignalsGrowOnly` rests on `HighestIsMax` and on groups that only grow
(`SignalsGrow`).

**AuditProofs.** The invariant is that a dossier is what `Dossier` makes of the present
record and evidence, that these were accepted (`DossierMade`), that the exit code is of
that dossier (`ExitMade`) and that what was packaged is it (`PackagedMade`). From there
the theorems are about the operators: `SatisfactoryEarned`, `IncompleteFromEvidence`,
`NothingIsCoveredUp`, `QuietExitsExplained` by way of how a control's status and the
conclusion come about, `CoverageIsHonest` by arithmetic on basis points,
`PackagesAreSound` from `DossierVerifies` and what a damaged inventory looks like.
`DocumentsTellOneAudit` takes one more invariant, that records stay finite
(`AllFinite`), and a lemma for each count of the summary that says of which table it is
the size (`ControlsCounted`, `RequestsCounted`, `ExceptionsCounted`): rows are counted
once because exceptions of one record differ (`RecordsDistinct`). `ReportAgrees` and
`ControlsAgree` then compare the documents.

**WorksheetProofs.** `Serialized` (gate, disabled controls and awaited read go
together), `NoDraftYet`, `DraftShape` and `Summarized` (a summary is of the present,
valid draft). From it `ImportsAreSerialized` and `SummaryStaysCurrent`, and the action
properties `NothingIsLostSilently` and `NothingStaleIsImported`. The two implementations
are compared as operators: `SameValidation` (pairwise comparison and injectivity),
`OneAnswer` (the answers of a valid packet to a question are one), `SameIssues` by way
of a third definition of what is raised (`Raised`), and `SameReport`. From these
`TheTwoSidesAgree`, and with `CompleteAnswers` and `ReportExits` `CompletionIsContent`.

**ProbeLauncherProofs.** Whatever the child writes and forks, an outcome that says
something of a report was reached at the close event, after which nobody writes
(`ConcludedAtClose`), and a settled promise has sent the signal. From these
`ObservationsAreWhole`, `InvalidIsInvalid`, `NoOrphans`.

**ProbeTraversalProofs.** The queue never changes but at its end (`Enqueued`,
`StepLooks`). In JavaScript what was seen is what the bindings looked at hold, it lies in
every closed set, and without truncation every entry of it is queued (`TsInv`); at the
end of the queue what was seen is itself closed, so `UntruncatedIsComplete`. In Python
the queue is in the order of depth (`PyDepths`): a value that is passed over was seen no
deeper, so that whatever was seen has its entries queued one deeper at most
(`PyQueued`). `SecretsInReachAreFound` is then an induction over the length of a chain,
for which `Induction` takes a set instead of the library's operator parameter, from the
well-foundedness of the natural numbers. The names of
the module are the first the queue holds, in their order (`PyRoots`), so that one whose
object was seen already was hidden by a name before it (`PyNames`, `PyFindsNames`).

Only model-checked is liveness under fairness: `EveryCommandEnds`,
`ContestedPathFilled`, `ShutdownEnds`, `ImportsEnd` and `ProbeEnds` are out of the
prover's reach. Every invariant and every action property of the passing runs is a
theorem. The three findings are what TLC refutes on an instance, and need no proof.

## 5. Not modelled, and why

Text: identifiers' alphabets, lengths, Markdown and its escaping, prompts. Sizes, and so
when a dossier is beyond the 10 MiB that `package` reads (that it may be is the outcome
`unreadable`). File contents byte by byte. What a flag looks like: `flags.rs` and clap
may refuse or let pass. Telemetry. HTTP's own protocol, keep-alive timeouts and TLS,
which belong to axum or are absent. Of the customer configuration the fields nobody
looks at, and TOML. Of the adapters: JSON decoding, sizes in bytes, the spelling of
digests and identities, and the further counts and identities of a report, which are
handled like those kept.

Of the worksheet: printing, the Markdown exports (they leave answers and flags alone)
and the loading of the catalogue. JSON decoding: a file either decodes to a packet or
does not, and both implementations are taken to decode the same files (serde also reads
a struct from a positional array, which JavaScript refuses). Of the probes: patterns,
hashing, the fields of a report, symbols, unreadable objects as a whole, and the keys of
a Python dict, which are queued like its values.

Schemas, catalogues and the repository's policy scripts are data and build tooling.

## 6. Plan

Done: every module of section 2, their runs and proofs. What would come next:

1. The two hazards that no property covers need sizes: that `audit` writes no dossier
which `package` is too small to read, and the arithmetic of `validUntil`.
2. `inspect_bindings` with the keys of a dict, which the model leaves out.
3. The worksheet's catalogue loading and its Markdown exports, if they come to keep
state.
