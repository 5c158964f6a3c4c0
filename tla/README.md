# hfss-agent in TLA+

`hfss-agent` (`src/src/hfss_agent`) is a read-only MCP server in front of Ansys
HFSS. It attaches to an AEDT process the user started, walks the user through a
selection (project, design, setup, sweep, variation), reads what is there, and
stamps every result with where it came from. The hard part of that promise is
*which* process, project and design a read was of, because calls into PyAEDT
can hang and the thread that made a call cannot be cancelled. The first half of
these modules is about that promise: adapter, session, broker, its log and
files, and the tools that compose them. The second half is about what may be
said of what was read: the gates, the metrics, the findings and the exports,
and, before any of it, of the machine itself.

## 1. The system

| Part | State it keeps | Operations | Talks to |
|---|---|---|---|
| **adapter** (`adapter/`) | the selection that scopes reads, the attached desktop, the handle cache | attach, list_options, select, inspect, validate_native, each on a worker thread under a watchdog | AEDT through PyAEDT |
| **session** (`session/`) | health, selection chain, last process, cause of loss, environment, `_just_verified` | the same five, plus two reads that never touch the adapter; `_verify` before any of them when SUSPECT | adapter |
| **broker** (`broker/broker.py`, `registry.py`, `confirmation.py`) | the registry | `dispatch`: look up, tier gate, run, audit, return or withhold | session, audit sink, files |
| **audit log** (`broker/audit/`) | a JSONL file | append, read | file system |
| **broker files** (`broker/files/`) | the intent record, exports | exclusive create, temporary file and rename | file system |
| **server** (`server/`) | one process-wide lock | eleven tools; composition; choice of adapter | broker, assemblers |
| **assemblers** (`inspect/`, `validate_native/`) | none | dispatch a read, dispatch the status, ask for the environment, stamp | broker |
| **snapshot** (`snapshot/`) | none | make one snapshot of what a caller read, or refuse | - |
| **gating** (`gating/`) | none | four verdicts on a snapshot | snapshot |
| **metrics** (`metrics/`) | none | route on the verdicts, six formulas, records and omissions; two export formats | gating's findings, the snapshot's data |
| **findings** (`findings/`) | none | accept or refuse findings of unknown provenance, merge two streams, render | gating's findings, the engine's |
| **preflight** (`preflight/`, `server/adapter_selection.py`) | none | choose the adapter, probe the machine, judge it, redact the log into a bundle | environment variables, metadata, broker |
| **contract** (`contract/`) | none | schemas | - |

A tool call takes the server's lock, enters the broker's dispatch, which calls
one session operation, which makes one adapter call, or several when it
re-verifies first. Every adapter call runs on a new daemon thread that the
watchdog joins with a time limit. When the limit passes, the caller gets a
timeout and the thread is **abandoned, not cancelled**: it still holds a
reference to the adapter, no lock covers it, and it writes when its live call
returns. That is the only concurrency in the program, and nearly everything
hard about it:

- *interleaving*: an abandoned `select` assigns `RealAdapter._selection` from
  the chain it read before it blocked; an abandoned `attach` rebinds the
  desktop, the handle cache and the selection; an abandoned bind puts a handle
  into the cache;
- *timeouts and retries*: the session answers a timeout with SUSPECT and
  re-verifies before the next operation;
- *partial failure*: a reset keeps a confirmed prefix and must re-select it in
  the adapter, and that can fail midway;
- *stale state*: the saved chain is compared with what AEDT says now, the
  environment with the process attached now;
- outside the session: torn appends to the audit log, processes that append to
  one at a time nobody chose, a sink that fails after the operation ran, a crash
  between a temporary file, its rename and the answer, two servers on one disk, a
  tool that dispatches twice.

From the snapshot on nothing is concurrent and nothing is kept. What is hard
there is that each layer relies on what another one judged: numbers are computed
behind gates that look at other things than the formulas need, objects come
from an engine whose every attribute may raise, values may be non-finite, and
a file must read back as what was measured.

What makes each part correct:

- adapter and session: a read is of the process, project and design it is
  stamped with; the two chains scope to the same selections whenever an
  operation may run; the environment exists exactly while a process is
  attached; a re-verification concludes, and a request returns;
- audit log: every record that was reported written is read back, whatever
  crashed around it, if its append had the log to itself, and damage is reported
  where it is;
- broker: no result of an operation leaves without its record; high-tier and
  unconfirmed capabilities never run; the record's `session_degraded` is the
  health delta of that call;
- files: an existing file is never torn, and never replaced unless asked; the
  intent read back is the last one that went through;
- tools: a read-out is stamped with what it was read from, a design that was
  read is answered, and the lock is given back however a tool ends;
- snapshot, gates and metrics: no number goes out unvouched, each metric is a
  record or a stated omission, and what cannot be judged is said to be so;
- findings: each candidate is decided once, in order, and only plain values
  travel;
- exports: a reader gets back the matrix, the frequencies and the free text;
- preflight: what is named, what is judged and what is shown are the same
  evidence, and no name leaves in a bundle.

## 2. Modules

| Module | Models |
|---|---|
| `SelectionChain` | the chain, the stages' order, and the two tables that clear it (`downstream_reset`, `_CLEAR_FROM`) |
| `Adapter` | the adapter's shared state, the call in flight, the abandoned workers, and every outcome a call may have |
| `Session` (extends `Adapter`) | the session, its requests, `reconnect_guarded`, `_verify`, `_resync_adapter`, `_classify_fault`; composes session and adapter |
| `SessionLifecycle` | what the session promises the layers above: a lifecycle in which selections change only by a user's act, a re-verification's reset or the end of the session |
| `SessionInvariant` | the inductive invariants `LifeInv` and `ScopeInv`, and the refinement mapping |
| `SessionStatus` | what a dispatch sees of a session, health and cause of loss, and where one operation can leave them |
| `SessionRequests` (extends `SessionInvariant`) | a request, from its arrival to its answer, as one step of `SessionStatus` |
| `AuditTrail` | what the audit log promises: a trail that only grows, in call order, with every confirmed record |
| `AuditLog` | append with the newline guard where appends take turns: torn lines, crashes, kinds of text, and what a read answers |
| `SharedLog` | append by several processes at any time: a look at the tail, and writes that each seek to the end and then put bytes there |
| `Broker` (extends `AuditLog`, `SessionStatus`) | `dispatch` from the status capture to the answer, over the log and what the session's status shows; crashes |
| `BrokerFiles` | every system call of both write primitives and of the intent store, and what callers learn, by several servers on one disk, with failures, crashes, withheld answers and a power loss |
| `ToolServer` (extends `SessionLifecycle`) | every tool as a script of steps under the lock, several clients; composes tools, assemblers and session |
| `Values` | `None`, and finite and non-finite floats as they compare |
| `Snapshot`, `Gating`, `Sparams`, `Metrics`, `ExportContent`, `Findings`, `Preflight` | the pure layers, one module each, as operators |
| `Verdicts` (extends all of those) | one run of the program through them: start, report, then a bundle, or snapshot, gates, metrics, merge, text, export; composes the layers and states what holds across them |
| `MCSession`, `MCRequests`, `MCAuditLog`, `MCSharedLog`, `MCBroker`, `MCBrokerFiles`, `MCToolServer`, `MCVerdicts` | small instances; `MCVerdicts` holds the families of requests |
| `SessionProofs`, `SessionScopeProofs`, `AuditLogProofs`, `BrokerProofs`, `BrokerFilesProofs`, `ToolServerProofs`, `VerdictsProofs`, `ExportProofs` | the theorems |

### State and actions against the code

`selection`, `desktop`, `apps` are `RealAdapter._selection`,
`LiveSession._desktop` and `LiveSession._apps`. A worker is a record: the
primitive it runs, the chain it read when it began, which live call it is
blocked in (`connect` is `Desktop(...)`, `bind` is `Hfss(...)`, `read` is
everything after), and the process that call reaches. `call` is the worker the
watchdog waits for; `orphans` are the ones it no longer waits for. Each live
call is a separate step because another worker's writes can fall between; what
the code does between two live calls is one step. `Hfss(project, design)` names
no process, so a handle belongs to the desktop of the moment it is bound: that
is external behaviour, taken from the comments in `adapter/real/session.py`.

`health`, `chain`, `lastProcessId`, `lostCause`, `environment` are
`_SessionState`; `justVerified` is `_just_verified`. The environment is
represented by the process whose versions were read. A request is received
(`Attach`, `ListSelectionOptions`, `Select`, `Inspect`, `ValidateNative`), and
`pc` then follows the code: `verify_list`/`verify_select` are the two adapter
calls `_verify` makes per stage, `resync` the selects of `_resync_adapter`,
`body` the guarded method. `served` is a history variable: the last design read
that succeeded, where it came from and what it was stamped with. There is one
request at a time because of the server's lock (`server/serialization.py`).

Names are model strings. `Clean` is `sanitize_str`, which is not the identity:
the adapter keeps raw names, the session sanitised ones, and the instance has a
name that the sanitiser changes. A variation is kept as its hash, and `HashOf`
resolves a token.

In `AuditLog` the file is its lines; a line is the fragments of records that
reached it, so a torn record, a stub joined to the next record and a blank line
are all distinguished without spelling out JSON. `CheckTail` is the guard's own
open, `Write`/`WriteFails` the append. There is one process and its appends take
turns, which the server's lock makes them do and `writer.py` relies on; a crash
can come between the two opens. `WriteFails` covers an `OSError` and the death of the process alike: the file
keeps a prefix, and nobody is told the record is written. Text is of three
kinds because two things depend on it: what `handle.read()` decodes and where
`splitlines` breaks. Lines are numbered as the file has them. `IsKept` says what
an acknowledged record may expect for each: to be read; or, if its text has a
line separator, to be named as corrupt lines; or, when the failed append of a
wide character left half of it, nothing, because no read decodes that log.

`SharedLog` drops the turns. `writer.py` says that an append-mode open "is not
atomic on Windows (the CRT seeks to end, then writes)" and reports records that
went missing without a trace, so an append here is a look at the tail, then any
number of writes, each a `Seek` and a `Put` of some of the bytes that are left,
and anything of other processes between any two. The file is a sequence of
cells; a put that comes late overwrites what is there. Text does not matter to
that, so a record is a number of pieces.

`Broker` runs one dispatch at a time (the server's lock): status, registry and
tier gate are one step, then confirmation, handler, the sink's two opens. The
session is its health and cause, and `Moves` (in `SessionStatus`) is what any
operation of `Session` can do to them. That is not left to a reader to compare:
`SessionRequests` adds to `Session` a history variable, the status a request
began from, and says that what is shown between requests is a behaviour of
`SessionStatus`. `Crash` may come after any step; the log stays.

`BrokerFiles` has one record per write: where its code is (`at`, one value per
system call, then `return`), how far its temporary file got, how it ended,
and whether its error named a file left behind. It ends `done` when its caller
was told how, and `unanswered` when its process died or its answer was withheld.
`disk` maps a name to the write whose bytes are there, how many of them, and
whether they were flushed. `Replace` is the rename alone; `Return` is a step of
its own, and the process can end between the two, or a dispatch whose record
cannot be appended can withhold the answer (`Withheld`: `AuditFailure`, or the
sink's error in place of the write's). So a file can be of a write that nobody
was told of. A server runs one write at a time (`Busy`, its lock). An intent is
`NonFinite` when a number of it is infinite or NaN: the schema takes it, the file
has null for it, and `ReadIntent` then answers corrupt, as it does for a partial
file. Losing power takes what was not flushed. Not modelled: that a rename itself
may not survive a power loss, a failure of the exclusive create that is no
`OSError`, and an intent file that something else wrote.

`ToolServer` runs each row of `Script`, which is `tool_surface.py`'s table with
the steps of each tool; `validate_setup` is deferred there, but its assembler
exists and is modelled as the row plans it. The session appears as its
lifecycle, which `session_waiting` shows `Session` to implement, so each of its
operations is the lifecycle step it may make. `asked = {}` stands for a tool
that asks for no sections; a request for all of them is one for the whole set.
The lock is reentrant, as `RLock` is. A wiring bug that returns a section of
the wrong type is left out.

In the pure layers a run starts from a *request*: the command line, the machine,
the attached environment, the log, and the pieces a caller would hold after its
reads. `tool_surface.py` defers the tools from the snapshot on, so nothing wires
these layers yet and `Verdicts` calls them in the order their docstrings give.
Numbers are exact: a reflection coefficient is a pair of integers in units of
1/`Unit`, a level in dB is kept as the squared magnitude it is monotone in, and
ratios as numerator and denominator; the reference impedance is whatever float
the provenance holds, negative, zero and non-finite ones too. Rounding, overflow of very large floats and
a denominator that underflows are left out; NaN and the infinities are not. An
object of unknown provenance is a node of a `Heap` with a type and what it
holds, so that nesting, sharing and cycles are what they are in Python, plus
what reading its class, its source or its claim does (answer, or raise). Text is
there only where something depends on it: the header of a file, quoting, control
characters, the spelling of an S-parameter key. A machine is its install roots,
what the metadata say of PyAEDT and the running Python; version texts are pairs
or `Unparseable`.

Over-approximations: any operation may meet any of the four session faults, or
decline, although the real adapter produces crash and disconnect nowhere (its
contract and the fake adapter do); AEDT may answer any listing from `Choices`,
any path and any solution type on every call.

## 3. Runs

| Run | Question | Result |
|---|---|---|
| `session_waiting` | when callers wait for abandoned workers, does the SUSPECT protocol repair what a timeout left behind? | `ScopeInv`, `ScopeAgreement`, `ServedUnderItsStamp`, `GuidedOrder` hold, and the session implements `SessionLifecycle` |
| `session_late` | what survives when abandoned workers write whenever they like? | control, the environment's lifetime, that a re-verification concludes, that a request does to the status only what the broker's model of it allows, and, under the fairness below, that every request returns |
| `session_late_read` | does re-verification cover a late write of the selection? | no (finding) |
| `audit_single` | does a torn line cost any other record, when appends take turns? | no: every acknowledged record has its line and is read, unless a torn character has made the log undecodable; malformed lines are at most the failed appends; and the lines implement `AuditTrail` |
| `shared_log` | which records can be lost when processes append at any time? | only those whose append overlapped with another's |
| `audit_torn_character` | is a torn line ever fatal to a read? | yes, when cut inside a character (finding) |
| `broker_dispatch` | do answers, gates and `session_degraded` hold under sink failures and crashes? | yes |
| `broker_files` | what can two servers, a crash or a power loss do to a file? | only a new file of an exclusive create can be torn; nothing is silently replaced; errors name leftovers; the intent read is of a set that went through, told or not, and none older than its server's last |
| `intent_returned` | is an intent that was reported written read back? | not with a number that is not finite (finding) |
| `tool_server` | with two clients, are read-outs stamped with what was read, and does the lock come back? | yes, and the between-calls sentinels of the assemblers cannot fire |
| `verdicts` | do the pure layers agree with one another over families of requests? | the ten properties below hold |
| `metrics_preconditions` | do the gates keep the preconditions of the formulas? | no (finding) |

`verdicts` checks, across modules: `ReportAgreesWithEvidence` and
`BundleIsBlindToNames` (machine and bundle); `NoNumberIsUnvouched`,
`CoverageJudgesRealTargets`, `EveryMetricIsAccountedFor` and
`BandSurroundsResonance` (gates and numbers); `EveryCandidateIsDecidedOnce`,
`OnlyValuesTravel` and `IdAnomaliesAreExact` (findings); `ExportReadsBack`, which
reads the two files back with a reader of each format. Each states what must be
true of inputs and outputs without using the definitions it is about.

**Bounds.** Two processes for `session_waiting` (so that there is an old one), one
abandoned worker, and there every stage with one project, designs `d1`, `d1~`
(which sanitises to `d1`), `d2`, two variation tokens, two paths, two solution
types. One project is enough because the two designs already give two bindings
and the paths give a project that changes under its name; one abandoned worker
because callers that wait meet at most one, and the findings need no second.
`session_late` has one process, two designs and nothing below, to leave room for
every interleaving of the worker; its safety properties do not tell processes
apart, and the theorems about them are for any number. `session_late_read` has no
more than its counterexample needs. Process ids are symmetric in
`session_waiting`; the liveness runs use no symmetry.

The log runs have up to five records of three fragments, enough for a stub, its
repair, another stub and records on both sides; the cut after the first fragment
is the one inside a character. The text is plain or of wide characters; line
separators, which break a line that is whole, are left to the theorems.
`shared_log` has two processes, three appends of one or two pieces and
every split of a line into writes: an append that overlaps, the one it overlaps
with, and one that had the log to itself before, between or after them. The
broker run has three dispatches, records of wide characters (so that a log can
become undecodable), one capability of each tier and an unregistered name. These
systems stop at their bound on records, so deadlock is not checked there.

Files: two servers, three writes, one acceptable path and one refused, so that
two creates race, a replace meets a create, and a third write follows a crash
or an answer that was withheld; its one intent is not finite, so a read answers
unset (nothing or the tombstone) or corrupt; the invariants ask for no finite
one. `intent_returned` needs one server and an intent of either sort.
Tools: two clients (the lock is between a holder and one who waits), two
sections and an unknown one, one process and two names (an attach to any
process drops every selection, so a second one tells nothing more apart).

Requests vary one side at a time around one that is whole: every series of three
samples over six values and every series of five over three (equal depths, bands
at either edge, levels at and around -10 dB, total and over-unity reflection),
targets on, between and off the samples and non-finite, reference impedances of
either sign, zero, infinite and NaN under reflections within and over unity, sweeps that are empty,
single, unordered or hold a NaN in either place, every arm of the solve state
and of each absence, matrices of one, two, three and five ports (the format's
order differs for two, a row breaks after four), batches of up to three
candidates, each of an engine's misbehaviours, signals that hold a handle behind
a cycle, machines with none, one or several installs on either side of the floor
and every state of PyAEDT's metadata, logs of up to two records with any
selection and arguments.

`LateOrphans` chooses between the two worlds. FALSE: no request is sent while
an abandoned worker can still write. That is not something the code enforces;
it is the condition under which the protocol does its work, and the runs with
TRUE show what is lost without it.

**Fairness.** `FairRequestSpec` assumes weak fairness of `Progress`, the steps of the
request being served: the watchdog bounds every adapter call
(`run_with_watchdog` joins with a timeout), so a call always answers. Nothing is
assumed of requests (nobody has to call) and of abandoned workers (they may
never finish). `FairServerSpec` assumes weak fairness of each client's steps
inside a tool, for the same reason: a tool waits for nothing but operations that
have a limit of their own. Nothing is assumed of clients that are in no tool.

**Findings.** Four runs check a sentence of the source that the code does not
keep; each is listed in `PROJECT.json` with its line.

- `session_late_read`: `server/serialization.py` and `session/session.py` say the
  SUSPECT protocol covers abandoned workers; it repairs what was written before
  it looked, and a worker can write after.
- `audit_torn_character`: `reader.py` says malformed lines are "never fatal".
- `intent_returned`: `server/app.py` says "Design intent is stored on disk and
  returned as you supplied it"; an infinite number, or NaN, is stored as null,
  and the read refuses the file as corrupt.
- `metrics_preconditions`: `sparams.py` and `metrics/assembler.py` say a
  `ValueError` of a formula means that gates were skipped. An empty sweep, a
  non-finite intent target, a series the gates do not look at, or an explicit
  target that hides the intent's all reach the formulas through four gates none
  of which refuses.

Noticed while modelling, and not checked by a run: with late workers a handle of
a prior desktop can enter the cache after a re-attach, and an abandoned attach can
bind another process under a session that was re-verified; a re-verification
leaves
the two chains equal in what scopes a read, but not in a project's path or a
design's solution type; an operation that always ends in an internal error
alternates with successful re-verifications; a record that holds U+2028 is
written whole and read as two corrupt lines (`AcknowledgedIsRead` allows for it).
No property covers the first three: `ScopeAgreement` compares what scopes a read,
and what a read is of is only checked for callers who wait.

## 4. Proofs

Eight modules hold the theorems. Every property of the passing runs is a theorem
but the two liveness ones. A theorem is about every value of the constants: any
number of processes, designs, clients, writers, files, records, findings, any
sweep and any heap of objects.

### 4.1 Session and adapter

`SessionProofs` proves, with no assumption on late workers, `LifeInvariant`
(`Spec => []LifeInv`) and from it

- `SessionTyped`: `Spec => []TypeOK`
- `EnvironmentExactlyWhileConnected`: `Spec => []EnvironmentIffConnected`
- `VerificationConcludes`: `Spec => VerifyConcludes`

and `RequestsAreSessionOperations` (`RequestSpec => RequestsMoveTheStatus`): a
request, whatever its faults, its re-verification and the late workers beside
it, is one step of `SessionStatus` or changes nothing that is shown, so the
broker's theorems are about this session and not about an invented one. The
invariant is `BeganFitsControl`: until its body a request leaves the status it
found, except that a re-verification, which only a suspect session goes through,
may have trusted or lost it.

`EnvironmentIffConnected` is not inductive: an attach records as environment
whatever desktop its worker sees, so one must know that a desktop exists once
the worker is past `connect` (`AttachReadsADesktop`); and the fault that ends a
re-verification is only terminal because control is where `CallsFitControl` and
`HealthFitsControl` say.

`SessionScopeProofs` proves, assuming `LateOrphans = FALSE`, `ScopeInvariant`
(`Spec => []ScopeInv`) and from it `ServedReadsMatchTheirStamp`,
`ScopesAlwaysAgree` and `ChainInGuidedOrder`. `ScopeInv` adds to `LifeInv` why
the protocol works: an abandoned worker exists only beside a session that is not
trusted and serves nothing (`OrphansOutsideRequests`); desktop, handles,
environment and both chains are of one process (`OneProcess`); a call in flight
sees the selection it began with (`CallsSeeTheSelection`); and, the heart of it,
while `_verify` or `_resync_adapter` is at a stage the two chains agree on
everything above that stage (`VerifiedSoFar`), so that when the walk ends they
agree on everything (`ScopesAgree`). Re-selecting `project` clears the adapter's
chain below it, so the walk from the top rebuilds it whatever an abandoned
worker left there.

With it goes the complement of a finding. `session_late_read` refutes
`VerifiedReadIsOfStampedDesign` with a worker that writes late;
`WaitingCallersReadTheStampedDesign` proves the same property when callers wait,
from `VerifiedIsStamped` beside `ScopeInv`, so a late write is all that the
source's promise lacks.

Its second half proves the refinement, `SessionImplementsLifecycle`:
`Spec => ImplementsLifecycle`, under the same assumption. Initial states map to
initial states; then each action is a step of `SessionLifecycle` or a stutter,
from `ScopeInv`. It needs the assumption, and not for the prover's sake: the
session takes its chain from what the adapter answers to a select, and a worker
that writes the adapter's selection late puts into that answer a selection the
user never made.

### 4.2 The audit log

`AuditLogProofs`, where appends take turns. For text of every kind:
`LogInvariant` (`AuditSpec => []LogInv`), `AcknowledgedRecordsAreRead` and
`OnlyATornCharacterIsFatal`. For text without line separators:
`DamageIsNoMoreThanFailures` and the
refinement `LogImplementsTrail` (`AuditSpec => KeepsTrail`). `LogInv` says
that nothing is written between the two opens (`GuardIsFresh`), that an
acknowledged record has a line of its own (`AcknowledgedHasItsLine`), that a
line holds fragments of one record each, in the order of the calls
(`LinesAreRecords`), and that the record being written is in none yet
(`InFlightIsNew`). Without the first the others are not inductive, and it is what
turns are needed for. `DamageIsCounted` counts: the proof maps each malformed line
to the failed append its fragment is of, one to one. The refinement follows the
reader's loop over the lines turn by turn: an append adds its record at the end of
the trail and a failed one adds nothing. `OnlyATornCharacterIsFatal` bounds the
finding about "never fatal": a log that no read can decode holds a torn piece of a
record that is not plain text and whose append failed. Its invariant
(`PartsAreOfFailures`) follows each fragment that is not whole to the failed
append that left it; an append under way has left nothing yet.

`OnlyOverlapsLoseRecords` (`SharedSpec => []OnlyOverlapsLose`) is about any number
of processes that append at any time. `writer.py` measured that overlapping
appends lose records silently; the theorem says that nothing else does. Its
invariant (`SharedInv`): an append that has been alone so far has what it sent at
the end of the file, after a newline, and its next write goes there
(`AloneHasTheEnd`); and when it returned its line stands and no write in flight
reaches back into it (`Safe`), for a write that starts later starts behind it.

### 4.3 The broker and its files

`BrokerProofs` shows that every dispatch step is a step of the log, or none.
`BrokerTyped` and `GatesAreKept` do not depend on the log. `AnswersAreAudited` and
`WorseningIsRecorded` are about one server over its log and records of any text;
both say of a record that it is kept (`IsKept`), so they do not claim a record
that can be read from a log that a torn character has made undecodable. The
second rests on `DegradationInv`: `settled` is the health the last dispatch left, the status
captured before a handler ranks it, so the record that is being appended says
"degraded" exactly when the handler made it worse, and the dispatch since which
the session is suspect is on record as such or its caller was told otherwise.

`BrokerFilesProofs`, for any number of servers, paths, intents and writes, every
failure, crash and power loss: `FilesInvariant` (`FilesSpec => []FilesInv`), and
from it `PartialFilesAreNew`, `ErrorsNameLeftovers`, `IntentReadIsTheLast` and
the action property `NoSilentOverwrite`. `FilesInv` relates where a
write's code is and what it has made (`WriteOK`); what is under a name and the
write it is known by (`FileOK`: whole, flushed and gone through, told or not, if
that write replaces); that a server's writes take turns (`TakeTurns`), so that the
intent file is of no write that a later one of its server has replaced
(`Superseded`); and that a replace that went through leaves its name occupied.

### 4.4 The tools

`ToolServerProofs`, for any number of clients, sections and names:
`ServerInvariant` (`ServerSpec => []ServerInv`), and from it
`StampsAreOfTheRead`, `ReadsAreAnswered`, `SectionsAreReported` and the action
property `RecordsAreTogether`. `ServerInv` says that a client in a tool holds
the lock, so there is one; that what it read is of the session *as it still is*
(`ReadStillHolds`), which is why a stamp taken by a later dispatch fits and why
the assemblers' sentinels cannot fire; and that it wrote the last record of the
log. What a script does where is a finite case analysis (`ScriptShape`); that
each section is reported once and in order is an induction over the canonical
list.

### 4.5 The pure layers

`VerdictsProofs`, for every set of requests of the shapes the contract's schemas
give them (`RequestOK`): `ResultsAreTheirFunctions` (`Spec => []PipelineInv`)
says that whatever a run holds is the value of its layer's function at the
request. A property of the run is then a fact about those functions:

| Theorem | Property | Rests on |
|---|---|---|
| `ReportIsAsTheMachine` | `ReportAgreesWithEvidence` | each check compares what the probe saw with its floor, and the overall answer is of the required ones |
| `BundleShowsNoName` | `BundleIsBlindToNames` | redaction reads a name only to tell a registered one, or a set one |
| `CoverageIsReal` | `CoverageJudgesRealTargets` | the ends of a sweep that rises are its extremes; a target that is not finite is refused and never replaced |
| `EveryNumberIsVouched` | `NoNumberIsUnvouched` | the routing on four verdicts; freshness never vouches |
| `MetricsAreWhole` | `EveryMetricIsAccountedFor` | each formula answers a finite value or one omission, whatever Z0; a resistance has the sign of Z0 unless the reflection is over unity; ordering by rank changes nothing but the order |
| `BandIsTheRunAround` | `BandSurroundsResonance` | the two scans from the deepest sample stop at the first one above -10 dB |
| `CandidatesAreDecidedOnce` | `EveryCandidateIsDecidedOnce` | a comprehension with an "if" and its complement part the arrivals and keep their order |
| `ValuesAloneTravel` | `OnlyValuesTravel` | the walk through untyped fields ends and misses nothing |
| `IdAnomaliesAreAsTheIds` | `IdAnomaliesAreExact` | groups are headed by the first of their id |

`FormulasRaiseForACause` bounds the finding about the formulas: when coverage's
finding is among those handed on, a formula raises only for a series the
solver's reader should not have returned (empty, of two lengths, not rising, or not
finite), an intent that is not finite, or an intent when coverage was asked
about another target. Nothing else gets past the gates.

The walk is the one place where termination is the matter: each turn pops an
object, and opening a container adds what it holds but uses up that container's
edges, so what pends plus the edges not yet used falls with every turn
(`WalkGoesOn`), and the heap's edges and the root are turns enough. What it met
is always reached from the root, and what an opened container holds is opened,
plain or pending (`WalkIsHonest`), so when nothing pends nothing foreign is
reachable, around whatever cycle.

`ExportProofs` proves `ExportsReadBack` (`Spec => []ExportReadsBack`): what the
two files say is read back, for any number of ports, any sweep and any free
text. The reader of each format is written from the format, so the proof is that
two programs undo each other, in steps:

- sequences of one length put end to end are a grid (`FlattenIsGrid`), and a
  sequence of sequences of sequences may be flattened from either side
  (`FlattenTwice`), so the lines of a point, whatever the breaks, flatten to its
  rows (`ChunksMakeTheRow`, `ChunksCarryThePoint`), each pair at the place the
  format gives it, two ports and all other counts alike (`RowsOfPoint`);
- every point has as many lines, and only the first has a frequency, so a reader
  finds the points where they start (`PointsStart`) and their pairs between two
  starts (`PairsAreThePoints`); the header is passed over (`DataAfterHeader`);
- a field with its quotes doubled is read as the text: at the end of what each
  character became, an even number of quotes is behind (`DoubledIsRead`);
- the number of ports that the export takes from rows and columns is the number
  of rows a reader counts, because no place of the matrix is missing
  (`PortsAreTheRows`), and the columns are each place (`ColumnsAreThePlaces`).

### 4.6 Induction

Much of the above is induction over what a loop does. The library's induction
theorems take an operator as a parameter, which the provers cannot instantiate,
but well-founded relations come as sets: `WFMin` and `NatLessThanWellFounded`
give `NatSetInduction` (a set with 0 and each successor has every natural
number), and with it `TurnsExist`: a recursive function over `0..n` exists and
is what its turns make it. The definitions the loops are (`Kept`, `Least`,
`Greatest`, the scans, the readers, the walk, the reader of the log) are written
as recursive functions for that reason, and a lemma about each states what it
returns.

### 4.7 What is assumed, and what is only model-checked

Assumptions on the constants, all of which TLC evaluates: `ChainAssumption`
(sanitising twice is sanitising once; `None` is no value), `AdapterAssumption`,
`SessionAssumption`, `AuditAssumption`, `SharedAssumption` (a record has at least
one piece), `BrokerAssumption`, `FilesAssumption` and `AbsentAssumption` (no
intent is `None`, no file is absent),
`ServerAssumption` (the sections are listed once each), the ones that tell
`None`, the exception, the non-finite floats and the texts from what they stand
beside (`NoneAssumption`, `NonFiniteAssumption`, `InfinitiesAssumption`,
`ValueErrorAssumption`, `ErrorAssumption`, `ReasonAssumption`,
`UnparseableAssumption`, `SourcesAssumption`, `AcceptanceAssumption`,
`BlurAssumption`), `UnitAssumption`, `HeapAssumption` (the heap is finite and only
containers hold anything), `InertNodeAssumption`, and `RequestsAssumption`: a
request has the shapes of `RequestOK`, which the schemas enforce on what they
validate (a log record's fields, lists of numbers, a candidate's fields once it
passed the schema) and of which nothing is asked of what they do not.

The theorems of `SessionScopeProofs` assume `LateOrphans = FALSE`;
`session_late_read` shows what happens without. Those about `AuditLog`, and the
two of the broker that rest on it, are about appends that take turns, which is how
`AuditLog` is built; `SharedLog` is what there is without. That no text has a line
separator (`"separator" \notin Kind`) is assumed by `DamageIsNoMoreThanFailures`
and `LogImplementsTrail` only: a separator adds malformed lines that no failure
caused. Both are about the file's lines; `audit_torn_character` shows when a read
does not get to see them.

Only model-checked: the liveness properties `RequestReturns` and
`HolderReleases` (liveness under fairness is out of the prover's reach), and
that the four findings happen; that three of them need what they are blamed on is
proved (4.1, 4.2, 4.5), and of the fourth `IntentReadIsTheLast` says that nothing
else makes an intent corrupt.

## 5. Plan

Done: all modules of section 2, and the theorems of section 4. What remains is
of two kinds. The liveness properties stay with TLC. And of two processes that
append to one log only the silent loss is modelled (`SharedLog`), not what a
broker's dispatch may then conclude from the log.

## 6. Not modelled

Left out because nothing in the program calls them yet: the two adapter
operations `read_solve_state` and `read_solved_data`. The requests of `Verdicts`
hold what they would return, and more. Left out as external: what PyAEDT answers
for one inspection section (a section is read or not readable), and where the
default directories are. Left out as test support: the fake adapter's scripting
of its outcomes, which are the adapter contract's, and of its hang, which is the
watchdog's timeout with a worker that never writes. Left out as data: the range
filter of an audit read, which drops whole records after everything modelled
here has happened. A power loss may also take audit records that the operating
system had not flushed (the writer does not call fsync): the log's runs are about
crashes of the process. The SDK, instruction texts, note and template wording and
the layout of rendered text are left out for good.
