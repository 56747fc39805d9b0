# Verification of idm-heatpump-node

TLA+ models of the Node.js client library for IDM heat pumps, the TLC runs that
check them on small instances, and TLAPS proofs of the properties that matter
most for every value of the constants.  Paths are relative to the repository's
`src/` directory; line numbers refer to the modelled commit.

## The system

One process, one event loop, no threads: concurrency is the interleaving of
asynchronous operations at their `await`s.  The library persists nothing, so it
has no crash recovery; the failures are those of a TCP link (timeouts, lost
sockets, late answers, a close that is rejected) and of the device (Modbus
exceptions, malformed answers).  Beside it are the commands that keep the
generated artifacts of its parity with the Python package (`scripts/*`): they
replace files in the repository as a whole, and must survive failing operations
and being killed.

| Component | State | Operations | Interacts with |
|---|---|---|---|
| Fifo gate (`client/fifo-gate.ts`) | tail of a promise chain | `runExclusive` | every public operation of the Modbus client runs inside it |
| Modbus client (`client/idm-modbus-client.ts`) | transport, suspicion, model info, register map, failure bookkeeping, last error | connect, disconnect, forceReconnect, readRegister/readValue, readBatch, probeRegister, detectModel, writeRegister, setValue; ungated: simulateWrite, resets, markBatchUnsafe, getters | awaits the transport; owns the gate and the write safety state |
| Write safety (`client/write-safety.ts`) | time of the last acknowledged EEPROM write per register, deadline of each cyclic write | plan (refuse or encode), record, resets, queries | called by the client inside a turn, by resets and simulateWrite outside |
| Batch reading (`client/idm-modbus-client.ts` 793-941, `client/read-groups.ts`) | permanently failed, unsupported, batch-unsafe sets, failure counters | group, read a group, fall back to single reads | resetFailedRegisters and markBatchUnsafe change the sets while a batch awaits |
| Detection (`client/detection.ts`) | none of its own | the ordered stream of probes and what is concluded from it | awaits one probe at a time; its result replaces the client's register map |
| Transport adapter (`transport/modbus-serial-adapter.ts`) | connect and close promises, timeout of the underlying client | connect, close, destroy, read, write | modbus-serial |
| Navigator 10 web client (`web/navigator10.ts`) | socket with queues of messages and waiters, cached data, reconnect counters | connect, close, readData, readStatistics, readNotifications | its own promise chain; a WebSocket |
| Navigator 2.0 web client (`web/navigator20.ts`) | CSRF token, usable paths, probe answers, cached data | login, detect, close, readData | login and close in a promise chain, readData outside of it; HTTP session |
| Timing (`timing.ts`) | current delay; next allowed time | AdaptiveBackoff, PollRateLimiter | used by the application |
| Codec (`codec.ts`) | none | decode and encode register words | every read and write |
| Register maps (`registers/*.ts`) | none after construction | definitions, write classes, lookups | client, write safety |
| Web parsers (`web/core.ts`) | none | what a response is taken for; values of tables and JSON | both web clients |
| Parity tooling (`scripts/check-parity.mjs`, `generate-api-parity.mjs`, `check-upstream-version.mjs`, `evidence-path.mjs`) | the generated artifacts and authorities of the repository; temporary and transaction directories | generate, check, release check | one command at a time, each over what the last one left |
| Types, errors, diagnostics (`types.ts`, `errors.ts`, `client/diagnostics.ts`), parity contracts (`contracts/*`, `internal/*`), package check | none | pure conversions and validators | |

What is hard here: a turn at the gate spans many awaits during which sockets drop,
time passes and controls that bypass the gate run; late answers on a link that is
still open; a close that fails; partial failure of a batch; state read before an
await and used after it.  `PROJECT.json` lists these hazards at their lines.

## Modules

| Module | Models | Kind |
|---|---|---|
| `ExclusiveQueue` | what a gate promises: callers served one at a time, in the order they arrived | abstract specification |
| `FifoGate` | the promise chain of `FifoGate` | implementation of `ExclusiveQueue` |
| `ModbusClient`, `MCModbusClient` | turns, lifecycle, suspicion, retries, write safety | component, composed with `ExclusiveQueue` for its gate |
| `ModbusClientProofs` | typing, EEPROM spacing, fresh links, what counts as a write, what gets a client unstuck | proofs |
| `ReadGroups`, `MCReadGroups` | `groupRegisters` | pure function, with a reference definition |
| `MCHelpers` | `MCReadGroups` and `Timing` in one instance | model checking only |
| `ReadBatch`, `MCReadBatch` | batches and the books of failed registers | component, composed with `ReadGroups` |
| `ReadBatchProofs` | grouping, batches and books; the delays and intervals of `Timing` | proofs |
| `Navigator10Web`, `MCNavigator10Web`, `Navigator10WebProofs` | the WebSocket client: queues of messages, late answers, reconnects | component, composed with `ExclusiveQueue`, and proofs |
| `WebPages` | what the HTTP client makes of a response; the posts of the login form | pure functions |
| `Navigator20Web`, `MCNavigator20Web`, `Navigator20WebProofs` | the HTTP client: logins in turns, reads outside of them | component, composed with `ExclusiveQueue` and `WebPages`, and proofs |
| `Detection` | the stream of probes and its conclusions | component |
| `RegisterMap`, `MCRegisterMap` | the catalog, the map of a model, lookups | component |
| `DetectionProofs` | what a detection concludes and the map that is built of it | proofs |
| `TransportAdapter`, `MCTransportAdapter` | requests, timeouts, kinds of errors, the memoised close | component |
| `GateAndAdapterProofs` | the chain's exclusion and its refinement of `ExclusiveQueue`; timeouts, closes and outcomes of the adapter | proofs |
| `Codec` | values to words and back | pure functions |
| `WriteSafety`, `MCWriteSafety`, `WriteSafetyProofs` | which writes are let through, throttle, deadlines | component, composed with `Codec`, and proofs about both |
| `Timing` | `AdaptiveBackoff`, `PollRateLimiter` | component |
| `ApiMapping` | the authorities of the API parity and what the generator accepts | pure functions |
| `ParityTooling`, `MCParityTooling`, `ParityToolingProofs` | the commands `check-parity` and `generate-api-parity` and their transactions on files | component, composed with `ApiMapping`, and proofs about both |

Definitions called *faulty variant* or *slip* are not used by any specification.
Each is the definition after it with one plausible mistake in it; `PROJECT.json` names
the property that tells the two apart.

### FifoGate

Call *n* creates promise *n*; `tail` is the promise created last,
`predecessor[n]` the one call *n* awaits.  `RunExclusive` is the synchronous part
of `runExclusive`, `Begin` the return of the `await`, `Release` the `finally`
block.  No action mentions an order of calls: that the order is that of the calls
is what is checked and proved.

### ModbusClient

`waiting` and `running` are the state of the gate, taken from `ExclusiveQueue`,
which `FifoGate` implements; `stage` says what the operation whose turn it is
awaits and `purpose` for whom a close or a connect is done.  `link` is
`#transport` together with the state of its socket, `closePromise` the adapter's
memoised close, `suspect` is `#connectionSuspect`, `attempt` counts the failed
attempts of the current request and `left` the requests still to be answered.
`lastWrite` and `deadline` are the maps of `WriteSafetyState`.  Two variables are
history: `tainted`, a request on this transport has gone unanswered, and `outcome`,
whether the call last taken has returned to its caller or thrown (`Return`, `Throw`).
`OnlyAcknowledgedWritesCount` relates the entries of `lastWrite` to it.

Data is abstracted: a batch or a detection is a number of requests (every number
up to `MaxRequests`, so a batch that falls back and one that does not are both
there), values are left out, errors are the four classes that the retry loops
and their callers tell apart.  Refusals of a write plan other than the throttle
are `BeginWithoutTraffic`.  Two steps of the model may have no macrotask between
them in the code (`ConnectSucceeds` and `Send`): the model lets the socket drop or
time pass there too, which only adds behaviours.  Error contexts and diagnostics
are not modelled.

### ReadGroups and ReadBatch

`GroupRegisters` is the loop of `groupRegisters` as a function of the number of
sorted registers it has seen; the sort puts each register behind as many as
precede it.  The reference definition says of words, not of the loop, when a
request can read a group: one type, every word of the span in exactly one
register, the span within the limit.

`ReadBatch` has one action per await of `#readBatchLocked`: the connection, the
read of a group, the read of a single register.  A request is taken together with
its retries, which `ModbusClient` models, and ends in words, in an illegal
address, in another answer of the device, or in a failure of the link that ends
the batch.  Of the words of a register only what the code decides from them is
kept: good, suspect or undecodable.  `permanent`, `unsupported`, `batchUnsafe`
and `failures` are the client's fields of these names; resets and
`markBatchUnsafe` may come between any two awaits.  The same register may be in a
batch twice.  A batch of which the filter leaves nothing returns before it awaits
anything and is left out.

### Navigator10Web

`waiting`, `running` are the promise chain, of the form of `FifoGate`.  A turn
opens a socket, authorizes, sends one request, awaits one message and, if that
fails, closes, sleeps and tries again.  A message does not say which request it
answers; in the model an answer *is* the caller it answers, which no guard looks
at.  `unanswered` is what the device has yet to answer on the socket, `inbox` the
wrapper's queue of messages, `alive` the WebSockets that are open or may still
open, so that one that opens after its timeout is there.  The native `close`
never rejects.  Each setting of a `readData` is a turn of its own, so a `close()`
may come between two of them and the next one connects again (`NextSetting`).
`authorized`, a history variable, says that the device has accepted the PIN on
the present socket.
Device messages that answer nothing, lengths of pauses, parsing, the
cached data, diagnostics and a `readData` of no settings are left out.

### Navigator20Web

`login` and `close` take turns, `readData` does not.  Continuations that are ready
(`Drained` is false while there are any) run before anything that waits for the
network, among themselves in any order; this is coarser than the runtime's
order and adds behaviours only.

`WebPages` classifies responses: a text is the set of marks that the code looks
for in it (`looksLikeLoginPage`, `looksLikeAuthFailure`, `looksLikeDataResponse`),
a response is a text with a status, and `PostAnswer`, `ProbeAnswer` and
`ReadAnswer` say what each caller of `#requestText` makes of it.  A response
rejected with 401 or 403, to a post or a probe, counts as no answer at all, as in
the code.  The twelve posts of the login form (three paths, four field names)
cannot fail the login, whatever comes back; they only set `#loginFormReturned`.
`tryLogin` is the set of all ways they can end, and `LoginEntered` takes one of
them together with the first page.  `closedOver` remembers that a close ran
between a read's login and its choice of paths; `lastPage` is what the last page of
the running login that told of the PIN was: the form, the text of a refusal, or a page
behind the login.

### Detection

One action per kind of probe, in the code's order.  What the device is and what
the client hears of it are separate: a probe of something the device has may be
lost, at most `MaxLost` times.  Words are kept as what the code decides from them
(-1, in range, other; 255, another mode).  The firmware value is left out, and a
probe's retries are in `ModbusClient`.

### TransportAdapter

One call is one attempt; `call` holds the request under way and the timeout it
was sent under, `timeout` that of the one modbus-serial client, which each request
with a timeout of its own changes and restores.  A connection gets a new adapter,
as the client makes one.  Errors are their codes; texts and redaction are left
out, `setTimeout` of modbus-serial does not throw, and `destroy()`, which the
client never calls, is left out.

### Codec and WriteSafety

Numbers are in thousandths, so that fractions, their division by a multiplier and the
rounding to two digits happen.  A float is divided by the multiplier, narrowed to the
nearest 32-bit float (a tie to the even pattern) and refused if that is infinite; what
is read is multiplied, rounded to two digits, or null if it is not finite.  The shape of
a float is in three constants: `Half` floats between two powers of two, the gaps between
neighbours, and how many of the smallest gaps are one (2^23, 254 gaps and 2^149 in the
program).  A number of the program stands for the decimal it prints as: where its
own double is a hair off, a tie may round to the other side, which no property tells apart.

The checks of a write are made on the value that was asked for, before it is
converted.  `OnlyAllowedValuesWritten` says what is left of them afterwards: a value
that the register can hold (`Exact`) arrives as it was checked, and rounding any other
does not take it past a limit that the register can hold.  It names what may slip
through: an excluded value reached by rounding, a limit in between two values (35 with a
multiplier of 10: 40 is written), and flags above 255, masked as
`test/codec.test.ts:385` documents.

`WriteSafety` makes a plan when a write's turn begins and records it when the
device answers.  `Accepts` is the conjunction of the checks of `createWritePlan`
in the code's order of lookup: a definition is known if name and address are, and
only its own copy's limits are looked at.  `WriteClass` gives write-only
precedence over the EEPROM flag.  A write is acknowledged or it fails;
`ModbusClient` has its retries.  `written`, a history variable, is the last
acknowledged plan.

### RegisterMap

The tables with address, size and write class of every register; limits, units,
texts and serialisation are left out.  Names are tuples.  What a circuit, a zone
module and a room have is a table each (`CircuitTable`, `ZoneTable`, `RoomTable`), placed at
the address of its number.  `InfosAssumption` says what a detection may report, the
seven circuits, ten zone modules and four features that it has probes for.  A client has no map
before its first detection and uses that of the full model.  `ReadLookup` and
`WriteLookup` are the two orders in which the code looks into catalog and map.
Options of the registry are not validated.

### Timing

Both classes in whole numbers: the refusals of their constructors are the
assumptions on the constants.  `unbounded` is the delay as it would be without a
maximum, `marks` the times at which polls were marked.

### ApiMapping and ParityTooling

`ApiMapping` is what `generate-api-parity.mjs` validates before it renders
anything: manifest and baselines, the inventory of public symbols and classes,
each row of the mapping (owner, status with its evidence, function name, class
representation, the members of a partial class, alias), the mapping as a whole,
and the extensions against it.  An authority is a record of what those checks
tell apart: a path of evidence is the sequence of nodes its segments lead to.
Shapes of JSON, lengths of texts and error codes are left out.

`ParityTooling` runs one command at a time over authorities and artifacts left by
the one before.  `check-parity` proves the checkout (`VerifyCheckout`, one
missing fact is enough to refuse), provisions Python, generates into a directory
of its own and compares, or replaces through a transaction directory: stage all,
then move each artifact to its backup (`BackUp`) and the new one into its place
(`Install`), with the restore of the artifact at hand (`Reinstate`), the rollback
of those before it (`Rollback`, `PutBack`) and the `finally` clauses (`Discard`,
`CleanupOwnedRoot`).  `generate-api-parity` renders from the fixtures in the
repository and replaces the two documents through temporary files and snapshots
in memory (`WriteTemporary`, `RenameTemporary`, `RestoreSnapshot`, `Sweep`).
Every operation on files may fail and the process may be killed between any two
(`Kill`).  The bytes of an artifact are those of the pinned upstream, those of
another version, of a file that is not a bounded regular one, or there are none.
`before` and `unrestored` are history: what the artifacts were when the command
started, and those whose restoring failed or was given up because an earlier one failed.

A killed `generate-api-parity` may leave one document of the new and one of the
old version, as its snapshots are in memory only, and a killed `check-parity` may leave
an artifact only in its transaction directory, which no later command looks for.  If a
rename that restores an artifact fails, `check-parity` removes that directory, and the
only copy with it.  `KeptUntilReplaced` says exactly this much and no more.

## Runs

| Run | Instance | What it shows |
|---|---|---|
| `fifo_gate` | five calls | exclusion in call order; the chain implements `ExclusiveQueue` with its fairness, so every call settles |
| `modbus_client` | two callers, one EEPROM and one cyclic register, two attempts, batches of up to two requests, clock 0..2 with intervals of 1 | spacing of EEPROM writes, no request on a tainted transport, only acknowledged writes are recorded, what gets a client with a rejected close out, every call returns |
| `helpers` | up to three registers of two types on four addresses, one or two words, limits 1 to 4; four delays, six ticks | groups lose nothing, are readable with one request, and are not cut short; polls are allowed exactly when no interval runs |
| `read_batch` | four registers (adjacent, overlapping, write-only), batches of up to three, threshold 2 | the books agree, quarantine is kept, registers are condemned for their own answers, a batch accounts for each register |
| `navigator10_web` | three callers, three sockets, two attempts, reads of up to two settings, one abandoned socket | requests only on an authorized socket, pairing of answers, sockets left behind, the rejected PIN, every call returns |
| `navigator20_web` | two callers, two paths, every response, the form's three paths and four fields | no read without data unless closed, a failed login names its own cause, every call returns |
| `navigator20_web_empty` | the same | finding: a `close()` in a login's wake makes a read return nothing as a success |
| `detection` | three circuits, four zone modules, five features, two lost probes | the conclusion is the device, what losses can hide, the model has evidence |
| `write_safety` | 18 definitions of every datatype and class, with multipliers below, at and above one, 23 values at their limits and between them, floats of 15 bits with six gaps, no register map and one, clock 0..2 | the checks hold for what the device gets, it reads back within the rounding, plans stay acceptable, spacing, deadlines |
| `register_map` | 2048 models, names of every table | unique starts, documented overlaps of the EEPROM class, one meaning per name, probes match registers |
| `transport_adapter` | two callers, requests at the limits | timeouts belong to requests, a resolved close means down, outcomes mean what happened |
| `parity_tooling` | two commands, two faults per command, one kill; three artifacts in each of four states; every single edit of the authorities, pairs of edits where the first alone only keeps a release back, every pair of member lists of up to two | all or nothing, what is kept of the previous bytes, no leftovers without a fault, what a release covers, partial classes partitioned |

Bounds.  Turns exclude each other, so two callers give every order of two operations and
a waiting caller during each; a second attempt is the first one that follows a
reconnect.  With intervals of 1 and two ticks a second write falls before, at and after
the boundary.  Three registers are the fewest of which two can be merged and a third
cannot; a threshold of two is the first that counts. Three sockets are the present one,
an abandoned one and the next.  Four zone modules have room for a gap of two and
something beyond it, three circuits for a gap between two; the code's numbers are ten
and seven.  A read of Navigator 2.0 whose first path is rejected with a stale token has
a second one to read after the login.  A third caller of Navigator 10 is one that still
waits while a close runs between two settings of a read.  The floats of `write_safety`
reach from 1/32 to 32767: 15.01 and 29.999 are narrowed, -1.035 and 0.125 are rounded by
integers and floats, 32768 and more is refused.  The circuits and zones of
`register_map` are those with neighbours of another kind.  Three artifacts (a fixture
and the two documents) are the fewest of which two are in place when the third fails;
with two faults the second one hits the rollback of the first, and a second command
finds what a killed one left.  The package of `MCParityTooling` has a class, a function,
a web class and its alias, one of each kind that the validators treat differently.

Deadlock is not checked where the model ends by itself: `fifo_gate` (the calls are
bounded and all settle), `helpers` and `register_map` (one evaluation each, or a
bounded number of delays), `parity_tooling` (a bounded number of commands).

Type invariants.  `TypeOK` of `FifoGate`, `ModbusClient` and `WriteSafety` is part of the
inductive invariant of its proofs, and `NavigatorTypes` proves that of
`Navigator10Web`.  The proofs of the other modules carry the parts of it that their
steps need in conjuncts of their own.  No run repeats a type invariant: the runs ask for
the properties that could fail for a reason of the code.

Fairness.  In `FifoGate` a continuation whose promise is resolved is resumed by
the runtime, and an operation settles.  In `ModbusClient` the turn goes on:
connects, requests and sleeps carry timeouts; that every `close()` settles is an
assumption on modbus-serial, whose close callback the adapter awaits without a
timeout.  In `Navigator10Web` the turn goes on for the same reason: each await
has a timeout.  In `Navigator20Web` events wait for the continuations that are
ready, so a read's step may be disabled again and again: the fairness is strong,
which a runtime that serves its events in order gives.

## Finding and observations

*A read that returns nothing* (`navigator20_web_empty`).  `readData` logs in if it
has no paths and selects its paths after that.  A `close()` queued behind that
login clears them first; the read then selects none, skips its loop, and returns
and caches data without values as a success, where a login without a usable path
is an error (`web/navigator20.ts:148`).  `DataUnlessClosed` shows that this is the
only way.  The property of the run, `NeverCachesNothing`, is about the step that
returns and caches.

Three more things a reader of the documentation may not expect, shown by the
models: a `forceReconnect` whose close is rejected leaves the client suspect, and
so does every later one (`OnlyConnectGetsUnstuck`); and the circuit scan probes
all seven circuits, where the summary of its plan says that both scans stop after
two missing entries (`Detection!ProbeMode`).  A post of the Navigator 2.0 form that is
answered with 401 or 403, the plainest refusal of a PIN, does not set
`#loginFormReturned`: the failed login is then reported as one without usable
endpoints (`WebPages!PostAnswer`).  `LoginFailureNamesItsCause` is about the pages that
the code counts and says that these statuses are not among them.

Four more bound what a property can say.

- The throttle of EEPROM writes is kept by the name of a register
  (`client/write-safety.ts:286`, 301).  `hc_g_heating_curve` (words 1441 and 1442) and
  `hc_a_heating_limit` (1442) share a word, which may so be written twice within
  one interval; `OverlapsAreDocumentedAndSensitive` says of such pairs only that each
  has a throttle.
- One lost probe next to a gap hides whatever is behind it: of zone modules 1, 3 and 4,
  losing the answer of 3 leaves 1.  `HiddenZonesWereLost` allows no more than this.
- A failed restore in `check-parity` loses the previous bytes of the artifacts that are
  not restored yet (`scripts/check-parity.mjs:693`, 708, 712-714).
- A float that is read is rounded to two digits whatever its range: 0.125 is read back
  as 0.12 (`codec.ts:233-239`), and `ReadsBackAsRequested` allows half a hundredth for it.

## Proofs

Every theorem holds for all values of the constants that the named assumptions
allow: any number of callers, sockets, registers, circuits, artifacts, retries and
ticks.  The bounds of the runs (`MaxTime`, `MaxLost`, `MaxBatch`, `MaxCommands`, ...) are
constants too and may be as large as one likes.  Each safety invariant and each
action property of a passing run is stated by a theorem.

*Gate* (`GateAndAdapterProofs`).  An operation runs only after every earlier call settled,
and every step of the chain is a step of `ExclusiveQueue` or a stutter.  The
invariant says that promise *n* is resolved exactly when call *n* has settled, that the
calls made are 1..tail, and that call *n* awaits promise *n-1*; by induction along the
chain (carried by the invariant itself) started calls form a prefix.

*Adapter* (`GateAndAdapterProofs`).  A request runs under its own timeout or the
configured one, a close that has resolved leaves no open socket, and a call is told
what happened to its request.  `AdapterInv` adds that at most one call is under way
(`OneAtATime`), that the timeout is the configured one whenever none is
(`TimeoutIsNormal`), and that a connect never meets a close that has resolved
(`ConnectsAfresh`): without the first, a request could inherit the timeout another one is
still to restore.

*Client* (`ModbusClientProofs`).  Typing, `EepromSpacing`, `FreshLink`,
`OnlyAcknowledgedWritesCount` (an entry changes only in the step in which the write to its
register returns, or by a reset), `OnlyConnectGetsUnstuck`.  The inductive invariant
describes a turn at each stage (`TurnTaken`, `TurnShape`), says that a tainted transport
is suspect (`TaintedIsSuspect`) and that a stage which may send has a transport that is
not tainted (`TrustedIsFresh`): the first two properties are about an operation in its
middle and are not inductive without these.  The two action properties are one case per
action; the second also needs the shape of the link (`LinkShape`): a socket is being
opened exactly while a connect is awaited, and no request is tried on a transport that
the client is stuck on.

*Codec and write safety* (`WriteSafetyProofs`).  `RoundTrip`: decoding the words of an
accepted value gives that value up to half a multiplier, half the gap between two floats
and half a hundredth (flags: cut to eight bits); a value that the register can hold
comes back as it is, and none gets past a limit that it can hold.  It holds for every
datatype, every positive multiplier and every format of floats that `FloatAssumption`
allows.  The lemmas are about division, masking and rounding half to even
(`Rounding`, `RoundingKeepsOrder`), about floats (`PatternCounts`: the pattern counts the
nearest float, `MagnitudeError`, `MagnitudeKeepsOrder`) and one per datatype.  The
invariant is that of types, that a plan and the last acknowledged one hold the words that
the codec makes of their values (`PlansArePlanned`), and that the checks still hold;
`ReadsBackAsRequested` and `OnlyAllowedValuesWritten` follow from it with `RoundTrip`.
`SensitiveWritesAreSpaced` and `HeartbeatsExpire` are action properties that follow from
the types of clock and deadlines and the throttle's guard.

*Navigator 10* (`Navigator10WebProofs`).  Requests go out on authorized sockets only,
an answer is that of the request it is taken for, other sockets are open only
because their connect timed out, and a rejected PIN ends the call.  The invariant's
heart is `OneExchange`: unless a request gave up on the socket, it carries the one
exchange under way, in the device or in the inbox, and nothing between requests.
Pairing is not inductive without it, as an answer need not say what it answers.
`KeptIsAuthorized` says that a socket kept between calls has accepted the PIN.

*Navigator 2.0* (`Navigator20WebProofs`).  A failed login blames the PIN exactly if the
last of its own pages that told of the PIN was the form or the text of a refusal.  That is
`FlagIsOwn` (the flag in use is that of the running login) together with
`LoginsAreHonest`: any sequence of posts, of any length, leaves in the flag what the last
such page was, by induction on the number of posts.  A read that
returns has read a path unless a close came in between: the invariant says what work
a read has in hand wherever it waits (`ReadsHaveWork`).

*Detection* (`DetectionProofs`).  Without a loss, what a detection concludes is the device
as far as its scans reach; the two slots behind the last zone module that is concluded
hold no more zone modules than probes were lost, for devices with and without gaps; the
model is one
that the device gives evidence of.  The invariant relates what has been heard to what
is there, per kind of probe: `ZonesHeard` says that no two zones in a row are missing
before the last one heard, `ZonesMissed` charges each zone that is there and was not
counted to a lost probe.

*Register map* (`DetectionProofs`).  The catalog of all registers, of every circuit
and zone module, has no two of one name (`NamesAreUnique`), so that the successive
merges of `buildRegisterMap`, where a later register replaces one of its name, are plain
unions (`MapIsUnion`), and a lookup in catalog or map, in either order, finds the
same register.  Registers of different tables or different zone modules share no word
(`Apart`, `ZonesDoNotOverlap`), and within a table only where documented; with that,
`OverlapsAreTheDocumentedOnes` counts words that are begun at against registers.
`ProbesAreOfTheMap` finds each probe in the table it reads from.  The only invariant
of the state is that the map is one that `BuildRegisterMap` made (`Installed`).

*Batches* (`ReadBatchProofs`).  `AnyGrouping`: for any list of registers, the groups hold
each register once, each can be read with one request, and no two neighbours could
have been one.  The loop is the subject of an induction over the number of registers
seen (`Grouped` is its invariant), the sort of a counting argument (ranks are a
permutation).  For the batches, `ListsInv` says which registers are in which list,
`AccountedInv` that a register that was to be read has a result, an omission or is
still pending, `QuarantineInv` that no group holds one that was in quarantine.  The books
(`FailuresInv`) are independent of them: every change of one of them is a reset, a success
or an answer to a request for that register alone.

*Timing* (`ReadBatchProofs`).  Delays are the unbounded ones cut at the maximum: bounding
each delay is the same as bounding the unbounded one (`BoundingTwice`).  A poll is
allowed exactly if no interval runs: the last mark decides, since marks come with the
clock.  That delays grow to the maximum is proved only and no run repeats it.

*Parity tooling* (`ParityToolingProofs`).  All or nothing, previous bytes kept until
replaced, nothing left over without a fault, for any list of artifacts, any failures and
kills; `check-parity` may lose the previous bytes of the artifacts in `unrestored` and
of no others (`GivenUp` says what is left of those, `Untouched` that all others are as
they were).  `Shape` says, for each place in a command, which artifacts have their new
bytes, which their previous ones, and where the bytes of the one in between are
(`Early`, `Mid`, `Hole`, `Back`, `Lifted`, `Ended`); `Prefix` that those replaced are an
initial segment of the list.  None of the three properties is inductive without it, as
each is about a command that has ended.  `ReleasesAreCovered` adds that nothing is
rendered, generated or compared that was not validated (`Validates`).
`PartialClassesArePartitioned` is about the validator alone: that the conditions it
checks (sizes, membership and relative order of the implemented and the omitted members)
make them a partition of the public members, each in its order.  It counts: the place of
a member among those kept is its place in the list that is compared.

The assumptions, all of them named in their modules and evaluated by TLC on the
instances: identities that stand for nobody are not those of anybody
(`NobodyAssumption`, `CallersAssumption`, `PinAssumption`, `NoneAssumption`), limits
that the constructors refuse otherwise (`OptionsAssumption`, `TimeAssumption`,
`MaxRetriesAssumption`, `ThresholdAssumption`, ...), the shape of definitions
(`RegistersAssumption`, `DefinitionsAssumption`, `ValuesAssumption`), what a detection
may report (`InfosAssumption`), the format of floats (`FloatAssumption`) and how many
rooms fit into a zone module (`RoomsAssumption`), that artifacts are distinct
(`ToolingAssumption`) and that what the authorities call a list is one
(`WorkTreesAssumption`, `MappingAssumption`).

Left to TLC: liveness under fairness (`EveryCallReturns` of three modules, and the
fairness that `ImplementsQueue` maps), which the prover has no support for, and the
behaviour that the finding exhibits.  Inductions over the length of a sequence or
the number of posts are done with an invariant over numbers and the least
counterexample, once per recursive function; what the library functions of sequences
compute is used as far as their definitions unfold.

## Not modelled

- The values parsed from the web clients' tables and JSON, and their cached
  copies: no decision of the clients depends on them, and their unit tests reach
  every line.
- Error contexts, diagnostics, snapshots and log hooks; messages and redaction.
- Option validation, freezing and serialisation of the registry; the error of a
  64-bit double against the decimal it stands for.
- The rendering of documents, the upstream generators and the command lines of
  git and Python: what they may leave behind, or how they fail, is in
  `ParityTooling`, their text is not.
- The validators of recorded fixtures (`contracts/*`, `internal/*`) and the check
  of the package's files: long lists of conditions on single fields without a
  state, of which a model could only be a second copy.

## Plan

1. Proofs: the safety properties of the runs are proved.  What is left are
   refinements between components, for every value of their constants:
   `ModbusClient`'s queue of callers over the chain of `FifoGate`, its link over
   `TransportAdapter`, and `ReadBatch` as a refinement of the number of requests that
   `ModbusClient` takes a batch for.
2. Compositions: the link refinement as a run, with the adapter's close and its
   timeouts in the place of the link's actions.
3. Error contexts and diagnostics of the client; options of the registry.
