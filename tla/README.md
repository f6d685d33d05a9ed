# Verification of the Rust language container

The repository is an Exasol *script language container*: the database starts the client
(`exaudfclient`), which loads a UDF artifact (a `cdylib`), connects a ZMQ REQ socket to the
database and speaks the protocol of `docs/protocol.md` — handshake, input rows, output rows,
single calls, cleanup, the final message. This directory holds TLA+ modules translated from
`src/crates/`, TLC configurations that check them on small instances, and theorems proved with
TLAPS for every value of the constants.

Contents: [components](#components) · [plan](#plan) · [modules and code](#modules-and-code) ·
[runs](#runs) · [bounds](#bounds) · [fairness](#fairness) · [proofs](#proofs) ·
[disagreements](#disagreements-between-code-and-documents) ·
[abstractions and what is left out](#abstractions-and-what-is-left-out)

## Components

The client is one thread. What makes it hard is not parallelism but *order*: the database may
answer a request with a ping, a `MT_TRY_AGAIN`, a `MT_CLEANUP` or a `MT_CLOSE` where data is
expected, late or not at all, and the UDF's own calls (`next`, `emit`, `connection`) make
exchanges with the database in the middle of `run()`, while the code that drives `run()` only
learns of their outcome after it returns.

| Component | State | Operations | Hard part |
|---|---|---|---|
| Protocol state machine (`exa-zmq-protocol/src/loop_.rs`) | `Phase`, connection id, pending `MT_INFO`, single-call flag | `step`, one builder per request | terminal messages in any order; metadata once; run actions shut out after the end |
| Wire exchange (`exa-udf-runtime/src/wire.rs`) | none of its own: socket and machine | `request`: send, receive, step, echo pings | an error in the middle of an exchange; whose answer an answer is |
| ZMQ transport (`exa-zmq-protocol/src/transport.rs`) | the REQ socket, the clock of a call | `connect`, `send`, `recv`, `retry_transient` | slow peer vs. dead peer; an answer after the call gave up |
| Streaming dispatch (`dispatch.rs`, `HostContextBridge` in `rowset.rs`) | batch and cursor, emit buffer, noted exit, recorded error | `run_udf`, `run_group`, `batch_fetcher`, `drive_group_rows`, `next`, `emit`, `set_return`, `connection`, `tail_flush` | zero-row batches, batch seams, flush in the middle of `run()`, an end of session noticed too late |
| Single-call dispatch (`single_call.rs`) | the hook under way and its reply | `run_single_call`, `invoke_hook` | every call acknowledged in kind, also when the hook is missing |
| Session runtime (`lib.rs`, `cleanup.rs`, `error.rs`) | the outcome of dispatch, then of the hook | `Runtime::run`, `handshake`, `run_hook`, `send_finished`, error close | exactly one hook and one final message on every path |
| Emit buffer (`EmitBuffer` in `rowset.rs`) | one table of type blocks, a byte estimate | `push_costed`, `push_batch`, `flush`, `clear` | rows and Arrow batches mixed; a failing flush in the middle of a batch |
| Type blocks, Arrow packing, dates (`rowset.rs`, `emit_pack.rs`, `frame.rs`) | the year cache of one call | `push_cell`, `pack`, `decode`, `civil_from_days` | columns that share a block, NULLs without a slot, year boundaries |
| Loader and artifact checks (`loader.rs`, `schema_check.rs`, `artifact.rs`; the expansion of `exasol-udf-macros`) | the loaded library and its vtable, the C string of a call | `open`, `validate_output_shape`, `validate_schema`, `run`, `cleanup`, single-call hooks | a foreign layout, two type tables in two crates, who frees what, whose text an error is |
| Input rows (`InputRowSet` in `rowset.rs`, the getters of `exasol-udf-sdk/src/context.rs`) | the decoded cells, their numbers, the cursor | `reload`, `advance`, `next`, `get_i64` .. `get_timestamp` | a batch that does not decode, seams and zero-row batches, columns that share a block |
| Connect-back (`connect_back.rs`) | a connection and its prepared statements over a one-thread runtime | `query_for_each`, `execute`, `execute_batch`, transactions, drop | futures driven inside each other, errors in the middle of a result or a batch |
| Artifact check of the build tool (`cargo-exasol-udf/src/validate.rs`) | none | `validate` | it repeats by hand what the loader checks |
| Mock database (`exa-mock-db`) | the call of the harness, the frames of a cycle, the collected rows | `handshake`, `run_cycle`, `finish`, `encode` | a second implementation of the protocol's other end; rows cut into cycles and frames |
| Database engine | groups, rows, the end it announced | answers requests | not in the repository: the environment |
| Specification JSON, launcher, the rest of the cargo tool, benches, containers | | | see [what is left out](#abstractions-and-what-is-left-out) |

How they interact: `Runtime::run` owns everything and calls downwards. The dispatchers hand the
bridge closures (`emit_flusher`, `batch_fetcher`, `conn_requester`) that share the socket and the
protocol machine through a `RefCell`; each of them is one call of `wire::request`. The UDF runs
between two of the dispatcher's exchanges and starts exchanges of its own through those closures.
The only channel is the REQ socket, and lockstep is what keeps its two ends together.

What makes each of them correct, in one line: the *machine* admits run actions only between
handshake and the first terminal message; the *transport* makes one exchange at a time, waits for
slow answers and never confuses two; the *dispatcher* shows every input row once and in order and
delivers every accepted output row under its input row's number; a *single call* is settled in kind;
the *session* runs the hook exactly once after dispatch and tells the database the truth at the end;
the *emit buffer* is flushed in time and what it sends reads back as what was emitted; the *input* presents each row with its own values and number; the *loader*
reads no layout it does not know and calls only what was declared; a *call across the ABI* gives each
string one owner and each error its author; *connect-back* drives one future at a time; *validate* accepts what the loader takes; the
*mock* answers as a database may and loses no row.

## Plan

Ordered by importance; (done) marks what is here.

1. (done) `ProtocolStep`, `Protocol`: the machine as operators, then alone against every response.
2. (done) `Wire`, `Database`, `Runtime`, `Dispatch`, `SingleCall`, `Session`: the composed session,
   with `SessionContract` as the abstract specification of `Runtime::run`.
3. (done) `Transport` under `LockStep`, the abstract socket whose steps the session builds on.
4. (done) `Calendar`, `TypeBlocks`, `EmitBuffer` under `RowStream`: what the rows become.
5. (done) `Artifact`, `ConnectBack` and `UdfBoundary`, which composes them: `open`'s order of checks,
   the shims and their host side, connect-back inside a call.
6. (done) NUMERIC and TIMESTAMP texts in `TypeBlocks`; `InputRows` under `RowCursor`, the read
   direction with batches that do not decode.
7. (done) `Validate`, the tool's check of an object against the loader's.
8. (done) `MockDb`: the mock database composed with the client, under `Session`.
9. (done) Theorems about the stack of connect-back operations, the boundary's types and the row
   numbers of a scalar run.
10. (done) Theorems: the rows of a session under what a conforming database answers; the layout of
    type blocks, and on it the refinements of `RowStream` and `RowCursor`; the calendar for every day.
11. (done) Theorems about `MockDb`: for every number of rows, cycles and frames it is a database of
    `Session`, and what comes back to its sink is what was encoded.
12. The column values of the mock's row source, once they matter to a property.

## Modules and code

```
 ProtocolStep ── Wire ── Runtime ──┬── Dispatch ───┐
      │                            ├── SingleCall ─┼── Session ── MCSession
      └── Protocol ── MCProtocol   └── Database ───┘      ├── MockDb ── MCMock
 LockStep <····· implemented by Transport                  └···> SessionContract
 Calendar ── TypeBlocks ─┬─ EmitBuffer ── MCEmit ····> RowStream
                         └─ InputRows ─── MCInput ···> RowCursor
 Validate ── Artifact ────┬── UdfBoundary ── MCBoundary
              ConnectBack ─┘
```

* **ProtocolStep** translates `Protocol::step`: `Accepts` is the match's admitted
  (phase, message) pairs with the payload conditions, `Event` the `HostAction`/`HostEvent`
  returned ("Error" for `Err`), `PhaseAfter` and `After` the assignments. A response is its type,
  its connection id and the kind of its payload.
* **Protocol** is the machine as a state of its own, fed any response. `infos`, `metas` and `ended`
  are history variables.
* **Wire** is `wire::request`. `wire` is the socket: idle, asked, answered, or stuck after a
  receive gave up. Its socket steps are those of `LockStep`, by construction: that the code's socket
  makes no others is what `Transport` shows. A dispatcher is written as a handler of `Outcome(e)`,
  where `e` is what `request` returned.
* **Runtime** holds the program counter of the client thread, the registration from `MT_META` and
  the errors an error close would name. `EndDispatch` is a dispatcher returning to `Runtime::run`.
* **Dispatch** is `run_udf` and everything below it. A location is named for the function that
  waits there (`FirstBatch`, `Next`, `Flush`, `Import`, `Advance`, `TailFlush`, `GroupDone`), and
  `InUdf` is the UDF inside `run()`, which may make any legal sequence of context calls. The actions
  named `...Reply` are what the code does with the outcome, in the code's order: reload, cursor,
  recorded error, noted exit.
* **SingleCall** is `run_single_call` with `invoke_hook`, the hook being the environment.
* **Database** is the engine: which answers a request may get is the constant `MayAnswer`, so one
  module serves a conforming database and an arbitrary one. Two more constants widen it:
  without `RefusesAfterEnd` it goes on answering anything after its terminal message, where
  `docs/protocol.md:92` has it accept only `MT_FINISHED` or `MT_CLOSE`; with `StallsRepeat` it may
  stall the client for ever. `said` is its first terminal message, `endedAt` the request that one answered, `ended` all of them.
* **Session** composes them: handshake, `Prepare` (every check before dispatch), dispatch, hook,
  final message. `hooks` counts hook invocations, `finals` the final messages sent, and `failed`
  remembers that a function of the artifact returned an error.
* **SessionContract** says what `Runtime::run` promises with four variables and five actions:
  when the hook runs, how the session ends, and that the first thing that went wrong stays the one
  reported and decides that end.
* **LockStep** says what the transport promises with one variable. `Transport` implements it under
  `sock <- Exchange`; `Wire` takes its steps for granted, so what the session believes of a socket
  is what the polling loops are shown to keep.
* **Transport** is `send`/`recv` with `retry_transient`: `elapsed` counts poll intervals,
  `MaySend` is the REQ socket's EFSM rule, `PeerAnswers` may come at any time or never.
* **Calendar** is `civil_from_days` and `YearCache` next to the calendar `chrono` follows.
* **MockDb** is `exa-mock-db` in the place of `Database`: `phase` is the request `Session` of the
  mock waits for, and each of its steps is an answer of `Database`'s kind chosen by the mock's own
  control. `Encode` cuts a cycle's rows into frames; the harness may run more `Cycles` than `Encoded`
  ones, and serves those no frames. `observed` is what the collector of the harness
  gets. The mock numbers rows through all cycles from 0, and a group of `Session` numbers its rows
  from 1; `GroupNumbers` and `OnTheWire` translate. 0, which is "no row" to the client and in
  `Session`, is the first row on the mock's wire (`payload.rs:318`); the two never meet, because the
  mock serves no frame without rows, the only source of a 0 that means none. `NextCall` is the loop
  of `tests/fixtures.rs`. The mock answers at once, so the client's receive gives up only when the mock has gone (`MockError`).
* **TypeBlocks** is the layout: `PushRow` (row path), `Pack` (Arrow path, block by block over all
  rows, dates through the year cache) and `Decode` (`InputRowSet::decode`, the only decoder in the
  repository, here standing for the database reading the table).
* **EmitBuffer** is `push_output_row`, `push_batch` with its fast and slow path, `flush`, `clear`
  and `tail_flush`.
* **RowStream** is what a group's output promises: rows queue in order, go out whole and in order,
  only a failed send loses any, the ones it was sending, and none is queued when the group is over.
* **InputRows** is one group's input. `Loaded` and `Refused` are the two outcomes of `reload`, which
  takes the old cells before it decodes; `Open`, `Advance` and `Refill` are
  `first_nonempty_input`, `advance_row`/`next` and `refill`; `Get` is the getter of the SDK on the
  current row. `Session` has the same cursor without the cells.
* **RowCursor** is what a group's input promises: rows arrive, are presented one at a time in order,
  and the end is told behind the last of them.
* **Validate** is `validate` as a predicate of an object: its entries' ABI and SDK fingerprint, its
  glibc references against the committed floor, its libraries against the container's surface.
* **Artifact** is the function as annotated (`source`), what the macro compiles it into (`vtable`,
  `SchemaJson`, `OutputShape`, `UdfName`), and the checks in the order `LoadedUdf::open` and
  `Runtime::run` make them, one action each; `read` is the history of vtable fields looked at.
* **ConnectBack** keeps the operations under way on a stack, because `query_for_each` calls back into
  the UDF, which may use other connections. A call in a `Driving` phase is inside `block_on`. A panic
  of the driver and an error are the same outcome where `catch_unwind` makes them so; the destructor
  has none, and `aborted` is what a panic there does.
* **UdfBoundary** is one call after the other through a vtable slot: `CallSlot`, the UDF at work,
  `UdfEnds` (also by a panic out of a callback), `DropsLocals`, `ShimReturns` with the code and the
  string the expansion produces, `HostTakes` with what `loader.rs` makes of them. `live` counts
  strings allocated and not freed.

The `map` in `PROJECT.json` names the lines each definition stands for.

## Runs

| Run | Configuration | Question |
|---|---|---|
| `protocol` | `MCProtocol.cfg` | The machine against every response in every order: metadata at most once and from an `MT_INFO`; no run action after a terminal message; single-call traffic only where announced. |
| `session` | `Session.cfg` | Scalar, set and single-call scripts with a database that pings, stalls, stops answering, may end the session in answer to any request of a group (`MT_EMIT` and `MT_IMPORT` included), and may acknowledge a call with the wrong echo: rows in and out over batch seams, zero-row batches and refills (`EveryRowOnce`, `OneValuePerRow`, `NoRowLost`, `NumberOfCurrentRow`), what a group has delivered when the session goes on from it (`GroupOutputDelivered`), the buffer, call settlement, what may still be sent after a terminal message the framework was given (`EndStopsTheFramework`) and what the database is told last (`FinalMessage`). |
| `session_any_reply` | `SessionAnyReply.cfg` | Any reply to any request, also after a terminal message (an `MT_CLOSE` to `MT_EMIT`, which the client drops, and an `MT_CLEANUP` behind it), pings and stalls without end, lost replies, failed sends: types; success claimed only to a database that sent `MT_CLEANUP`, behind the hook and with no failed function (`FinishedMeansClean`); the contract, with the first error kept; and `SessionEnds`, unless the session is stalled for ever. |
| `transport` | `Transport.cfg` | Slow, late and silent peers: own answer, slow answers waited for, every call returns, `LockStep` implemented. |
| `emit_buffer` | `EmitBuffer.cfg` | Rows and batches mixed into one buffer, wrong rows, NULLs, dates, timestamps and decimals of either sign, failing flushes: flushed in time, estimate in step, rows read back as emitted and none left behind (`RowStream`). `MCEmit` also evaluates `CalendarChecked`: `civil_from_days` against the calendar on every day of a 400-year era and more from before the year 0, and of 1965 to 2035. |
| `input_rows` | `Input.cfg` | One group's input for both input axes over full, zero-row, unnumbered and undecodable batches, ends and failed exchanges: no getter mixes rows (`ReadsOwnRow`), and rows arrive once, in order, with their values (`RowCursor`). |
| `mock` | `Mock.cfg` | The client against the mock database, deadlock checked: the mock is a database of `Session` (`ImplementsSession`), and the sink gets every row under its number (`RowsCollected`), a cycle without frames behind three with rows included. |
| `boundary` | `Boundary.cfg` | Artifacts that fit and that fail each check, every way a slot can end, connect-back nested in callbacks: `LayoutKnown`, `RunsAsDeclared`, `ValidatedLoads`, `StringsTaken`, `FinalWord`, `OneBlockOn`, `RowsUntilError`, `StatementsClosed`. |
| `set_cleanup` | `SetCleanup.cfg` | Violation: a set UDF talks on after a mid-group `MT_CLEANUP`. |
| `emit_closed` | `EmitClosed.cfg` | Violation: `MT_CLOSE` in answer to `MT_EMIT` taken for an acknowledgement. |
| `set_row_number` | `SetRowNumber.cfg` | Violation: row number 0 after a trailing zero-row batch. |
| `emit_estimate` | `EmitEstimate.cfg` | Violation: the byte estimate below the size of the frame. |

Every property of a passing run has a mutant in `PROJECT.json`: a definition changed as a plausible
bug would change it (a run error that hides behind a noted exit, a hook error that hides the first one, a dropped tail flush, a late threshold, a cursor that stops short, a receive
that leaves the socket ready, a year cache off by one, a block packed by column, a flush that keeps
its rows, an acknowledgement of any kind). The mutated form stands above the definition it replaces,
marked "Mutant"; each makes TLC find its property violated.

## Bounds

* `MaxGroups` 2, `MaxRows` 3, `MaxBatch` 2: two batches of a group with rows, a seam between them,
  zero-row batches before, between and after, and a second group that starts from what the first
  left (buffer, recorded error, cursor).
* `MaxStalls` 1 to 2: pings and `MT_TRY_AGAIN`s per session; each is handled without memory, so a
  second adds nothing but repetition. In `session_any_reply` there is no such bound: `StallsRepeat`
  makes `stalls` a counter modulo `MaxStalls` + 1.
* `MaxCalls` 2 or 3: context calls of the UDF in one group. Three is enough for emit, flush, emit,
  and for `next` over the seam with an emit behind it.
* `FlushLimit` 3 with row costs 1 and 2: a row below, at and above the limit, and a limit reached by
  the second or third row.
* `session_any_reply` uses one group and one row: with arbitrary answers, before and after the end,
  the branching is in the answers, and rows over batch seams are the subject of `session`. `Implemented` = `{"adapter"}` leaves one hook present and three missing.
* `Transport`: `MaxWait` 4 intervals of 1 or 2, four sends: a call that spans the limit exactly, one
  that overshoots it, and calls after a give-up. The code's value is 120 s at a 1 s poll.
* `EmitBuffer`: seven columns (two INT32, four that share the string block, one unsupported), eight
  rows, batches of one or two of four rows in any order and four longer ones, a limit of 130 bytes
  reached by the second, third or fourth row, three calls. `IntMax` 7 keeps INT32's range check and
  wrap-around with small numbers. `NullSpans` are the bytes an Arrow array may hold under a NULL.
* `input_rows`: five columns, two pairs of which share a block; seven batches of zero to three rows,
  with and without numbers, two with a text that is not UTF-8; four batches in a group, so that a
  refused one can stand between two that load. `Int64Max` 7.
* `mock`: five rows in three encoded cycles of one, two and two rows — a cycle in one frame that ends
  below the limit, one in two frames, one whose frame crosses the limit with the last row — and a
  fourth cycle of the harness without frames. Row costs and flush limit as in `session`.
* `protocol`: two connection ids, two `MT_INFO`s.
* `boundary`: thirteen annotated functions (one does not compile) and five registrations, so that each
  check of `validate` and of the loader has an artifact it refuses and one it admits, and objects
  with two entries of different SDKs; two connections and four operations per call,
  enough to query one connection and use or drop the other in the callback; results without rows, of
  two batches, and with a batch that does not convert between two that do. The number of calls is not
  bounded.

## Fairness

`FairSpec` of `Session` is weak fairness of `ClientStep` only: the client is a thread the operating
system schedules. Nothing is assumed of the database. `SessionEnds` holds because a receive gives up
by itself (`ReceiveMayTimeOut`, `MAX_TOTAL_WAIT`). A database that answers every request with a
ping, or every `MT_NEXT` with `MT_TRY_AGAIN`, for ever does keep the client for ever, and the code
has no limit against it. The property therefore says that the session ends *or* the database stalls
it again and again, and the run has a database that can: what is shown is that nothing else keeps
the client from its end. In the same way a UDF that never returns
keeps it for ever; `MaxCalls` stands for "the UDF returns".

`FairSpec` of `Transport` is weak fairness of `TrySend` and `TryRecv`: the loop polls again. The
peer may stay silent for ever. That a call returns then follows from the clock alone.

## Proofs

A component's theorems are in a module of their own that extends the component's; `TypeBlocksProofs`
is the library under `EmitBufferProofs` and `InputProofs`. `SessionProofs` ends with the theorems about
`MockDb`, which extends `Session`.

**Assumptions** are the `ASSUME`s of the modules. Most say that a constant has its type or that a
limit is positive, and nothing is assumed of sizes. Those that say more:

* `EmitAssumption`: rows are finite tuples of SDK values, and a batch is a nonempty sequence of rows
  that fit its columns. `push_batch` returns before it does anything for a batch without rows, and
  where `build_accessors` refuses one nothing has changed yet. That costs are positive is proved (`CostsPositive`),
  as every row pays for its number. `DispatchAssumption` takes it over for the session, which has
  costs in the place of rows.
* `InputAssumption`: in a batch of the database every column holds NULL or a value of its type, and
  there are as many row numbers as rows or none, which are the two cases `decode` knows.
* `DatabaseAssumption` gives `MayAnswer` and `Bodies` their types and leaves both arbitrary.
* `SourcesAssumption` and `FloorAssumption`: below, with the theorems that use them.

**Premises.** Where a property of the session is not true under every database, its theorem says of
which: the premise is a formula about `MayAnswer` and `Bodies`, defined in `Session` next to the line
of `docs/protocol.md` it renders, and the weakest the argument works with. `RowsInKind`: input rows
answer `MT_NEXT` only, `MT_RUN` is answered by what opens or ends a group, and batches decode.
`OutputInKind`: `MT_EMIT` is answered by an acknowledgement, a ping or the end. `FinishedInKind`: the answer to `MT_FINISHED` is one the machine takes in any phase.
`RefusesAfterEnd`: after its terminal message the database answers everything but `MT_FINISHED`
with `MT_CLOSE`, as `docs/protocol.md:92` has it. Without that an `MT_CLOSE` dropped by the client
can be followed by rows or by `MT_CLEANUP`, and the properties that name it are about a database
that means what it says.
`~SendMayFail`: a failed send leaves the socket unusable (see [abstractions](#abstractions-and-what-is-left-out)).
`MCSession` has TLC evaluate `RunsFollowProtocol`, that the tables of the runs satisfy those of them
that speak of tables; the cfg of a run sets `RefusesAfterEnd` and `SendMayFail`. So what is proved is about the sessions that are run and the premises are not empty. The theorems about
`session_any_reply`, `SessionTypeCorrect`, `FinishedOnlyAfterCleanup` and
`SessionImplementsContract`, have none. The mock's `AdmitsMock` is of the same kind and checked
by `RunAdmitsMock` in `MCMock`.

* **`ProtocolStepProofs`**: facts about the operators — where each event can come from, that terminal
  phases are absorbing, that `Handshake` is never entered again.
* **`ProtocolProofs`**: `TypeCorrect`; `TerminalIsFinal` from `TerminalPhase` (once a terminal message
  was accepted the phase is `Cleanup` or `Done`); `MetaOnce` from `MetaInv`, which adds that no
  metadata has been delivered in `Handshake` and that a pending info was received;
  `SingleCallsAnnounced`, a property of every step that needs from the past only that a UDF runs
  behind its metadata.
* **`SessionProofs`**, for every database, UDF, batch and socket the constants allow, in the order of
  the module:
  * `SessionImplementsContract`. `ControlInv` ties `pc` to `hooks`, `errors` and `finals`, and says that
    no error is carried while the session is being set up or dispatched; it is
    needed because the mapping reads the stage off `pc` and `hooks` and the verdict off `errors` and
    `finals`, and a step such as `SendClose` maps to `Refuse` or to `Finish` depending on whether the
    hook has run. `CauseOf`: the cause is named exactly when there is an error, and it is the first.
  * `SessionTypeCorrect` (`TypeInv`): the types alone are not inductive: `RunOnce` appends
    `rows[cur]`, which is a row number only if the cursor is on a row there (`CursorInv`), an answer
    needs the request it answers (`ExchangeInv`), and `CallReply` needs a reply (`ReplyInv`).
  * `BufferStaysBounded` (`BufferInv`, positive costs), `RecordedStaysFresh`, `ScalarNumbersItsRow`
    (`RunInv`: while a scalar run is under way the row it was given is the cursor's, and a row that
    fills the buffer carries its number), `FinishedOnlyAfterCleanup` (`CleanInv`: a dispatcher that
    ended without an error did so on an `MT_CLEANUP` the database sent, which is where the noted exit
    matters, and where a function has failed there is an error to report).
  * What is under way, `UnderWay`: an exchange is the one of the location the client stands at
    (`RequestInv`), and what has arrived is an answer the database may give to it (`AnswerInv`). All
    that follows rests on it, since a handler only sees an event.
  * `ClosedNeverFinished`, if `RefusesAfterEnd`: `ClosedIsNotFinished`, stated in this module, is for a
    database that means its `MT_CLOSE` what `FinishedMeansClean` is for any. `EndedInv`: one that
    closed first never sends `MT_CLEANUP`, and nothing but its refusals arrives until `MT_FINISHED`,
    which by `CleanInv` is not sent behind it.
  * `FrameworkStopsAtTheEnd` (`EndStopsTheFramework`), if `RefusesAfterEnd`. It is about an end the
    framework is given (`Noticed`): the answer to a flush or a lookup goes to the UDF's `emit` or
    `connection`, and `emit_closed` shows what becomes of an end there. `EndInv` says where the client
    can be once the database has ended the session: the message is about to be read, a group has
    noted it, or `Runtime::run` has it. `ModeInv` says which dispatcher can be running.
  * `EveryCallSettled`, if only `MT_RUN` is answered by `MT_CALL`. `CallInv` counts the calls opened
    against those settled at every location of the dispatcher.
  * `OneFinalMessage`, if `FinishedInKind` and `~SendMayFail` (`FinalInv`).
  * `RowsInOrderOnce` (`EveryRowOnce`), if `RefusesAfterEnd` and `RowsInKind`. `RowInv` adds to `UnderWay` that the machine
    stays in its run phase (`PhaseInv`), that a group opens at the start of its input (`OpenedInv`),
    that a batch which waits in the socket holds the next rows (`WaitingInv`), and `VisitInv`: the
    loaded batch is the end of the rows fetched, and how far a scalar group (`ScalarRows`) or a set
    group (`SetRows`) has come at each location. The property speaks of `visited` and `handed` only,
    and a row between the two, in the socket or in the batch, is in neither.
  * `OutputArrives` (`NoRowLost`), if `OutputInKind` and `~SendMayFail`. `OutInv`: delivered and
    unacknowledged rows are the accepted ones, except inside a flush, where the row that caused it is
    buffered and its `emit` has not returned. `GroupOutputArrives` (`GroupOutputDelivered`), with
    `RefusesAfterEnd` in addition, follows from `OutInvariant`: a group is left for the next one only
    where `MT_DONE` was acknowledged (`GroupLeft`), and a database that has ended, or a socket that a
    failed flush has left stuck, acknowledges nothing.
  * `OneValueEachRow` (`OneValuePerRow`) joins them: `AcceptInv` (between runs what was accepted is
    what was presented), `UsableInv` (a scalar group gets past its rows only on a usable socket) and
    `DoneInv`. It needs the premises of both and speaks of sessions not ended: an end the client drops
    with a flush's answer loses rows, and such a group never comes to the end of its `MT_DONE`.
  * `MockImplementsSession` (`ImplementsSession`) and `MockCollectsRows` (`RowsCollected`), for every
    input, number of cycles and frame limit. `AdmitsMock` is the premise: `Session`'s tables allow
    the nine answers of the mock, and a batch has room for its largest frame. The second theorem
    takes over the premises of `OneValueEachRow`; `RunAdmitsMock` and `RunsFollowProtocol` check all
    that speak of the tables for those of the runs, whose cfgs set `RefusesAfterEnd` and `~SendMayFail`. The argument in three steps:
    * The input. `CycleRows`: the cycles cut the rows into runs that follow each other. `EncodeCuts`:
      the frames of a cycle cut its rows, in order and none left out, whatever the rows weigh;
      `Offsets` is where each frame ends. It is by `Framed`, what `encode` holds after any number
      of rows: full frames, and the rows behind them.
    * The control. `HarnessInv` ties the harness to the database it stands for: inside a cycle the
      rows handed over are those before frame `pos`, so the next frame is the next batch
      (`FrameIsNext`), and nothing terminal has been said before the last two calls. Each action of
      the mock is then one of `Answers` (`Served`).
    * What comes back. `StreamInv`: no single call is ever made. `EmitsInv`: the frames kept are what
      the database has delivered. `ServedInv`: `MT_DONE` answers `MT_NEXT` only once all rows are
      out, so that a group that leaves its rows has had all of them, or is a set and has had one
      (`LeftInv`). `OnceInv`: a set RETURNS run accepts one value. With `NoRowLost` and
      `OneValuePerRow` of `Session`, `CycleOver` says what the harness finds at the client's
      `MT_DONE`; `SinkInv` and `CollectedInv` add it up over the cycles.
* **`TransportProofs`**: types, `TakesOwnAnswer`, `WaitsForSlowAnswer`, `TransportImplementsLockStep`.
  The invariant `SocketInv` says that a socket which may send holds nothing, and that until a
  receive gives up what it holds belongs to the last request; without it an answer that arrives
  after a give-up could be taken for a later one.
* **`TypeBlocksProofs`**: the layout for all columns, rows and tables of any length.
  * `RowReadsBack` and `RowsReadBack`: a row pushed by the row path, or a batch packed by the Arrow
    path, behind a table that is a `Layout` leaves a `Layout`, which decodes to the rows it decoded to
    before and then the new ones. `Layout` says that a block has an entry for each non-NULL cell of
    its columns; the decoder finds a cell by counting those before it, so the argument is that
    pushing a row leaves the count of every earlier cell alone and that its own are next.
  * `FitsPackAlike`: block by block over all rows gives what row by row gives.
  * `ReadBack` is what comes back of a value, by type: NUMERIC, DATE and TIMESTAMP go through a text
    and are parsed from it.
  * `CivilFromDaysFollowsCalendar` on every day, in both directions. The arithmetic is of eras of
    146097 days (`EraYear`, `MonthOfDay`); that no two dates have the same number (`DateOfDay`) turns
    one direction into the other. `CachedDate`: whatever year the cache holds, it gives the day's
    date and then holds its year.
  * Folds and `FlattenSeq` are recursive functions of the library, for which there is no induction
    theorem to use here. What they return is proved by the least place where it would be wrong.
* **`EmitBufferProofs`**, for every limit and all rows and batches.
  * `FlushesInTime` and `EstimateStaysInStep`: `BatchInv` and `CountInv` relate the table's rows to
    the queue minus the rows a large batch has accounted for but not packed yet; the plain property
    says nothing inside the loop and so is not inductive.
  * `EmittedRowsArrive`, the refinement of `RowStream`: `TableInv` says that the queue is what the
    table decodes to followed by those pending rows. `BufferTypes` follows from it.
* **`InputProofs`**, for all columns and batches.
  * `BatchesDecode`: `Cells` and `NumbersOf` of a batch are what is meant, by `RowsReadBack` from an
    empty table.
  * `GettersReadTheirRow` and `RowsReachTheUdf`, the refinement of `RowCursor`: `HoldsBatch` says that
    count, numbers and cells are of one batch, or that the cells are gone, after a refusal, and the
    cursor is behind the last row, so that a getter has nothing to mix; `InOrder` that the loaded
    batch ends the stream and that what has been presented is the stream up to the cursor.
* **`UdfBoundaryProofs`**: `LayoutIsKnown`, `StringsAreTaken`, `AuthorsWordIsFinal` and
  `OnlyDeclaredRuns`, for all sources, registrations and connections. `LayoutInv` and `DeclaredInv`
  say what the checks behind a stage have established; `StringInv` and `WordInv` say where the string
  of a call is and what the shim's code means. `TypeTables` proves that the macro's table and the
  host's agree on every Rust type, whatever the column type. `SourcesAssumption` says that a field
  list is a sequence of named types.
  * `ValidateForesees`: what `validate` accepts is refused by the loader only for libraries it warned
    of, and an object above the glibc floor never loads. `OrderIsTotal` is the one fact about data:
    the comparison of versions of any length, by the least place where they differ.
    `FloorAssumption` says that the committed floor is the container's glibc, that its glibc defines
    the symbols of its own and earlier versions, and that a finite set of versions has a largest.
  * `OneFutureAtATime` and `NoStatementForgotten`, however deep callbacks nest: `StackInv` says that
    every operation under way but the innermost is in its callback, and `BackInv` that a connection's
    statements are the lost ones and one more while the innermost operation holds it (`Holding`).
    `BeginKeeps`, `ReplaceKeeps`, `ReturnKeeps` are the three things a step does to the stack.
  * `RowsServedInOrder`: `ServedInv` says of every query on the stack that the rows served and the rows
    to come are those of its result, and that it has met no error yet.
  * `BoundaryTypes`: `live` and `statements` stay natural numbers only because nothing is released
    twice, so the types rest on `StringInv`, `WordInv` and `BackInv`.

**Only model-checked**: liveness (`SessionEnds`, `CallsReturn`), since the prover does not do liveness
under fairness, which is a matter of `ENABLED`, and that the runs with deadlock checked have none, for
the same reason. Every other property of a passing run is stated by a theorem. The properties of the
violation runs are refuted, not proved.

## Disagreements between code and documents

1. `set_cleanup`: `specs/runtime/dispatch-cleanup-hook/spec.md` says the hook runs after
   `MT_CLEANUP` "and before the runtime sends any further message", `docs/protocol.md` that the
   database then accepts only `MT_FINISHED` or `MT_CLOSE`. `batch_fetcher` notes the cleanup and
   returns "no more rows" to `next()`; the UDF's later `next`, `emit` or `connection` still sends.
   The framework's own requests are not affected: `EndStopsTheFramework`, which `session` checks,
   admits after a terminal message the framework was given only the requests of a set UDF inside its
   `run()`.
2. `emit_closed`: `docs/protocol.md` says the client answers a database's `MT_CLOSE` with
   `MT_CLOSE`. The event that answers `MT_EMIT` is dropped, so the rows count as emitted and the
   client goes on.
3. `set_row_number`: `specs/architecture.md` says every emitted row carries the number of its input
   row. `refill` loads a trailing zero-row batch before it learns that the input ended, and a set
   UDF that emits after `next()` returned false — an aggregate, typically — emits under 0.
   In a group numbered from 1, as the model's are, 0 names no row. The code makes no such demand on
   the numbers: with a database that counts from 0, as the mock does, the output would name the
   first row instead of none, which is wrong as well.
4. `emit_estimate`: `specs/_decision/029-fix-emit-row-number.md` calls the estimate "an upper bound
   on the frame". It counts 4 bytes for an INT32; protobuf writes 10 for a negative one.

Without a run, because they need no more than a reading of the code:

* the comment of `InputRowSet::from_proto` speaks of one slot per row "including NULL cells", which
  is the layout the code had before; `push_costed`, `pack` and `decode` agree that a NULL takes no
  slot;
* `specs/runtime/rowset-codec/spec.md` says that a batch that does not decode fails with an error
  "which ends the call". A UDF may swallow the error of `next()` and go on; a getter then panics on a
  slice out of range, because the row count of the old batch is kept and its cells are gone.
  `ReadsOwnRow` checks that no value of another row is read there;
* `specs/tools/cargo-exaudf/spec.md` says that `build` verifies a non-null vtable; the code turns a
  null vtable into a warning, and reads the schema pointers of a vtable whose ABI it has not compared.
  `validate` compares the ABI before it compares the fingerprint, but has by then followed the
  fingerprint pointer of that vtable (`validate.rs:239-245`); what the two comparisons come to is
  `Validate`'s subject, what the tool reads of a foreign layout is not.

## Abstractions and what is left out

* In the session an input row is its number and an output row the number it carries; values, NULLs
  and types are `TypeBlocks`' subject. `emit_batch` appears in `Dispatch` as emits in a row, in
  `EmitBuffer` as itself.
* The script's axes are chosen in `Init`, though the client learns them from `MT_META`; nothing
  reads them before.
* A frame that does not decode and a reply the machine refuses are both `Error`. A single-call hook
  whose connect-back fails is a hook that fails.
* `SendMayFail` is off in `session`: when the echo of a ping fails in the exchange of
  `MT_FINISHED` and the socket still works, `Runtime::run` sends `MT_CLOSE` after it, so both final
  messages go out. It takes a send that fails without leaving the socket unusable. In the same way a flush whose send
  fails on a socket that works afterwards loses rows the UDF was told of, and the group may still
  come to its `MT_DONE`; `GroupOutputDelivered` excludes that one case.
* What a database answers to `MT_FINISHED` moves nothing: `send_finished` drops the event, so that an
  `MT_CLOSE` there is taken for agreement. No document says what that answer may be.
* In `TypeBlocks` a value is a variant and an integer (a text's length, a date's day number). A text
  of the string block is the sequence of the numbers its fields spell, so that signs, scales, the
  split of a negative timestamp and the digits of a fraction are in the model and characters are
  not. The digits of DOUBLE are formatting the repository tests against `Display`. Arrow batches hold values of the declared column types;
  `build_accessors` refuses most others before anything changes. `EstimateBoundsFrame` counts
  without field keys and block lengths, to the benefit of the estimate.
* The session lets every check before dispatch refuse and every connect-back call fail; which ones do
  is `UdfBoundary`'s subject, and there any slot may be called after any other.
* A panic of `Connection::shutdown` in the destructor of a connection leaves the host for the UDF,
  which every other operation prevents with `catch_unwind`. The model ends there (`aborted`): what
  two copies of the Rust runtime make of a foreign panic is outside the code.
* `FinalWord` says nothing of a call in which `malloc` returned null: the text is lost, and a hook
  that succeeded then answers with an empty result. The directives `artifact.rs` parses, the name a
  function identifier turns into and the conversion of one Arrow cell are outcomes, not texts.
  Transactions have no state on this side of the driver.
* `validate` passes over glibc references without a number, such as `GLIBC_PRIVATE`;
  `FloorAssumption` has the container's glibc define them.
* `InputRows` has the content of one group and lets the exchange succeed or fail; what the exchange
  is made of is `Session`'s. `MockDb` leaves out the column values its row source generates and the
  counters of its sink. Negative Arrow scales are left out: a debug and a release build differ there.
* Not modelled: `spec_json.rs` (a pure serialisation); the parsing of the attribute, access to
  columns by name and the test support of the SDK; `artifact.rs` beyond the outcome of looking for a
  directive; `exaudfclient` (arguments and tracing around `Runtime::run`); `build`, `new` and `schema`
  of `cargo-exasol-udf` (files and processes); integration harness, benches, test UDFs
  and container scripts, which drive the system from outside.
