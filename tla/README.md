# A TLA+ verification of go-kis

`go-kis` is a read-only Go client of the Korea Investment & Securities (KIS)
API: a REST client (`kis`) and a realtime WebSocket connection (`kis/ws`).
KIS admits one WebSocket session per app key, a limited request rate and a
limited number of tokens, so the client has to keep one session alive on its
own, pace its requests and share its token. This directory models that logic
in TLA+, checks it with TLC on small instances and proves the central
invariants with TLAPS for every value of the constants.

Line numbers in comments refer to the files of `src/kis` and `src/kis/ws`.

## 1. Inventory

| Component | State | Operations | Talks to |
|---|---|---|---|
| Realtime connection (`ws/conn.go`, `reader.go`, `reconnect.go`) | under `Conn.mu`: `transport`, `key`, `generation`, `subs`, `material`, `pending`, `closed`, `stats`, `reissuedFor`; channels `events`, `done`, `stopped`; `writeMu` | `Dial`, `Subscribe`, `Unsubscribe`, `Events`, `Stats`, `Close`; goroutines `run` and, per reconnect, `resubscribe` | `Dialer`/`Transport`, `ApprovalKeyProvider`, `Clock`, the application's `OnReconnect` |
| Approval keys (`ws/approval.go`) | `clientProvider.cached` under its `mu` | `ApprovalKey`, `Reissue` | REST client |
| Reconnect pacing (`ws/backoff.go`) | none | `normalized`, `delay` | run loop |
| Event path (`ws/frame.go`, `crypto.go`, `execution.go`, `publish`) | `events`, `material`, `stats` | `parseRealtime`, `newMaterial`, `decrypt`, `splitFields`, `parseExecution` | run loop, consumer |
| REST client (`client.go`, `request.go`, `auth.go`, `limiter.go`) | `cachedToken`, `cachedUntil` under `tokenMu`; `limiter.next` under `limiter.mu` | `Read`, `IssueToken`, `IssueApprovalKey` | HTTP, `TokenProvider`, `Clock` |
| Configuration of the client (`client.go`) | none | `NewClient`: host allowlist, transport policy, timeout, rate | REST client |
| Account queries (`domestic`, `overseas`, `types.go`) | none | build the query of one `Read` | REST client |
| Legacy subscription (`websocket.go`) | none | `ConnectWS`, `ValidateWSURL`, one write | dialer |
| Processes with one app key (`ws/doc.go`) | the session KIS keeps for the key | `Dial`, `Close`, the stop on OPSP8996 | KIS |
| Default transport (`ws/dialer_coder.go`) | external library | `Dial`, `Read`, `Write`, `Close` | network |

What is hard in this code:

- **One mutex, many hand-overs.** `request`, the reader, the run loop, the
  resubscribe pass and `Close` each take `Conn.mu` for a moment and go on with
  what they copied (`transport`, `subs`, `key`). Each gap between two critical
  sections is a place where another goroutine can make the copy stale.
- **ACKs carry no request ID.** An ACK is matched to a waiter by transaction,
  or to any waiter when it has no `tr_id`, while the order of frames is decided
  by another mutex.
- **Failure at every point.** The link may die while anybody writes, waits,
  sleeps or dials; the server may refuse a stream, the approval key or the
  session.
- **Shutdown.** `Close` may come at any point of a reconnect and has to leave
  no socket, no waiter and no goroutine behind, and `Events` closed.
- **Waiting in a circle.** Writers wait for `writeMu`, the reader for the
  consumer, the consumer for an ACK the reader would read, `Close` for the
  reader and for `writeMu`.
- **Several processes.** KIS refuses the second socket of a key for good, and
  learns late that the first is gone.
- **Records read by position.** A field too many, an empty one, padding or
  material of the wrong length must not turn into a plausible execution.
- **Time.** Tokens expire, requests time out while they wait for a token or a
  slot of the limiter, delays grow.

What makes each part correct:

- *Connection*: never two sockets; nothing left open after the end; every
  waiter is released; subscriptions neither repeat nor outlive `Close` nor
  change order; what is registered is served once the network is quiet; an
  occupied session is never fought over; the client recovers when faults stop.
- *Approval keys and pacing*: one reissue per rejection; frames carry the key
  of their socket; delays within `Min` and `Max`.
- *Event path*: events in arrival order, none lost before `Close` unless it
  cannot be decrypted; material of one session never used in another; `Close`
  ends a blocked reader.
  An execution is read from exactly the documented records; padding and
  material are taken or refused, never guessed.
- *REST client*: the request rate; no expired token sent; one token exchange at
  a time, which never waits for itself; success means the server accepted; a
  client owns its transport and can reach its host.
- *Account queries*: the client lets each of them through, and what the caller
  gave, the page cursor above all, reaches the server.
- *Processes*: an orderly handover is never refused, and a disorderly one does
  not stop everybody.

## 2. Modules and plan

| # | Module | Models | State |
|---|---|---|---|
| 1 | `Conn` | requests, ACKs, run loop, reconnects, passes, `Close` | done |
| 1a | `Session` | what a connection promises the holder of the app key; `Conn` implements it | done |
| 1b | `ConnHistory` | `Conn` with history variables, for the promises of the comments | done |
| 1c | `ConnProofs`, `SeqLemmas` | TLAPS proofs about `Conn` | done |
| 2 | `RestClient`, `RestProofs` | limiter, token cache, request timeout, and the proofs about them | done |
| 3 | `RunLoop`, `Backoff`, `LoopProofs` | approval keys, rejections, attempts and delays | done |
| 4 | `EventStream`, `EventFifo`, `StreamProofs` | publication, material and drops, implementing a bounded FIFO | done |
| 5 | `Shutdown`, `ShutdownProofs` | `writeMu`, writes that block, a consumer that calls back into the connection, `Close` | done |
| 6 | `Frames`, `Requests`, judged by `Decisions`; `FramesProofs` | the parts without state: frames, material, padding, executions; queries, answers, `NewClient`, the beginning of a connection | done |
| 7 | `Handover`, `HandoverProofs` | processes that share an app key, each a `Session`, and KIS | done |

`Conn` is composed upwards through `Session`: `Conn` implements it, and
`Handover` builds processes out of it, one instance each. What is left to do is
listed at the end of section 8.

`MCConn`, `MCConnHistory`, `MCRest` and `MCRunLoop` only give names to the
values the `.cfg` files use. Operators marked "Mutant" in the modules are
plausible mistakes in the definition that follows them; nothing but the mutants
listed in `PROJECT.json` uses them.

## 3. How the modules correspond to the code

### Conn

An action is one critical section of `Conn.mu`, one channel operation or one
socket operation, so the model has every interleaving the locks allow.

- *Requests.* `Conn.request` is run by callers and by passes alike, and so is
  the action `Request(a)`: `Call` (or the pass's `begin`) is the first critical
  section, which captures transport and key, changes `subs` and appends to
  `pending`; then `WriteOk`/`WriteFails`, `Answered`, `GiveUp`, `Forget` and
  `DropSubscription` follow the branches of the function. A `pendingAck` is the
  actor that waits on it, `res` the one-place channel.
- *Reader.* `ReadAck` is `handle` and `applyAck` for a verdict that leaves the
  socket usable, `ReadFatal` for one that does not, `ReadFails` a failure of
  `Read` or of the PINGPONG answer.
- *Run loop.* `runPc` names the places of `run`: `read`, `failed`, `drop`,
  `sleep`, `dial`, `install`, and on the way out `occupied`, `giveup`, `tell`,
  `exit`, `exited`, `done`.
- *Passes.* The pass of generation `g` is an actor named `g`; `todo[g]` is what
  is left of its copy of `subs`.
- *Close* is `CloseBegin` and one `CloseStep` per frame, shutdown and wait.
- *Outside.* `wire` holds the frames the server has not answered, `served` what
  it streams, `up` whether the newest link is alive. `Puts` on a dead link
  succeeds without effect, as a write into a socket buffer does.

Two pairs of steps are one action: `failPending` takes the waiters and then
tells them, `dropTransport` clears `c.transport` and then closes the socket.
Between the halves no other process reads what differs.

### RestClient

`Begin` is `send` up to `newRequest` (the timer starts); `Lock`, `Hit`, `Miss`
and `Store` are `token` under `tokenMu`, where a miss sends a request of its
own with its own timer; `Reserve`, `Abandon` and `SlotCame` are `limiter.Wait`;
`Transmit`, `Answer`, `TimesOut` and `Lose` the HTTP exchange. Time is a natural
number; `Tick` may not pass the timer of an exchange in flight, but a goroutine
may be arbitrarily late for its slot.

### RunLoop and Backoff

`Judge`, `Mark`, `Reissue`, `Pace`, `Wake` and the redial are the statements of
`run` in order, with the default provider behind them: `clientProvider.mu` is
held for a whole call, so a call is one step, and `OtherReissue` is another
connection that shares the provider. Keys are numbered as they are issued.
`Backoff` translates `normalized` and `delay` with whole units for durations
and a finite grain of random values.

### EventStream and EventFifo

`Read` takes one message: `ReadAck` (with `storeMaterial`), `ReadJunk`,
`ReadData` (decryption and everything before the select of `publish`),
`ReadOccupied`. `Publish` and `PublishAbandoned` are the two cases of the
select, both enabled when both are ready. Material is named by the session and
transaction it was issued for; decrypting with other material fails or yields
garbage. `EventFifo` is the channel as the consumer sees it; what the reader
holds counts as queued.

### Shutdown

The same goroutines as in `Conn`, looked at for what they wait for. A write is
two steps, `Lock` (`writeMu.Lock`) and `Write`, which ends when the peer takes
the bytes, when the socket is lost or when the context of the writer ends:
`ContextEnds` says whose does (a caller's own, `Close`'s after `closeTimeout`,
the reader's with `c.cancel`). `ReadMessage` leads to a publication or to a
PINGPONG answer, `Receive` is the consumer when it is not in a call of its own.
A link that is `stalled` still delivers but takes nothing. What `Conn` has in
detail is abstracted: a redial is one step, a request carries no stream.

### Frames, Requests and Decisions

`Frames` and `Requests` have one operator per function, over the parts the
functions tell apart: a payload is a sequence of separators and atoms, a key
its length and the length it decodes to, a URL whether it is clean, its host and
port. `Decisions` enumerates inputs as states, payloads and plaintexts growing
piece by piece, and judges each result by a definition of what it should be:
the field with so many carets before it, the one text with that padding, the
conditions under which a server has accepted a request.

### Handover

`begun`, `held`, `ending` and `over` are the variables of `Session`, for each
process; `EachIsASession` says that every step is one of `Session` for each of
them. `holder` is the socket KIS serves: the first that asks when it serves
none. `Finish` and, when links do not linger, `Lose` free it, `Notice` does so
later. `Refuse` is OPSP8996, which ends the connection.

## 4. Runs

Every passing run explores its whole state space.

| Run | Question | Bounds, and why they suffice |
|---|---|---|
| `conn_core` | Do waiters and subscriptions stay accounted for? `TypeOK`, `WaitersAreKnown`, `SubsAreSound`, `OrderKept` | two callers sharing a stream, a context that expires, every verdict, ACKs without `tr_id`, `Close`, one fault: enough for a pass to overlap both calls |
| `conn_served` | When all is quiet, is every registered stream served, and did each verdict reach a request of its transaction? `RegisteredIsServed`, `VerdictFits` | two callers, two streams, two reconnects, refusals. `Unsubscribe` is not called: `doc_unsubscribe` shows what goes wrong with it. ACKs name their transaction and no caller gives up, since a refusal that comes to the wrong waiter or to none leaves a stream registered and not served (section 6) |
| `conn_live` | One socket at a time and none left, and does everything end or recover? `OneSession`, `NothingLeftOpen`, `CloseIsComplete`, `EndReleasesAll`, `Recovers`, `OccupiedIsFinal`, `ImplementsSession` | two faults: a pass of the first redial can live to see the second; `Close` at every point; one subscription, since what a pass restores does not touch the sockets |
| `rest` | `SlotsApart`, `RateBound`, `TokenMuIsReleased`, `NoExpiredTokenSent`, `TokensAreKept` | two goroutines (one cancellable), a clock of six units, tokens that live through one request and longer ones |
| `loop` | `ReissuedOnce`, `SpentKeysStaySpent`, `OccupiedNeverChurns`, `DelayInBounds` | four attempts, four keys: a reissue, a repeat, an accept and a reissue again; five settings, each odd in its own way |
| `stream` | `EveryMessageAccounted`, `NoGarbage`, `KnownStreamsDecrypt`, `FifoSpec` | a channel of one event, two messages (one in the channel, one in the reader's hand), two sessions, two requests, a consumer that need not receive |
| `shutdown` | Does `Close` return, and each call whose context ends? `TypeOK`, `CloseReturns`, `BoundedCallsReturn` | a caller whose context never ends and a consumer that calls; a channel of one event and three messages, so that it is full with one in the reader's hand; three calls, two faults: a stall and a loss, or a reconnect and a stall |
| `decisions` | `ExecutionsAreExact`, `CipherTakesIt`, `PaddingRoundTrips`, `QueriesAreRight`, `SuccessIsGenuine`, `ClientsAreSound`, `FailedBeginsLeaveNothing` | payloads up to 16 pieces, two more than a record has, three of them empty or oddly separated; plaintexts of six bytes with blocks of 1, 2 and 3, so that padding may fill a block, cross one or be too long; every combination of the flags of a request, an answer and a configuration |
| `handover` | `NobodyRefused`, `SomebodyGoesOn`, `EachIsASession`, `KeyIsUsed` | three processes, so that a third may take the key while two quarrel; three lost links; in order or not, links that linger or not |

Type invariants are checked by `conn_core` and `shutdown`; those of `RestClient`,
`RunLoop`, `EventStream` and `Handover` are proved (`TypeCorrect`), and the runs
do not repeat them.

The remaining runs each exhibit one disagreement between the code and what it
says of itself; section 7 lists them.

`CHECK_DEADLOCK FALSE` is set because every one of these systems may stop for
good: after `Close`, at the end of an occupied session, or when a bound of the
model is spent.

## 5. Fairness

`Conn!FairSpec` assumes weak fairness of every request, pass, the run loop and
the steps of a `Close` that was called. Goroutines are scheduled; a sleep ends
because the clock fires or `done` is closed; a request ends because its context
expires or its connection stops (`Impatient` names the contexts that do expire;
a pass has 30 s of its own). Writes return because the socket or their context
ends. Nothing is assumed of the server (it need not answer), the link, the
application or the consumer. `Recovers` holds because the faults of the model are finite:
it says that the client recovers when faults stop, not that they do.
`Shutdown!Spec` assumes weak fairness of writes that can end, of waits that can
be given up, of the run loop and of a `Close` that began, and strong fairness of
`writeMu`: a mutex that becomes free again and again is got some day, which the
Go runtime sees to by handing it to a waiter of more than a millisecond.
`StallsEnd` says that the network gives up a peer that takes nothing, as TCP
does after minutes; without it `Close` may hang (`doc_close`). Nobody has to
call, answer or receive, and callers outside `Bounded` have contexts that never
end.

`Handover!Spec` assumes that connections go on with what they began, as
`Session` promises, that each makes the requests that restore its streams, and
that KIS answers them and notices a link that is gone. No process has to begin
or to close.

## 6. Proofs

`ConnProofs` (any callers, streams, transactions, verdicts and bounds):

- `TypeCorrect`, `OneSessionHolds`, `NothingIsLeft`, `CloseCompletes`,
  `WaitersStayKnown`, `SubscriptionsAreSound` are the safety invariants of
  `conn_core` and `conn_live`.
- None of them is inductive alone. That one socket is open needs to know where
  the run loop is (`SocketInv`: between drop and install `c.transport` is nil
  and nothing else is open) and that after `CloseBegin` no redial installs
  (`CloseInv`). That waiters are known needs `pending` to have no repetition,
  so that removing one occurrence removes the waiter (`RequestInv`). That a
  generation stays within its bound needs each redial to be paid for by a fault
  (`FaultInv`). `Inv` is their conjunction; `StepInv` has a lemma for each
  kind of process.
- `ConnImplementsSession`: initial states map to initial states and every step
  maps to a step of `Session` or to a stutter, so `Conn` implements the safety
  part of `Session`.
- `OrderIsKept`: no step swaps two subscriptions, because `subs` only has
  elements appended and single ones removed, and holds none twice.
- `OccupiedStaysFinal`: from OPSP8996 on the run loop is on its way out
  (`occupied`, `giveup`, `tell`, `exit`, `done`), from where no step leads to
  a dial.
- `VerdictsFit`: a verdict goes to a waiter of the ACK's transaction, and
  `pending` has nobody but requests that wait or are about to. It holds where
  each stream has a transaction of its own and ACKs name it
  (`AcksNameStreams`).
- `RegisteredStaysServed`, the promise of the whole component, needs an
  invariant that says who will see to each registered stream (`Covered`): it is
  served, or a request for it has yet to write its frame or to drop the stream,
  or the pass of the newest socket has yet to restore it. What makes it hard is
  that ACKs carry no request ID: the refusal of one request may answer another
  of the same stream, so no waiter owns the frame it wrote. The invariant
  therefore counts (`Owed`): some assignment gives each frame on the wire, and
  each request that has yet to write one, a waiter of its stream for itself.
  Every step of `OwedStep` gives such an assignment for the new state: shifted
  by one when a frame is answered, with the debt of the waiter that was told
  handed to the one whose answer it got. Then no refusal goes unheard, and the
  request that hears it drops the stream. `LinkInv` says that a dead link
  carries nothing. The theorem has two hypotheses, and TLC finds
  `RegisteredIsServed` violated without either: `NothingWithdrawn` (no
  `Unsubscribe`, section 7) and `RefusalsHeard` (if the server ever refuses,
  ACKs name the stream and no caller gives up before its answer). Against a
  server that only accepts, the theorem covers callers that give up, ACKs
  without a transaction and streams that share one.
- `SeqLemmas` has what the sequence operators keep: removing an element keeps
  the others, their order and their uniqueness; appending keeps order; what a
  sequence holds is its head or in its tail; and that the least element of a
  set of numbers, which the models take with `Min`, is one (by the
  well-foundedness of the order).

`RestProofs` (any goroutines, interval, margin and token lives): `TypeCorrect`,
`SlotsStayApart` by induction on the reservation (`LimiterInv`: every slot in
use is an interval before `limiter.next`), `TokensAreFresh` by following the
token from the exchange (`TimerInv`) to the cache (`CacheInv`) to the request
(`CarryInv`), `TokensAreShared` from `CacheInv`, `TokenMuIsAlwaysReleased` from
the mutex invariant. `RateIsBounded` counts: slots that are an interval apart
lie in different intervals of the clock, so by the pigeonhole principle there
are no more of them than intervals, and each transmission has its own slot
(`CountInv`). The assumption that matters is
`2 * Timeout <= Margin`: the margin of a minute, taken when the answer arrives,
has to cover the exchange and the request that uses the token. `NewClient`
accepts any `RequestTimeout`; with one above 30 s nothing in the code prevents
an expired token from being sent. Likewise a token is assumed to live at least
as long as a request.

`LoopProofs` (any settings, keys and number of attempts): `OneReissue` and
`SpentForGood` need what the mark and the spent keys mean at each place of the
loop (`MarkedOnce`, `SpentIsGone`); `OccupiedEnds`; `DelaysAreBounded` for every
configuration that `normalized` can produce, every growth and every random
value. The provers know nothing of `^`: `PowersAssumption` says that the powers
used are natural numbers, and TLC evaluates it for the settings of the run.

`StreamProofs` (any transactions, sessions, buffer and messages):
`NothingIsLost`, by following the one message in the reader's hand (`OneInHand`);
`NothingIsGarbage` and `KnownIsReadable` from where material can come from
(`MaterialFits`) and what a socket can carry (`WireFits`); `EventsAreAFifo`, the
refinement of `EventFifo`.

`ShutdownProofs` (any callers, calls, messages and faults): `WritesAreSerial`.
That an answered caller was waiting (`AskedWait`) makes it inductive.

`HandoverProofs` (any processes, any number of lost links): `BreakBeforeMake`
needs that processes in order are open one at a time (`OneAtATime`);
`OneIsLeft` that KIS serves nobody it refused (`ServedNotRefused`), because the
one it serves is then the one that goes on; `RefinesSession`. That a socket is
gone for KIS when `Close` closed it is an assumption of the model (`Finish`).

`FramesProofs` (payloads and texts of any length, blocks of up to 255 bytes):

- `PaddingIsSound`: padding comes off again, and what comes off was padding.
- `ExecutionsStayExact`: the model splits a payload at its carets with
  `Ascending`, the numbers of a set in their order, and the property counts
  carets. Both are put in terms of ranks: the rank of a position among the
  starts of fields is one more than its number of carets (`StartsAreCarets`),
  it grows exactly at the starts (`RankGrows`, `RankOrders`), so the positions
  of rank `k` are the interval from the `k`-th start to the next
  (`FieldsAtCarets`). That a rank is reached at all is the one place that needs
  induction, and is had from the least position of that rank or more
  (`AscendingShape`, `MinIsLeast`).
- `MaterialIsUsable`, `SuccessStaysGenuine`, `ClientsStaySound`,
  `FailedBeginsAreClean`, `QueriesStayRight`: the inputs they judge do not
  change once they are chosen (`JudgedStays`), so they reduce to facts about
  the operators of `Requests`. The lemmas prove these of more inputs than
  `Decisions` enumerates: material of any length, answers of any status,
  any host, timeout and pair of transports.

`Ascending` picks the element of each rank with `CHOOSE` instead of filtering
a sequence, because the definition of `SelectSeq` is not visible to the provers.

Only model-checked: the liveness properties `EndReleasesAll`, `Recovers`,
`CloseReturns`, `BoundedCallsReturn` and `KeyIsUsed`, and the fairness part of
`ImplementsSession`, which are beyond the prover. Every safety property of a
passing run is a theorem.

## 7. Where the code differs from what it says

| Run | What the code does |
|---|---|
| `doc_unsubscribe` | a pass restores from a copy of `subs` and registers again a stream that was unsubscribed meanwhile |
| `doc_remembered` | a pass whose write fails forgets a subscription the server had granted |
| `doc_close` | `Close` waits for `writeMu`, without a timeout, behind a PINGPONG answer that a dead peer does not take |

`PROJECT.json` quotes the line each of them contradicts.

Seen while reading, and not kept as runs:

- A pass that passed its generation check may write to a socket younger than
  its own (conn.go:251 against reconnect.go:114-115).
- A request that registers between `failPending` and `dropTransport` waits on a
  socket that is gone, until its context or the next socket ends (reader.go:50
  against reconnect.go:173-174).
- Two requests of one transaction, registered in one order and written in the
  other, get each other's verdict (reconnect.go:156 against reader.go:123-124);
  `VerdictFits` is what holds.
- `attempt` counts all reconnects since `Dial`, also those that succeeded
  (reader.go:36, 52 against backoff.go:26).
- `ReconnectInfo.Subscriptions` (conn.go:64) counts the entries a pass tried,
  also those that failed; a pass may report after the loop reported that it
  stopped (reader.go:47).
- A `Close` called from the report that the loop stopped waits for itself
  (reader.go:47, conn.go:368): the report comes from the run loop.
- The subscribe frame of a request that captured its socket before `Close` may
  reach the server after the unsubscribe frame of `Close`.
- A handover in the wrong order may stop the outgoing process instead of the
  incoming one (README.md:103): whichever asks second is refused, and after a
  lost link that is the old one. Both stop if a request of the refused process
  claims the key before its socket is dropped (reader.go:46); `SomebodyGoesOn`
  excludes that case by `late`.
- If KIS has not noticed a lost link, the reconnect of the same process is
  refused as a second session and the connection stops for good (reader.go:43);
  `NobodyRefused` and `SomebodyGoesOn` assume that links do not linger.
- `realtimeFrame.Count` is not used. A '|'-separated record of fifteen segments
  of which one is empty is read as an execution, with fields in wrong places
  (execution.go:37-39 against frame.go:63-68); `ExecutionsAreExact` counts the
  segments that are not empty, as the code does.
- The base64 text of a 16-byte key is 24 bytes long and is taken literally
  for an AES-192 key (crypto.go:35-42); the comment considers the reverse.
- The floor at `Min` takes all jitter off the first retry (backoff.go:68).
- After a failed reissue the default provider, whose cache is empty by then,
  asks for another key; the comment at reconnect.go:50-51 expects the old one
  to be used again. `SpentKeysStaySpent` is what the code does guarantee.
- Between `close(c.done)` and `c.cancel()` the select of `publish` may give an
  event up and the reader publish a later one (reader.go:215).
- The material of an ACK without `tr_id` whose waiter has expired is stored
  under the transaction of another waiter (reader.go:128-131).

## 8. Not modelled

- The WebSocket library behind `NewDialer`, and providers, clocks and dialers
  of the application. What a closing handshake of the library costs `Close` is
  outside.
- Wording and categories of errors (`classifyTransportFailure`, `decodeError`),
  JSON decoding of answers and ACKs, the numeric forms of an execution
  (`QtyInt`, `PriceRat`), `WebSocket.Subscribe` and `Handle` of the legacy
  connection, which keep no state and pass one message on.
- The bytes of base64 and AES-CBC: decrypting is known by whether the material
  is that of the message.
- That transmissions themselves are an interval apart: a goroutine that wakes
  late may transmit right before the next. Slots are apart and the total is
  bounded; the code promises no more.
- A bound on how long a goroutine waits for `tokenMu`.
- The material of ACKs without a `tr_id` in `EventStream`, and two calls for one
  stream that reach the wire in the other order (section 7).
- Examples and test fixtures.

Worth doing next: passes and several subscriptions in `Shutdown`.
