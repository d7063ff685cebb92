# A TLA+ model of the Noetive Semantik SDK for Rust

These modules model the parts of the SDK where correctness depends on the
order of things: chunks of a response body, retries, lost answers, timeouts,
dropped futures. They are model-checked with TLC on small instances, and the
central invariants are proved with TLAPS for every value of the constants.
Paths below are relative to the repository; `sse.rs` stands for
`src/semantik/sse.rs` and so on.

## 1. Inventory

| Component | State it keeps | Operations | Modelled in |
|---|---|---|---|
| SSE scanner (`sse.rs`) | `buf`, the frame in progress (`cur_event`, `cur_data`, `cur_size`), `pending_cr`, `closed` | `feed(chunk)`, `close()` | `SseScanner`, `SseReference`, with its reader in `SubscriptionBytes` |
| Subscription (`subscribe.rs`) | body stream, scanner, `pending` frames, `finished` | `subscribe`, `poll_next`, drop | `Subscription`, `SubscriptionBytes`, `MatchStream` |
| Transport and retry loop (`transport.rs`) | per call: attempt counter, the sleep in progress | `send_json`, `send_once_json`, `send_raw`, `read_capped`, `run_with_retry` | `RpcCalls` |
| Retry policies (`retry.rs`) | `max_attempts` | `should_retry` | `RetryPolicy` |
| Error decoding (`error.rs`, `limits.rs`) | none | `decode_error_response`, `from_wire`, hints | `ErrorDecode`, `HttpDate` |
| Health (`health.rs`) | none | `health` | `ErrorDecode`, `RpcCalls` |
| Publish, search, lint (`publish.rs`, `search.rs`, `lint.rs`) | none | validate, then `send_json` | `Preflight`, `Client`, `RpcCalls` |
| Preflight (`validate.rs`) | the running total of the metadata walk | checks of one request | `Preflight` |
| Client and builder (`client.rs`, `defaults.rs`) | immutable after `build` | setters, `build`, `from_env`, the methods | `Client` |
| Version, re-exports (`version.rs`, `mod.rs`) | none | formatting | no: no behaviour |

How they interact. `ClientBuilder` fixes the retry policy and the read timeout of
all later calls. `publish`, `search`, `lint` and `subscribe` validate their
request first and return on the first check that fails. The first three then
encode it once and hand the bytes to `send_json`, which runs `send_once_json` inside
`run_with_retry`; each error goes to the client's `RetryPolicy`, whose answer
is a wait or an end. `health` makes one attempt without that loop. `subscribe`
runs `subscribe_once` inside the same loop; when it succeeds, the response
body, the scanner and the frames that arrived behind the acknowledgement move
into the `Subscription`, whose `poll_next` the caller's task drives. Calls of
one client share nothing that changes (`Client` is an `Arc` of immutable
fields), so they interact only at the server, through idempotency keys.

What is hard, and the properties it calls for (`PROJECT.json` lists each hazard
at its line):

* **Scanner.** A chunk may end anywhere, between CR and LF too. The frames must
  be a function of the bytes alone (`ChunkIndependent`); no complete line may
  wait for the next chunk (`NoCompleteLineLeft`); what is stored must stay within
  what the cap counts, as far as the text is UTF-8 (`FramesBounded`); the loop
  must end (`FeedTerminates`).
* **Subscription.** Matches that arrive with the acknowledgement, a body that
  ends or breaks at any point, a reader who drops `next()` and polls again, a
  reader who polls after the end, a handshake that is replayed
  (`NothingLost`, `OverIsFinal`, `OneStream`, `StreamEnds`, `Implements`).
* **Calls.** An answer may be lost, late, replaced by a proxy, or belong to a
  caller who left; a retry may duplicate a publish (`OneInFlight`,
  `KeyedStoredOnce`, `OkMeansStored`), exceed its budget or give up early
  (`AttemptBudget`, `TransientSurfacesLast`), wait too long or not at all
  (`DelayBounded`), or never end (`CallsEnd`).
* **Bytes and stream together.** A scanner that holds half a frame moves from the
  handshake to the stream; a body ends inside a line or after a lone CR; `feed`
  fails in the middle of a chunk (`NoByteLost`, `KeepsPromise`, `StopNoticed`).
* **Requests.** A request is checked against limits that hold of its fields and of
  its metadata as a whole, in an order that differs between processes
  (`LimitsMirrored`), and the
  caller tells a local refusal from a server's by a status of zero
  (`PreflightMeansUnsent`). The builder's settings must reach every call
  (`BudgetAsBuilt`, `OwnClientCallsEnd`).
* **Dates.** A `Retry-After` date goes through calendar arithmetic that a handful
  of examples cannot cover: leap days, centuries, a date on the other side of midnight
  (`CalendarAgrees`, `HintsExact`).

## 2. Modules

### `SseScanner`: the scanner, one action per step of `feed`

A body is a sequence of symbols of unit size: CR, LF and the members of `Text`,
such as `"data:"` or `":"`. `Feed` appends a chunk to `buf`; `TakeLine` is one
iteration of the loop (`next_line`, `drain`, `consume_line`); `FeedReturn`
leaves the loop and hands the vector to the caller; `Close` is `close()`, and
`CloseAgain` its early return. `NextLines` is `next_line`: its
first branch is the one for `prior_cr`, its second takes the first break whose
extent is known. `at_eof` is never true in the code and is left out. A failed
scanner takes no further call: both its callers drop it or set `finished`.

`fed` and `yielded` are history variables: the bytes so far, and the frames the
caller was handed.

Abstractions. Fields other than `event` and `data` are any line with another
first symbol. A chunk may not end inside `data:`; in the code the bytes are
compared with CR and LF only until a line is complete, so such a cut behaves as
one before the symbol. The symbols of `Invalid` stand for bytes that are not
UTF-8: `Lossy` is `String::from_utf8_lossy`, which replaces each by U+FFFD, and
`Bytes` counts three bytes for one of these. (A longer ill-formed sequence has one
replacement too and grows less.) The scanner counts a line before the
conversion, so `FramesBounded` makes two claims: a frame whose text was UTF-8 takes
up no more than was counted for it, hence no more than the cap; any other frame no
more than three times as much.

### `SseReference`: what a body means

The same text, split into lines, blocks and frames at once, without any of the
scanner's state: a line, a block and a frame are each named by the position where
they end, so that the reference needs no loop over them. `ChunkIndependent`
compares. The module also states three sentences of the documentation that the code
does not satisfy (section 4).

`Positions` holds the two operators on sequences that this and the selection of matches
use: the elements at a set of positions (`ElementsAt`), and the position where the part that
ends at another one began (`PartStart`).

### `ErrorDecode`, `RetryPolicy`: what an answer means and what follows

`ErrorDecode` turns a response (status, size against the two caps, kind of body,
the `error` and `retry_after_ms` fields, the header's seconds) into a result:
`SendOnceJson` and `Health` keep the order of the checks in the code, and
`DecodeErrorResponse` keeps the precedence of the envelope over the header and
the fallbacks. The header is an integer of seconds here; its other form is the
subject of `HttpDate`. `RetryPolicy` holds `TransientRetry`, the
backoff schedule and, for `Policy = "custom"`, a caller's policy that may retry
anything after any wait in `CustomDelays`. The code sets no limit to such a policy;
`CustomAttempts` bounds its retries in the model, and no property about the
number of requests or about an end speaks of it.

### `HttpDate`: the date form of a hint

A clock walks through the Gregorian calendar one `Midnight` at a time and counts
the days. `ImfToUnix` is the closed formula of `imf_to_unix`, `HttpDateParse` the
field checks of `httpdate_parse`, `DateHint` the tail of
`parse_retry_after_header`; a header is the record of its fixed-width fields
(`long` and `gmt` are the two checks on its ends).
TLC's integers have 32 bits, so an instant is a pair of days and milliseconds
of a day instead of seconds since 1970; the clock is rounded down to
milliseconds, so a wait is rounded up. A wait of more than a day is out of range
in any case and is `NoHint`.

The headers checked name dates that exist. The code accepts more than
`error.rs:424` and `error.rs:463` say: the weekday and the separators are not
read, and a day up to 31 is taken in every month, 31 February being 2 or 3 March.
Since the header is a hint that the limit of an hour bounds, nothing is claimed of those.

### `RpcCalls`: concurrent one-shot calls

Per call: `pc`, `attempt`, `delay` and `result`. `Send`, `Receive`, `ConnectionFails`,
`Timeout` and `Wake` are the awaits of `run_with_retry` and `send_once_json`;
`Settle` is what the loop does with a result; `Drop` is the caller dropping the
future at any await. `ServerAnswers`, `HandledLate` and `Lose` are external: a request may be stored and
answered by something else, handled after its caller has left, or lost with its
answer; only a 2xx implies that it was stored. A proxy may also give up and answer
while the request waits `behind` it: the call may retry on that answer, and the server
handles the first request before, between or after the attempts that follow
(`HandledLate`), or not at all. `OneInFlight` is about the requests a call has not been
answered for; that a publish with a key is stored once all the same is
`KeyedStoredOnce`. `Identity` says what the server
can recognise: all attempts carry one body, so a key is the same on each. The
server's promise to collapse equal keys is taken from `publish.rs:93-96`.

### `MatchStream` and `Subscription`: the stream, abstract and detailed

`MatchStream` is the promise: a queue of items per connection, an
acknowledgement first, matches given once and in order, others skipped, a clean
end only when the server ended the body and nothing is left.

`Subscription` is the code. `Send` to `FirstBroken` are the steps of
`subscribe_once` in `run_with_retry`; `TakeMatch` to `PollEnd` are the branches
of `poll_next`, one action per iteration since the body may change between two
of them; `Abandon` drops a pending `next()`, `Drop` the future of `subscribe()` or the stream.
`wire` holds what arrived and was not fed, `cut` the item left unterminated by
the end of the body, `pending` the frames the scanner returned. The scanner is
used at the grain of frames: a chunk completes some items, an oversized one
makes `feed` fail with the other frames of the chunk. `ChunkIndependent` and
the `SseLost` run of the scanner are what justifies it.

Left out: the length of the backoff sleep (in `RpcCalls`), the
`closed_with_error` flag (read by `Debug` only) and the two wrapping variants
of `Error`, which `phase` implies.

The refinement: `Queue == pending \o wire \o cut` while the connection is in
use; `Status` follows `phase` and `Over`. `Implements` is `MatchStream!Spec` under
that mapping.

### `SubscriptionBytes`: the stream over the scanner itself

The same loops, over bytes: a body of CR, LF and text symbols arrives one symbol
at a time and ends or breaks between any two; `ReadChunk` feeds any part of what
arrived; `ScanLine`, `ChunkScanned` and `FrameTooLarge` are `SseScanner`'s
`TakeLine`, `FeedReturn` and a failure of either call, with what the loop around
them does; `FirstAtEnd` and `PollEnd` close the scanner. `HandOver` leaves it as
it is, half a line and a deferred CR included.

The promise is again `MatchStream!Spec`, but its queue is computed by
`SseReference` from the text that arrived (`ItemsIn`), not from the state of the
code: `KeepsPromise` says that scanner, handshake and stream together give the
reader the matches of the text, in order and none twice, and a clean end only after
all of it. An oversized run of lines ends the stream with one error, which may come
before completed matches of its chunk, as `SseLost` shows. It is the step that `Subscription` leaves out when
it treats an item as a unit. HTTP refusals, abandoned polls, drops and
payloads that do not decode are in `Subscription` only.

### `Preflight`: what a request must pass

A text is its length in bytes, a vector its length and whether it is finite, a
metadata entry the lengths of its key and value and whether one of them holds a
control character. `Validate` starts on a request; `CheckFields` makes the checks
up to and including the number of metadata keys; `WalkEntry` is one iteration over the `HashMap`, in any order;
`EndOfWalk` compares the total; `CheckKey` the idempotency key. The messages of
the errors, which do depend on the order, are left out: every refusal is the
same `invalid_request` with status zero. `WithinLimits` counts the bytes of the metadata as
a set, without a walk.

### `Client`: builder, validation and calls

`Client` extends `Preflight` and uses `RpcCalls` through the parameterised
instance `CallsUnder(policy, has_timeout)`: the settings are not
constants here, but what `build()` made of the builder's fields. `Setter` and
the four setters, `Build` and `FromEnv` are `client.rs`; `Call` is a method that
begins with `req.validate()?`; `Progress` is a step of the call under the
client's settings, once `Preflight` accepted its request. A program makes one
client and one call after another until one is accepted; concurrent calls are
the subject of `RpcCalls`. An accepted `subscribe` ends here and goes on in
`Subscription`. `health` has no request and passes every check. What happens at the
server to a request that a proxy gave up (`HandledLate`) never comes back to the client,
so `Client` leaves it to `RpcCalls`.

`MCRpcCalls`, `MCSubscription`, `MCSubscriptionBytes`, `MCHttpDate`, `MCPreflight` and
`MCClient` only give values to constants.

## 3. Runs that pass

| Run | Instance | Shows |
|---|---|---|
| `SseBody` | four text symbols, one of them not UTF-8, with CR and LF, bodies up to 6, cap 3 | frames are those of the whole text for every chunking; what is stored against the cap; termination |
| `CallsShared` | two publishes with one key under a policy that may retry anything, 2 retries, a 200 and a 429, from the server or from a proxy before it | one store per key though attempts overlap, Ok implies stored |
| `CallsErrors` | a call and a probe, 3 retries, 12 answers | attempts of a call do not overlap, budget, use of the budget, bounded waits, every call ends |
| `SubFrames` | two matches, an unknown event, a bad acknowledgement, undecodable and oversized frames, 4 items a connection, 2 retries | nothing lost or doubled, one accepted stream, a final end that is noticed, the refinement |
| `SubBytes` | 75 bodies of up to 30 symbols with five combinations of line breaks, a cap of 4, 2 handshakes | the refinement from bytes to matches, over hand-over, end and break anywhere |
| `Requests` | some eighty requests on both sides of every limit, every setting of the builder, five responses | the verdict, in whatever order metadata is walked; status zero, the budget and the timeout as built |
| `HttpDates` | every day of 1970 to 2371, three times of day read at seven instants around midnight and an hour before | the day count, exact waits |

Why the bounds are enough. Six symbols hold a frame and another that only `close()`
completes, a frame of two data lines joined or of an event and data, CRLF pairs cut in
the middle, a comment, and an ill-formed byte in an event or in data; with a cap of 3
both refused and accepted blocks occur. (`SseLost`, with a cap of 2 and eight symbols,
has a line above the cap behind a complete frame.) The scanner
remembers nothing of earlier frames but `pending_cr` and the counter. Two calls
suffice for a key that is shared, two retries for attempts of both that overlap with
late answers; three retries reach a second retry of a
retry and the third entry of the schedule. The twelve answers
are one for each branch of the decoder and each side of its boundaries. Four
items on a connection hold an acknowledgement, a match in its chunk, one in
another chunk and one cut by the end. The Gregorian calendar repeats after 400 years,
which the dates run through once from end to end.
The bodies of `SubBytes` hold an acknowledgement (or a wrong or empty one), nothing, a
match, a comment, an unknown event or an oversized line, and a last match; two handshakes
show that nothing of the first scanner reaches the second. The limits of `Requests` are scaled down
in the proportions of `limits.rs`: two full entries exceed the total, as 16 do in
the code, and each limit is met exactly, missed by one, and exceeded.

Constants that bound: `MaxInput` (length of a body), `MaxItems` (items on a
connection), `MaxAttempts` (the policy's own), `CustomAttempts` (the retries of a caller's
policy), `MaxDials` (handshakes in `SubscriptionBytes`), `LastYear` (the clock).
`CHECK_DEADLOCK FALSE` appears where the system may stop: every call has ended,
the stream was dropped, the scanner failed, the client could not be built, the last year is over.

`CallsShared` uses symmetry over its two calls, which carry the same key; it
checks invariants only.

Fairness. `SseScanner`: `feed` is synchronous, so its loop is weakly fair.
`RpcCalls`: the runtime polls a call that can go on, its sleep elapses and the
read timeout (30 s unless the caller injects an HTTP client, `HasTimeout`)
fires; the server and the network owe nothing. `Subscription`: the executor
polls a ready handshake and `poll_next` runs to its return; `WF(Poll)` is an assumption about
the reader, who keeps polling. The server need not send or end anything, and
`StreamEnds` starts when the body ended or broke. A handshake on a silent
connection waits for ever, as the comment at `subscribe.rs:253-257` says.
`SubscriptionBytes` puts weak fairness on the loops and the reader's polls together
(`Loops`), and none on the server. `Client` puts it on `Progress`: what the runtime does for a
call, its timeout included when it has one.

## 4. Runs that find a disagreement

Each checks one documented sentence; TLC's counterexample is the code's own.

* `SseCap`: the size counter is reset by a frame only. A block that emits
  nothing (`id:` or `retry:` and a blank line) leaves it, and such blocks add up to `FrameTooLarge` (`sse.rs:103`
  against `sse.rs:10-12`).
* `SseLost`: a line above the cap takes along the frames completed earlier in
  the same chunk (`sse.rs:58` against `sse.rs:50`).
* `SseRetained`: an unterminated line is buffered without bound (`sse.rs:53`
  against `sse.rs:12-13`).
* `CallsMalformed`: a non-2xx answer above the response cap is a
  `malformed_response` and is not retried (`transport.rs:88` against `error.rs:33-34`).
* `SubCommit`: a handshake may fail after the acknowledgement was sent
  (`subscribe.rs:302` against `subscribe.rs:212-215`). `OneStream` shows that the
  built-in policies do not replay such a handshake.

Smaller differences are modelled as the code has them, or lie outside what is
modelled, and have no run of their own.

* Empty leading `data:` values leave no newline (`sse.rs:126`, where
  `sse.rs:22-23` says that values are joined by newlines per the SSE specification);
  `SseReference` computes the code's result.
* `SECURITY.md:92-93` says that hints are clamped to one hour, where
  `error.rs:379-381` discards a longer hint, after which the schedule applies.
* `error.rs:234` says that a missing hint means do not retry, where
  `TransientRetry` falls back to its schedule, as `retry.rs:46-48` documents.
* `publish.rs:28-29` says that exactly one of `text` and `vector` must be non-empty,
  where `validate_publish_item` accepts both, as `validate.rs:109-113` documents.
* `limits.rs:48` calls `MAX_SSE_FRAME_BYTES` a cap on the accumulated data, which a frame
  whose bytes were replaced may exceed up to three times (`sse.rs:129`), as
  `FramesBounded` says; the comment at `sse.rs:120-122` says that the server never sends
  such bytes.
* `limits.rs:3-4` says that the pre-flight validation uses these limits; the four
  body sizes of `limits.rs:26-36` are compared with nothing, so a long query that passes
  `lint.rs:72-84` is sent although its body is above the limit.
* `limits.rs:41-43` says that a body above the cap is never buffered in full,
  where `read_capped` loads it first, as its comment says.

## 5. Proofs

Each proof module extends its component. Assumptions are the named `ASSUME`s of the components, which
say no more than the types of the constants.

* `SseScannerProofs`. `ScannerInv` is `TypeOK`, `NoCompleteLineLeft`,
  `FramesBounded` and `DeferredCr`: while `pending_cr` holds, `buf` starts with
  no LF. The last is the strengthening that makes the branch for a leading LF
  dead: a CR at the end of a chunk is deferred *in* `buf`, so what follows it is
  never first. `FramesBounded` needs `Within(cur, cur.size)`: a line is at least as long
  as its value before the conversion and the newline that joins it (`AfterColonShorter`),
  the conversion keeps the number of characters (`LossyTyped`), and a character takes up
  three bytes at most (`BytesOfChars`), one if nothing was replaced. `CapHolds` says so
  of every frame, for every set of invalid bytes.
* `RetryPolicyProofs`: what the decoder and the policies return, as lemmas the
  next two share.
* `RpcCallsProofs`. Budget, overlap and the use of the budget follow from
  `RetryInv`, which ties `sent` to `attempt` and `pc` (`SentInv`), bounds
  `attempt` (`BudgetInv`), and says that nothing of a call is under way before it sends (`NetInv`); they
  assume `Policy # "custom"`, since the built-in policies retry API errors only,
  each of which consumed the answer of its request. A request behind a proxy was answered
  for, so it is no part of `NetInv`. `KeyedStoredOnce` and
  `OkMeansStored` follow from `StoredInv`, for every policy: each message,
  also one behind a proxy, carries its call's identity, each stored item the identity of some attempt,
  and no identity is stored twice.
* `SubscriptionProofs`. `IInv` is `TypeOK` with `Shape`, what the phases and
  flags say of each other: for instance, a stream that saw the end of its body
  has nothing left to read. From it follow `OverIsFinal` (each later poll returns the end
  within its own step: no match, no second error, no wait), `OneStream` (with `StreamInv`: an
  attempt that will be repeated had no stream) and the refinement `Refines`,
  step by step: a chunk moves items from `wire` to `pending` and leaves `Queue`
  as it was, so it stutters; `TakeMatch` is `Give`, `SkipFrame` is `Skip`,
  `PollEnd` stutters or is `Fail`, and `PollAfterEnd` with an open stream is
  `Finish`.
* `HttpDateProofs`. `CalendarInv` says that today's date exists and that the
  formula counts it as the clock does. `YearLength` shows that a year which begins
  in March ends with its leap day, `MonthStarts` that the months inside it follow
  each other under `(153 m + 2) / 5`; `OneDayMore` joins them over the three ways a
  day can end. `DaysCounted` needs no bound on the year, and `DatesWaitedFor` carries
  it through the header, over midnight and up to the limit of an hour.
* `ClientProofs`, first about `Preflight`. The invariant `IInv` says that the running
  total is the number of bytes of the entries walked, as the cardinality of the set
  `Bytes(walked)`: an entry that was not walked adds a disjoint set of its own bytes, so
  no order of the walk is ever mentioned. `VerdictOfTheRequest` is the case where all
  were walked. Then about `Client`: `Validates` shows that `ClientSpec` implements
  `Preflight`'s `Spec`, so that its theorems hold of a client. `CallInv` says that a call
  has sent something only for an accepted request, and that an API error among its
  results has a status other than zero; the two give `ZeroStatusIsUnsent`. `BudgetInv` ties the requests sent to the attempt and the policy
  `build()` chose; each step of a call is proved under any settings (`CallsUnder` with
  arbitrary arguments) and then for the client's own.

Four theorems compare the code with a reference that reads the whole text or history.
They rest on `PositionsProofs`. The reference's recursive definitions are functions on
the naturals: `Recursion` shows that such a function exists, so that what a definition
chooses obeys its equation, and `Induction` states induction of a *set* of naturals
(the library's theorems take an operator). From these follow what `ElementsAt` does on
an append and a concatenation, and when a part goes on or begins. Laws about `\o` that are
needed under a defined name are themselves named (`Associates`, `SelectsJoins`).

* `Independent` (`SseScannerProofs`), that `ChunkIndependent` holds for every body and
  chunking. `Tracks(c, fs, lines, p)` says that a frame in progress `c` and the frames
  `fs` are what the reference makes of the lines up to position `p`, with the same
  size counted and none of them oversized; `TracksText`, `TracksBlank` and `TracksGap`
  move `p` over a line with a field, a blank line and a stretch without an end of a line.
  `TextInv` says that while the scanner is open and has not failed, `buf` is the rest of
  `fed` after some line break and the scanner tracks the reference up to it: `Feed`
  lengthens the text and leaves the lines before `p` as they were (`LinesKept`), also when a
  chunk ends between CR and LF, `TakeLine` moves `p` to the next end of a line, and
  `Close` reads the text as if two more line breaks ended it (`CloseTracked`). When the buffer
  holds no complete line, all of the text is tracked (`AllTracked`).
* `NoMatchLost` (`SubscriptionProofs`), that `NothingLost` holds. `LostInv` is the balance
  `Matches(sent) = given \o Matches(pending \o wire \o cut)` of an accepted stream, which
  holds through each of its steps; before the stream opens nothing was given and all that
  was sent is on the way, and a stream that finished without an error has nothing unread.
* `NoByteIsLost` (`SubscriptionBytesProofs`), that `NoByteLost` holds for every set of bodies. Each step of
  the loops makes a step of the scanner, starts a new one or leaves it alone
  (`LoopsMoveScanner`), so `ScannerInv` and `TextInv` hold under them as well. `OpenInv`
  accounts for the frames: the matches given and pending are those the scanner handed
  over, the first frame set aside, and a stream is finished only when its scanner failed, its
  connection broke, or its body ended and was read to the end. With
  `IndependentNow` the frames handed over are those of the text.
* `PromiseKept` (`SubscriptionBytesProofs`), the refinement of `MatchStream`. The items sent so
  far are computed line by line (`ItemsUpTo`): a symbol that arrives, or the end of
  the body, completes at most one item (`OneSymbolMore`, `TwoBreaksMore`), and a longer text
  has the same items first (`TextItemsExtend`). `PromiseInv` adds to the invariants above that what was fed
  is the beginning of the body, closed only at its end (`HeardInv`), that the items
  begin with the frames popped and those pending (`WayInv`), and that a stream that
  is over gives nothing more (`OverInv`). Then `Dial` is `Connect`, `FirstFrame`
  is `Open`, `Refuse` or `GiveUpSetup`, `TakeMatch` is `Give`, `SkipFrame` is `Skip`, `Arrive`
  and `BodyStops` are `Sent`, `Gone` or a stutter, `PollAfterEnd` is `Finish`, `PollBroken` and
  `FrameTooLarge` are `Fail`, and every other step stutters.

Model-checked only: the liveness properties (`FeedTerminates`, `CallsEnd`,
`StreamEnds`, `StopNoticed`, `OwnClientCallsEnd`), which the prover does not reach.

## 6. What is not modelled, and what is left

Not modelled, since nothing branches on it: request ids, the wording of
messages, header construction, the bearer token (`lint` and `health` send none),
the base URL, the connect timeout, `Debug` output and the User-Agent; the fields
of responses, which are handed to the caller as they were decoded; the accessors
of `Error`, which look through the two wrapping variants. The encoding of a
request that passed validation has no way to fail: its types have no such value.
How much `reqwest` buffers is outside the code's own state.

Two hazards have no property. The handshake waits for its first frame without a
timeout, by design, so there is nothing to hold true; and a response is loaded
before its size is compared with the cap, which is memory inside `reqwest`.

Left for later: payloads that do not decode and abandoned
polls at the grain of bytes, which `Subscription` covers for whole frames; and several
concurrent calls of one `Client`, which share only what is immutable after
`build`.
