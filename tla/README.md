# chronicle-worker in TLA+

Models, model-checking runs and machine-checked proofs for `chronicle-worker`,
the service that claims recorded sessions, feeds their audio to
`chronicle-pipeline` and writes the transcript to the data-api. Paths are
relative to the repository: `event_loop.rs` is `src/event_loop.rs`.

## The system

| component | state it keeps | operations | talks to |
|---|---|---|---|
| event loop (`event_loop.rs`) | map session → handle of its runner, `JoinSet` of wrapper tasks | startup and poll reconciliation, event dispatch, retry dispatch, admin rerun, completion of runners | runners (bounded channels, join), data-api (list, PATCH), retry queue, socket channel, admin channel |
| session runner (`session_runner.rs`) | mode, command channel; streaming: `processed`, `pending`, `next_expected`, `posted_segment_ids` | build, receive, ingest, finalize; claim, collect, produce, mark | data-api, pipeline |
| retry queue (`retry.rs`) | heap of (session, attempt, due time) | `schedule`, `next_ready` | event loop |
| data-api client (`api_client.rs`) | bearer token | PATCH status, list, download with retries, bulk insert, delete, re-authenticate | data-api |
| output rows | segments, beats and scenes in the data-api | insert by a run, list and delete on a rerun (`clear_prior_outputs`) | data-api |
| one-shot collection (`collect_speaker_tracks`) | tracks so far | list participants and chunks, download, decode | data-api client, decode |
| socket task (`ws.rs`) | connection, backoff | reconnect, parse, forward to a channel of 256 | event loop |
| admin surface (`admin.rs`) | – | status, rerun, each a command with a time limit | event loop (channel of 32) |
| heartbeat | time of the last success | POST every 30 s, re-authenticate on 401 | data-api client |
| decode (`decode.rs`) | – | bytes to mono samples, chunk by chunk or joined | both kinds of runner |
| whisper client (`whisper.rs`) | – | build a WAV file, POST it, classify the answer | pipeline, whisper |
| config, ids, error, main | – | start-up, newtypes | |

How they interact: the collector stores chunks and sessions in the data-api,
whose events reach the worker over the socket. The loop starts a *streaming*
runner at a session's first chunk and passes it every later one; the `uploaded`
event finalizes it. Sessions without a runner, orphans and retries get a
*one-shot* runner. The data-api's PATCH is the only claim: 409 means a peer owns
the session. A failed run is marked `transcribing_failed` and queued again.

What is hard: the loop blocks on bounded channels that one kind of runner never
reads; a session can have several runners at once (retry, rerun, late events)
while the map has room for one handle; aborting a wrapper leaves its runner
running; requests fail after they were applied; events are lost while the socket
is down; a restart forgets everything but the data-api; chunks arrive out of
order; `select!` drops the retry queue's future between any two of its awaits;
several tasks replace one token; a rerun deletes rows one request at a time; an
admin request gives up while its command stays queued; chunks are cut in the
middle of a sample. `PROJECT.json` lists each of these hazards at its line.

What makes each part correct: handles lead to the right runner (event loop);
rows before the mark, and no claimed session forgotten (loop, runner and retry
queue together); uploaded sessions get claimed and claims get resolved; sends
return; chunks are fed in order, once, and what the pipeline emits is stored;
a retry that is due is taken, once; a refused token is not sent again; a marked
session has the rows of its run; a rerun leaves only its own; admin requests are
answered; tracks hold what consenting speakers said, on the clock.

## Modules

| module | what it is |
|---|---|
| `WorkerState` | constants, variables and the data-api's PATCH (`patch_status`), shared by the next two |
| `SessionRunner` | a runner task, one action per await: `BuildPipeline`, `Recv`, `Claim`, `Collect`, `Produce`, `Mark`, `Panic` |
| `EventLoop` | startup, the branches of the `select!`, and a crash |
| `Worker` | composes both with the environment (collector, socket, data-api); properties and fairness |
| `StreamingIngest` | one session on the streaming path, chunk by chunk |
| `InOrderDelivery` | the abstract promise of that path: an in-order feed per speaker; `StreamingIngest` implements it (`fed` is the log, the program counter tells when it is closed) |
| `RetryQueue` | `schedule` and `next_ready`, await by await, in two settings: owned by the `select!` loop, shared by two tasks |
| `DueQueue` | what a queue of due times promises; `RetryQueue` implements it |
| `ApiClient` | the token: downloads, other requests, heartbeat and socket that copy, lose and replace it |
| `OutputRows` | rows of a session, run by run: posts, batches, retries, the rerun's listings and deletes |
| `AdminSurface` | the handlers, the command channel, acknowledgements and time limits, the loop's branch |
| `OneShotCollection` | consent, listings in any order, skipped downloads, the start of a track |
| `PcmDecode` | bytes to samples on both paths, wherever chunks are cut |
| `WhisperCall` | the WAV header, classes of failure, confidence, the runner's retries of a transient failure |
| `OneShotSteps` | the three parts above, one at a time, in one specification that the run checks |
| `Lists` | filter, sum and sort of the code's iterators, as recursive functions and choices |
| `ListsProofs` | what is true of them, and of `FlattenSeq`, for lists of any length |
| `WorkerProofs`, `IngestProofs`, `RetryQueueProofs`, `ApiClientProofs`, `OutputRowsProofs`, `AdminSurfaceProofs`, `OneShotStepsProofs` | theorems |
| `MC...` | constants for TLC, one per module with runs |

`Worker` abstracts three of these on purpose: its `retryq` is a bag of entries
that may be due at any time, its `complete` is one bit for the rows of a run, its
`Collect` one step that succeeds, fails or finds nothing. `RetryQueue`,
`OutputRows` and `OneShotCollection` model what is behind them.

`OneShotSteps` instantiates `OneShotCollection`, `PcmDecode` and `WhisperCall`.
None of them keeps state for the next (a track is decoded as it is; the pipeline,
which is external, asks whisper about regions of any length), so `step` says
which one a behaviour is about and the others' variables stay `Idle`. What the
three require of their constants is assumed there, as `StepsAssumption`.

How state corresponds to the code, in `Worker`:

- `active[s]` is the `HashMap` entry, `runner[r]` a spawned task in slot `r`.
  `joined` says that the wrapper in the `JoinSet` still awaits it; a detached
  runner (after `h.abort.abort()`) runs on with `joined = FALSE`.
- `runner[r].pc` stands between two awaits. `ok`, `failed`, `lost` and
  `misconfigured` are the outcomes that `on_runner_complete` tells apart:
  `Ok`, retryable, `ClaimLost`/`NotFound`, `Config`.
- `loop.pc = "sending"` is the loop inside `tx.send(..).await`, `"clearing"`
  inside `clear_prior_outputs`. Only the loop changes the map, so the rest of a
  handler is one step: a status read from a listing that changes before the
  spawn is the same as one that changes just after it, because a runner does
  nothing before its claim.
- `retryq[s][k]` counts entries for attempt `k`; when an entry is due is left
  open, so every length of the backoffs is covered.
- `complete[s]` is one bit: the rows of one whole run are stored.
- `gaveUp[s]` is a history variable: why the worker stopped working for `s`
  (`exhausted`, `misconfigured`, `unlisted`: the startup listing failed,
  `restart`: the queued retry was lost). A later successful claim clears it.
- `Patch` has four outcomes: applied, 409, 404, and an error after which the
  change may or may not have been applied.

In `StreamingIngest` the socket channel, the loop and the runner's mailbox are
one FIFO `channel`: each passes events on in order. A chunk is its number, the
pipeline makes one segment of each chunk it accepts, and `emit` may return any
of them, also ones it returned before. `pc = "handed"` means a one-shot run has
the session: what the streaming runner did no longer matters.

In `RetryQueue` an entry holds the time it has *left* and `Tick` takes one unit
from every entry and from the sleep, so instants need no bound. `pc` is the await
`next_ready` stands at. `LoopSpec` has `Interrupt`, the `select!` dropping the
future, and schedules only while a handler runs; in `TaskSpec` another task
schedules at any time. `notify_waiters` wakes a waiting future and nothing else.

In `ApiClient` each caller is a record: `token` is the header of its request or
the token it is about to store, `refused` (history) the one it last got a 401
for. Issuing and storing a token are two steps, because `do_auth` awaits the
answer before it takes the lock. Names of tokens are used again once nobody
holds them.

In `OutputRows` a row is named by its run, kind and index: the pipeline, which is
external, is taken to make new ids in each run. The event loop does nothing else
while `clear.pc = "delete"`, since `handle_admin` awaits the clear. `watched` is
false for a run whose wrapper was aborted; `rerun`, `alone`, `swept` and `cleared`
are history.

In `AdminSurface` a request's `waiting` is the handler at its time limit and
`GivesUp` may come at any moment of it: no length of the two and five seconds is
assumed.

`OneShotCollection` names a chunk by its number, one unit of time long;
`PcmDecode` takes bytes of `ByteValues` values (256 in the code) and keeps the
widths (`i16` samples are two bytes, the mean is taken in a wider type);
`WhisperCall` keeps the 32 bit sizes of the header as words of `WordValues`
values (2^32).

Mutated operators (`ProduceIgnoringWriteError`, `OnRunnerCompleteKeepingHandle`,
…) stand beside the definition they mutate and occur in no specification;
replacing the definition by one of them must break the property `PROJECT.json`
names, which shows that the property can fail.

## Runs

| run | properties | shows | states |
|---|---|---|---|
| disturbed | `TypeOK` `HandlesAreJoined` `WrittenBeforeTranscribed` `NoOrphanedSession` | handles lead to their runners; rows before the mark; no claimed session is forgotten, whatever fails | 2.4 M |
| live | `UploadedIsPickedUp` `ClaimedIsResolved` `SendsReturn` | with all events delivered, sessions are claimed and resolved and the loop never stays blocked | 165 k |
| ingest | `TypeOK` `BookkeepingAgrees` `WholeIfUndisturbed` `SegmentsAreStored` `ImplementsDelivery` | in-order feed, nothing lost without a failure, failed posts repeated | 1.0 M |
| queue | `TypeOK` `NoOversleep` `EntriesConserved` `DueEntriesAreTaken` `ImplementsDueQueue` | dropped at any await, `next_ready` never sleeps past a due time and returns every entry once, when due, earliest first | 4 k |
| client | `TypeOK` `RefusedTokenIsReplaced` `BackoffIsListed` `DownloadsReturn` `StoredTokenIsHealed` `SocketReturns` | a refused token is not sent again, the backoff array not left; once tokens are no longer forgotten, downloads end, the stored token is replaced, the socket connects | 315 k |
| rows | `TypeOK` `MarkedRunIsWhole` `UndisturbedRerunIsClean` `DeletesOnlyEarlierRuns` | a marked run has its rows; a rerun with no failure and no company leaves only its own; deletes hit older runs only | 129 k |
| answers | `TypeOK` `AnsweredMeansDone` `RequestsAreAnswered` `CommandsAreDone` | as long as the loop runs every request is answered and every command carried out, none twice | 4 k |
| oneshot | `TypeOK` `TracksAreComplete` `NoTracksMeansNoAudio` `WholeTracksAreOnClock` `JoinedIsTheMean` `AlignedPathsAgree` `HeaderDescribesFile` `ConfidenceIsOfTheReply` `RefusalsAreFinal` | tracks hold the consenting speakers' chunks; a session has no tracks only if nobody's audio is stored; joined decoding is right wherever chunks are cut; header, confidence and retries for sizes and replies at their limits | 290 k |

The other runs disagree with what the repository says; `PROJECT.json` quotes the
lines under "findings".

| run | violated property | because |
|---|---|---|
| loss | `UploadedIsPickedUp` | one lost `uploaded` event: the poll skips sessions with a streaming runner (`event_loop.rs:162`) |
| backoff | `ScheduledForFailedRun` | the first failure waits the second backoff (`event_loop.rs:344`) |
| rerun | `MarkedWithRows` | the runner an admin rerun "aborts" marks a session without rows (`event_loop.rs:256`) |
| gap | `DownloadedChunksAreFed` | one failed download strands the speaker's later chunks (`session_runner.rs:181`) |

Further disagreements are part of the models, with no run of their own. What the
checked properties say stops where they begin:

- `event_loop.rs:187`: two runners of a session, against "one runner per session"
  at `session_runner.rs:3`. `HandlesAreJoined` holds all the same.
- `api_client.rs:351`: a new token on any number of 401s, against "one-shot" at
  `api_client.rs:323`. `DownloadsReturn` needs tokens to be kept in the end.
- `ws.rs:76`: a 401 at the upgrade is a failed connection like any other, against
  `README.md:44-45`. `SocketReturns` rests on the heartbeat.
- `session_runner.rs:331`: a failed listing counts as empty, a failed delete as
  done. `UndisturbedRerunIsClean` speaks of clears in which nothing failed.
- `admin.rs:105`: 503 after five seconds, the command stays queued.
  `AnsweredMeansDone` says nothing of requests answered 503.
- `event_loop.rs:248`: the status shows the present time as the heartbeat's,
  against `admin.rs:8`.
- `session_runner.rs:303`: a session whose downloads all fail has tracks without
  samples; the run goes on with them and marks the session, without rows if the
  pipeline finds nothing in them, although its audio is stored.
  `NoTracksMeansNoAudio` speaks of the branch at line 290 only, which such a
  session does not take, and `TracksAreComplete` counts what was skipped.
- `session_runner.rs:421`: nothing stands for the time of a skipped chunk, against
  lines 427-429. `WholeTracksAreOnClock` speaks of tracks without one.
- `session_runner.rs:199`: a chunk decoded alone loses the frame it is cut in,
  against `decode.rs:14-16`. `AlignedPathsAgree` speaks of cuts between frames.

### Bounds

`Budget` bounds how often each kind of event happens: faults, crashes, reruns,
chunk events, lost and repeated events, deletions. `NoRerunYet` in some
properties restricts them to behaviours before the first rerun, because a rerun
deletes rows and detaches runners on purpose.

- `Worker` starts with each status an earlier process may have left a session
  in; one left `transcribing_failed` is counted as given up for the restart.
- "disturbed" has two faults and one each of crash, rerun, lost and repeated
  event; "live" two faults, a crash, a chunk event and a deletion. One session is
  enough for both: sessions share only the loop, and the proofs cover any number.
- `Slots` bounds the runners alive at one time; a handler that spawns waits for
  a free slot (`HasRoom`), which the code does not. Three slots allow two
  concurrent runners of a session and a third being spawned.
- `MailboxCap` 1 instead of 64 and `BusCap` 2 instead of 256: a full channel is
  what matters, so they are as small as they can be.
- `Backoffs` 2: with attempt numbers from 2 on, one retry is made and the
  next failure exhausts the schedule. Two faults reach that.
- `ChunkLimit` 3 with two speakers: a gap, a chunk behind it and one behind
  that; the channel holds two announcements, and any order of upload is
  allowed. `Silent` makes one chunk decode to nothing.
- `RetryQueue`: three entries, so that one is due before, with and after
  another; four configurations, with blank, bad and no fields; the empty heap's
  sleep is longer than every delay; lateness is counted up to `MaxLag`, after
  which it makes no difference.
- `ApiClient`: two tokens forgotten and one failed request; eight names of
  tokens are more than the callers can hold. A download, the heartbeat and the
  socket; there is no plain request, since one changes nothing for the others.
  5xx answers are not limited.
- `OutputRows`: four runs (a run, a retry, a rerun, one that overlaps it), two
  batches, two failing requests; a schedule of two entries, with which one retry
  is made, because `schedule` is asked about the attempt to come.
- `AdminSurface`: room for one command instead of 32, so that senders wait;
  two reruns and two status requests at one time.
- `OneShotCollection`: every set of up to three chunks, every consent, every
  order of listing; two failing downloads.
- `PcmDecode`: bytes of four values, two frames, levels at both ends of the range
  and at -1, where division rounds the other way; chunks of every length.
- `WhisperCall`: words of 128 values and lengths on both sides of their end.
- Deadlock is not checked in `Worker`, `StreamingIngest`, `OutputRows`,
  `AdminSurface` and `OneShotSteps`: their work ends, or rests once the budget is
  used up. `RetryQueue` and `ApiClient` never stop and are checked.

### Fairness

`FairSpec` assumes weak fairness of each runner's step (tokio runs every task
that can run, and requests have a 60 s limit) and of the loop's own steps, and
strong fairness of the `select!` branches for events, poll, retries and
completions (`tokio::select!` polls its branches in random order, so one that is
ready again and again is taken). Nothing is assumed of the environment, of
failures, of crashes or of admin commands. Because faults are drawn from a
finite budget they stop eventually; a data-api that fails for ever is outside
the liveness claims.

`RetryQueue!FairLoopSpec`: strong fairness of each step of `next_ready` and of
time, since every turn of the loop may drop the future but other branches are
ready only now and then; weak fairness of the loop coming back.

`ApiClient!FairSpec`: weak fairness of each task's next step and of the
heartbeat's timer. It is the heartbeat that heals the token: nothing is assumed
of when downloads or requests begin. `Budget` bounds how often tokens are forgotten.

`AdminSurface!FairSpec`: while the loop runs, weak fairness of the time limits and
the loop's own steps (that the rerun's send of `Abort` returns is what
`SendsReturn` says), strong fairness of the loop's `recv` (random `select!`) and of
each sender (tokio gives permits of a bounded channel in order of asking). Nothing
is assumed once the loop has returned: `main.rs:39-40` returns then and the
runtime drops the handlers, so a request may stay without an answer, and both
liveness properties except that case. Nor need the loop ever return.

## Proofs

`WorkerProofs` proves, for every choice of constants that satisfies
`ConstantsAssumption` and `TransitionsAssumption`:

1. `TypeCorrect`: `Spec => []TypeOK`.
2. `HandlesJoined`: `Spec => []HandlesAreJoined`. Not inductive alone: the loop
   blocked on an abort holds a runner that has left the map
   (`AbortedIsUnmapped`), and slots in use name real sessions (`SessionsNamed`).
3. `RowsBeforeTranscribed`: `Spec => []WrittenBeforeTranscribed`. Needs that a
   runner at its mark has written (`RowsBeforeMark`) and that before a rerun
   nothing is being aborted, cleared or detached (`NoAbortYet`); `RerunsCounted`
   makes "before a rerun" stable backwards.
4. `NoSessionOrphaned`: `Spec => []NoOrphanedSession`. The strengthening
   `FailedIsCovered` distinguishes a failed session, which only a runner that
   has not claimed yet or is about to report covers, from a claimed one. The
   argument per step: a run that ends leaves its session neither claimed nor
   failed, or passes it to the completion handler, which queues a retry or
   gives up; `TransitionsAssumption` is used where a 409 ends a run quietly.
5. `InvariantHolds`: `Spec => []IInv`, the conjunction of all of these.

`TransitionsAssumption` is what the worker relies on in the data-api: it accepts
a claim of an uploaded, claimed or failed session, and both ends of a claimed
one (comment at `session_runner.rs:275`).

`IngestProofs` proves, for every choice of constants that satisfies
`IngestAssumption` (so for any number of speakers, chunks and disturbances):

1. `IngestTypeCorrect`: `Spec => []TypeOK`.
2. `BookkeepingHolds`: `Spec => []BookkeepingAgrees`. Rests on `FirstGapFacts`:
   the drain loop ends at the first number that is not buffered. That the
   `CHOOSE` has such a number is shown with the least element of a set of
   naturals (`LeastNat`), as a recursive loop would need an induction.
3. `FeedIsInOrder`: `Spec => ImplementsDelivery`, the refinement. The invariant
   `OrderInv` adds what the step lemma needs beyond the bookkeeping: the log is
   0, 1, ... up to `next_expected` (`FedInOrder`), the runner and the channel
   know of uploaded chunks only (`OnlyUploaded`), and finalize is announced
   only after the recording (`EndedFirst`), so that a restart never reopens a
   closed feed. A feed of several drained chunks is one `Deliver`, taking the
   finalize is `Close`, everything else is `Upload`, `Restart` or a stutter.
4. `SegmentsStored`: `Spec => []SegmentsAreStored`, from `posted \subseteq store`:
   an id is remembered only after its POST has succeeded.
5. `UndisturbedRunIsWhole`: `Spec => []WholeIfUndisturbed`. The invariant
   `WholeInv` follows each uploaded chunk: until finalize is taken it is in the
   channel, buffered or seen (`Underway`); finalize is the last command
   (`FinalizeLast`) and what is recorded by then has no gap (`EndedWhole`), so
   nothing can be left in the buffer (`EndedIsSeen`). `BudgetBelow` makes a
   disturbance permanent.

`ListsProofs` has the lemmas about lists that the next module and the last one
rest on. The prover knows a recursive function by its equation only and cannot
instantiate the library's induction theorems, so there are two lemmas in their
place. `UpTo` is induction as a fact about a set: a set of numbers that has 0
and, with each number below N, the next one, has all up to N (its least missing
number would contradict that). `Recursion` is the existence of the values of a
bounded recursion, as a function. From these follow what a filter keeps
(`OnlySifts`), that a sum lies between as many times the least and the greatest
element (`TotalBetween`), what one more part adds to joined sequences
(`FlattenAppend`, `FlattenNext`), where parts of four elements lie
(`FlattenFours`), that a bounded set of numbers has one order and `Ascending` is
it (`SortedUnique`, `AscendingSorted`), and that the numbers of an interval in
order follow one another (`Consecutive`).

`RetryQueueProofs`, for every configuration, number of entries and lateness
(`QueueAssumption`):

1. `LoopConserves`, `TasksConserve`: `LoopSpec` and `TaskSpec` each keep
   `EntriesConserved`; inductive together with `TypeOK`.
2. `LoopImplements`, `TasksImplement`: both implement `DueQueue`.
3. `LoopNeverOversleeps`: `LoopSpec => []NoOversleep`. The strengthening
   `ShortSleep` also speaks of the future between its look at the heap and its
   wait: nothing is scheduled there, because the loop runs no handler meanwhile.
   In `TaskSpec` another task may, and `retry.rs:98` registers too late for its
   `notify_waiters`, so there is no such theorem.
4. `QueueTyped`: `LoopSpec => []TypeOK`. The backoffs are naturals because a
   filter of sound fields keeps only those (`BackoffsAreDurations`).

`TaskSpec` is proved about and not model-checked: the worker has one user of the
queue, the loop.

`ApiClientProofs`, for any sets of callers and tokens and any budget: the
invariant `ClientInv` is `TypeOK` with three parts. `FreshIsUnseen`: a token that
is about to be stored was refused to nobody. `RefusedIsGone`: a refused token is
no longer valid, so nobody can be issued it, and whoever authenticates ends with
another one stored. `RetriesCounted`: the count is below the limit wherever it
may be raised. It gives `ClientTypes`, `RefusedTokensAreReplaced` and
`BackoffsAreListed`.

`OutputRowsProofs`, for any number of runs, segments, retries, failures and
reruns: `RowsInv`, which the steps of one run keep by one lemma (`RunStep`), the
starts of runs by another (`StartStep`).

1. `MarkedIsWhole`: `Spec => []MarkedRunIsWhole`. What a run has stored follows
   from where it stands (`WrittenSoFar`), until a listing marks it cleared.
2. `UndisturbedIsClean`: `Spec => []UndisturbedRerunIsClean`. A run that is alone
   is the last one and nobody else is alive (`AloneIsLast`); while it is neither
   cleared nor was its clear disturbed, every row is its own, because the clear
   it followed listed all there was and found nobody alive (`ClearIsFair`).
3. `DeletesAreOfEarlierRuns`: `Spec => DeletesOnlyEarlierRuns`, and `RowsTyped`.
   The bound on attempts in `TypeOK`, the length of the schedule, needs
   `DueMayRetry`, that only a run before the last attempt waits for a retry; that a new run has no
   rows yet and is not the marked one needs `FreeAreLater` and `StartedOnly`.

`AdminSurfaceProofs`, for any number of requests and any capacity: `AnswersAreTrue`
and `AdminTyped`. `AdminInv` says that a command is in the channel once and has
caused nothing yet (`QueuedOnce`, `QueuedIsNew`, `UnsentIsNew`), and that the
rerun in the loop's hand has left the channel (`CommandInHand`).

`OneShotStepsProofs`, for any speakers, chunks, bytes, cuts, regions and replies
that satisfy `StepsAssumption` (finitely many speakers, bytes of an even number
of values). The three steps share no variable, so each has an invariant of its
own, and `StepsTyped`, `Spec => []TypeOK`, is of the three together.

1. `CollectHolds`, of the collection. While a speaker's chunks are downloaded,
   what was downloaded is in order and is all that was asked for but the skipped
   (`DownloadHolds`); a speaker to come has no track and, but for the one at
   hand, no skipped chunk (`TodoHolds`); each track is of one consenting speaker
   (`TracksHold`); and no consenting speaker with audio is forgotten
   (`NobodyForgotten`). That a listing has every element although only its length
   and its different elements are known is the pigeonhole principle. It gives
   `TracksAreWhole`, `NoTracksIsSilent` and, as the sorted chunks of an interval
   follow one another, `TracksAreOnClock`.
2. `DecodeHolds`, of the decoding. The chunks are a prefix of the captured bytes;
   what is streamed is at most the frames of the chunks taken, and exactly those
   if all cuts lie between frames. Two bytes are a sample and back because two
   bytes have as many values as there are samples (`TwoBytes`, `SampleIsBytes`);
   decoding distributes over joining at a frame's end (`DecodeJoined`), which is
   false elsewhere. It gives `FramesAreMeans` and `PathsAgree`.
3. `CallHolds`, of the whisper call. What was sent is the file of the region, and
   the confidence is that of the reply. It gives `HeaderIsTrue` and
   `ConfidenceIsGiven`; `RefusedIsOver` rests on a part of it, `RefusedLast`: a
   refusal is the last failure and fatal.

Every invariant, action property and refinement of the passing runs is stated by
one of these theorems. Only model-checked: the
liveness properties (`UploadedIsPickedUp`, `ClaimedIsResolved`, `SendsReturn`,
`DueEntriesAreTaken`, `DownloadsReturn`, `StoredTokenIsHealed`, `SocketReturns`,
`RequestsAreAnswered`, `CommandsAreDone`), which rest on fairness and `ENABLED`,
beyond this prover; and what the violation runs show.

## Not modelled

- Lengths of time: backoffs of the socket and of downloads, poll interval,
  request limits. Where a limit races an answer, either may come first.
- The time of the last heartbeat, which is shared and which nothing reads.
- Contents: parsing of socket messages, samples in a WAV file, form fields, the
  fields of rows, which the pipeline makes.
- Configuration other than the retry schedule, ids, the entry point: values read
  once, newtypes, wiring.
- A second worker process. Its claims appear as 409 through the status a session
  has; two event loops on one data-api are not composed.
- What the streaming path should do about consent: it feeds every announced
  chunk, and nothing in the repository says whether it may. `OneShotCollection`
  models the check the one-shot path makes.

## What could follow

1. Two workers racing for claims, composed from `SessionRunner`.
2. `Worker` composed with `RetryQueue`, replacing its bag of entries.
3. An abstract life cycle of a session (uploaded, claimed, written, marked) that
   `Worker` implements, proved as a refinement from `IInv`.
