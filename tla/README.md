# Verification of the tcglog-parser event-log reader

This directory holds TLA+ models of the TCG event-log reader in `src/log.go`,
with its event-data decoding (`src/tcgeventdata.go`). It also models the older copy of the reader in `src/unnamed/part_000`, and an
abstract specification of what a reader promises its consumer. TLC
configurations check the models on small logs. TLAPS proofs establish type
correctness, sticky failure and the per-PCR indices for every registry and
every source.

## The system

`NewLogFromByteReader` and `NewLogFromFile` call `newLogFromReader` (log.go
251-302). It works in four steps:

1. It records the source offset.
2. It reads the first record with a PC Client reader (`stream_1_2`).
3. From that record's decoded data it chooses the format (a Spec ID event's
   `Spec`) and the algorithm list: the advertised ones the registry knows, or
   SHA-1 alone.
4. It rewinds to the offset.

`NextEvent` calls `nextEventInternal` (304-331), which:

- refuses to read once `failed` is set;
- reads one record with the log's stream (`stream_1_2`, or `stream_2` for
  crypto-agile TCG_PCR_EVENT2 records; `stream_2` hands its first record to a
  PC Client reader, lines 124-127);
- sets `failed` on any error but `io.EOF`;
- assigns the per-PCR index from `indexTracker`;
- back-fills zero digests into a crypto-agile Spec ID event
  (`fixupSpecIdEvent`).

A reader (`readNextEvent`, 71-112 and 123-217) reads the fields in order and
returns early on every failure:

- EOF, wrapped by `wrapLogReadError` as a clean end or a truncation;
- a PCR index out of range;
- an unadvertised algorithm;
- a duplicate digest, or a missing digest.

It deletes the digests of algorithms outside the registry. It then decodes the
event data, and classifies a separator with `isDigestOfSeparatorErrorValue`
for one algorithm.

## Modules

| module | what it is |
|---|---|
| `TcgLog` | The reader and the driver. The source is a sequence of words (one word per integer field, `KnownAlgorithms[alg]` words per digest, `eventSize` words of data). `rd` holds the registers of the `readNextEvent` call in progress, with a program counter `rd.pc`; each field read is one action. The driver's variables are the `Log` struct's fields. `emitted` is the history of returned events, and `lastResult` is what the last call returned. |
| `TcgLogFormat` | The reference, written from the spec (sections 3, 4.2-4.4) and not from the code. It describes a log as records, encodes them in both layouts, and gives the events a reader must return: the records present, the well-formed prefix, per-PCR indices, the digests kept, the back-fill and the separator verdict. |
| `MCTcgLog` | The TLC instance. It enumerates the input logs, binds `src` to the input's encoding, and states the properties that compare the reader with the reference. The properties that hold for every source (`StickyFailure`, `EndOfLogIsFinal`, `IndicesCountEarlierEvents`, `DigestsMatchLogAlgorithms`) are in `TcgLog`, next to the actions. |
| `EventLog` | The abstract reader: a log is its sequence of events and whether it ends cleanly. `Return` hands out the next event, `End` reports io.EOF or an error once all are out. |
| `TcgLogOld` | The reader of `part_000`. It extends `TcgLog` and reuses its field reads and its open, which are the same code. It replaces the last read (`ReadEventOld`: no separator hash), the driver's end of `NextEvent` (`NextEventEndOld`) and the separator classifier (`SeparatorVerdicts`). |
| `MCTcgLogOld` | The TLC instance of `TcgLogOld`, on `MCTcgLog`'s inputs and properties. |
| `TcgLogProofs` | The TLAPS proofs of type correctness. |
| `TcgLogDriverProofs` | The TLAPS proofs of `StickyFailure` (for both readers), `IndicesCountEarlierEvents` and `EndOfLogIsFinal`. |
| `TcgLogDigestProofs` | The TLAPS proof of `DigestsMatchLogAlgorithms`. |
| `LogApi` | What a `Log` promises its caller, for any bytes it reads (spec sections 3, 4.4, 7). Opening fails or fixes the algorithms. `Return` hands out an event numbered within its PCR, with a digest for exactly the log's algorithms (the first event also for SHA-1). `End` gives io.EOF or an error, once. |
| `TcgLogApiProofs` | The TLAPS proof that the reader implements `LogApi` for every registry and source. |

### How TcgLog corresponds to the code

| action | code |
|---|---|
| `ReadPCRIndex`, `ReadEventType`, `ReadDigest12`, `ReadDigestCount`, `ReadAlgorithmId`, `ReadDigest2`, `CheckDigests`, `ReadEventSize`, `ReadEvent` | the field reads of `readNextEvent` (line ranges in `PROJECT.json`) |
| `OpenLog`, `FinishOpen` | the two halves of `newLogFromReader`, before and after its first read |
| `NextEventRefused`, `NextEventBegin`, `NextEventEnd` | `nextEventInternal`: the refusal, the call to the stream, and the handling of its result |
| `Terminated` | the consumer stopping after a failed open or a panic |

`ReadDigest12` keeps the `s.r.Read` short-read behaviour. `ReadDigest2` reads
the advertised size, which is never checked against the registry.

`ReadEvent` ends with the separator check of lines 104 and 209,
`isDigestOfSeparatorErrorValue(digests[alg], alg)`. That check calls
`hashSum` (log.go:46), which is not in the tree (`utils.go`'s `hash` is not
called by the reader). The model treats it in three ways:

- For a registry algorithm it is the error value's hash (spec 4.1).
- `stream_2` indexes `s.algSizes[0]`, and an empty list panics
  (`AlgSizesEmpty`).
- For an algorithm outside the registry (`HashSumUnknownAlg`), whose digest
  line 196 deleted, `hashSum`'s result is unknown. `ReadEvent` chooses among
  a panic and both answers of the check (`SeparatorCheckResults`).

`DecodeEventData` covers only what the driver looks at: Spec ID kind and
sizes, invalid Spec ID (`WrapSpecIdEventReadError`), and the separator flag
(`DecodeEventDataSeparator`). The EFI 2 Spec ID parser and
`decodeEventData` are not in the tree; they are modelled from spec section 4.2.

### The older reader

`part_000` differs from `log.go` in three places:

- Its readers decode the event data without hashing anything.
- Its `NextEvent` classifies a separator after indexing it
  (`classifySeparatorEvent`). The classifier takes the first entry of a
  `range` over the digest map and breaks. Go's map order is unspecified, so
  `SeparatorVerdicts` offers the verdict of every digest and `NextEventEndOld`
  picks one.
- Its `NextEvent` sets `failed` on every error, io.EOF included
  (`MarksFailedOld`).

### The refinement

`MCTcgLog` maps the reader's state onto `EventLog`:

- `log` is `AbstractLogOf(input)`. Its events are the reference's events of the
  well-formed prefix. It is clean when it has a record, no defect, and ends at a
  record boundary.
- `returned` is `emitted`.
- `outcome` is `"eof"` after io.EOF and `"error"` after any other error,
  including a failed open and the "inconsistent" refusal.

All the micro-steps of a read, and the opening, are stutters of `EventLog`.
Returning an event is `Return`. The first io.EOF or error is `End`. A repeated
io.EOF, or a refusal after an error, stutters. The property checked is
`EventLogRefined == EL!FairSpec`: the safety part and, under fairness, that the
end is eventually reported.

### The refinement of LogApi

`TcgLog` maps its state onto `LogApi` (`API == INSTANCE LogApi WITH ...`):

- `opened` holds while the phase is `idle`, `reading` or `panicked`;
- `algs` is `algorithms`, and `returned` is `emitted`;
- `outcome` (`ApiOutcome`) is `"eof"` after io.EOF, `"error"` once the log
  failed or the open failed, and `"none"` otherwise.

`FinishOpen` is `Open` or `OpenFail`. `NextEventEnd` is `Return` when it
returns an event. Its first io.EOF or error is `End`. Every other step is a
stutter: the field reads, a refused call, and a repeated io.EOF.
`ApiRefined == API!Spec` is the safety property. Unlike `EventLogRefined`,
its mapping does not use the reference, so it can be stated and proved for
every source.

## Runs

The runs use `MCTcgLog`, or `MCTcgLogOld` for the older reader. In it:

- the registry is SHA-1 (2 words) and SHA-256 (3 words);
- SM3 (18, 1 word) is an advertised algorithm outside the registry;
- 99 is never advertised.

| run | cfg | expect | shows |
|---|---|---|---|
| `reader_faithful` | `MCTcgLog.cfg` | pass | For every input below, the reader returns exactly the reference's events in order (`EventsFaithful`). It reports `io.EOF` only at a complete end (`EndOfLogOnlyAtEnd`) and errors only at a defect, after every earlier record (`ErrorsOnlyAtDefects`). Digests are exactly the log's algorithms (`DigestsMatchLogAlgorithms`). After a failure it never reads or returns again (`StickyFailure`, an action property). After io.EOF every later call returns io.EOF again and no event (`EndOfLogIsFinal`, an action property). Each event's index is the number of earlier events of its PCR (`IndicesCountEarlierEvents`). `TypeOK` holds throughout. 202,392 distinct states, about 30 s. The SM3-first log is left out (`MCKnownHashSpec`): on it `hashSum` may flag the separator as an error, and which it does cannot be read from this tree. |
| `reader_refines_eventlog` | `MCTcgLogRefines.cfg` | pass | Under weak fairness the reader implements `EventLog` (`EventLogRefined`): it returns the log's events in order, then reports io.EOF for a clean log and an error otherwise, and repeats that answer. 202,392 states. The SM3-first log is left out: what the reader does on it depends on `hashSum`, which is not in the tree. |
| `reader_implements_logapi` | `MCTcgLogApi.cfg` | pass | On the same inputs the reader implements `LogApi` (`ApiRefined`). Each event is numbered within its PCR and has exactly the log's digests. The end of the log is a final answer. It includes the SM3-first log, with every outcome of `hashSum` there: a panic, or either answer of the check. 202,432 states, about 35 s. |
| `old_reader_faithful` | `MCTcgLogOld.cfg` | pass | The older reader returns the reference's events (`EventsFaithful`) and never reads after failing (`StickyFailure`). 201,937 states. Its separator banks agree on these inputs. |
| `old_reader_eof_fails` | `MCTcgLogOldEof.cfg` | violation | After a clean io.EOF the older reader answers the next call with "log status inconsistent" (`EventLogRefined`, spec 4.4). |
| `old_separator_map_order` | `MCTcgLogOldSeparator.cfg` | violation | The older reader can classify a separator with the error digest in one bank as normal, depending on map order (`SeparatorClassification`, spec 4.2). |
| `separator_first_bank` | `MCTcgLogSeparator.cfg` | violation | A separator whose error digest is only in the second bank is classified as normal (`SeparatorClassification`, spec 4.2). |
| `advertised_digest_size` | `MCTcgLogDigestLength.cfg` | violation | An advertised SHA-256 size of 2 yields 2-word SHA-256 digests (`DigestLengthsMatchRegistry`, spec 3). |

**Inputs and bounds.** Each log has a first record and two more (`MaxRest = 2`).

- Crypto-agile logs advertise {SHA-1}, {SHA-1, SHA-256}, {SHA-1, SM3} or {SHA-256}.
- Legacy logs start with a PC Client Spec ID event or an ordinary event.
- Later records are on PCR 0 or 1, so indices repeat and interleave. They are
  separators with the error digest, separators without it, or actions. Their
  digests are in the advertised order or reversed.

Every input is checked:

- cut at every word, so truncations land inside every field;
- with each later record corrupted once: PCR 32, a duplicated digest, a
  missing digest, or an unadvertised algorithm;
- and in two more cases: a Spec ID event missing its last field, and the SM3-first log
  (in `reader_implements_logapi` only).

Three records are the fewest that give:

- a PCR index repeated after another PCR's event;
- a defect after a good record;
- the first record read twice.

Every action, and every disjunct of every action, fires in the passing run
(checked with `-coverage`).

**Mutants.** Each property of the passing run is broken by one plausible bug:

| property | bug |
|---|---|
| `EndOfLogOnlyAtEnd` | the partial flag is ignored |
| `ErrorsOnlyAtDefects` | the registry is consulted instead of the Spec ID list |
| `TypeOK` | unknown digests are kept |
| `StickyFailure` | only a truncation marks the log failed |
| `EventsFaithful` | a new PCR's first event gets index 1 |
| `DigestsMatchLogAlgorithms` | the back-fill is skipped |
| `IndicesCountEarlierEvents` | a new PCR's first event gets index 1 |
| `EndOfLogIsFinal` | io.EOF marks the log failed |
| `EventLogRefined` | io.EOF marks the log failed |
| `ApiRefined` | the back-fill is skipped |
| `EventsFaithful` (older reader) | the separator is left unclassified |
| `StickyFailure` (older reader) | only a truncation marks the log failed |

**Fairness.** Only `reader_refines_eventlog` (and the older reader's
counterpart) assumes any fairness: weak fairness of the whole next-state relation,
`WF_<<vars, input>>(MCNext)`. The program is single-threaded. The consumer
(`ParseAndValidateLog`, the command) calls `NextEvent` until it returns io.EOF or
an error, and a running call is never abandoned. So a step that stays possible
is eventually taken. No fairness between actors is needed, because there is
only one. Without fairness the liveness part fails: the consumer may stop
calling.

## Findings

1. **Divergence from the spec.** The separator is classified by the first
   advertised bank only. Spec 4.2 says "any present algorithm".
2. **Gap.** Advertised digest sizes are never checked against the registry
   (log.go:157-171), so digests of the wrong length are returned.
3. **Divergence in the older reader, part_000:341.** `NextEvent` sets
   `failed` on io.EOF, so the call after a clean end returns an error. Spec
   4.4 says only an error other than a clean end sets the flag.
4. **Divergence in the older reader, part_000:225.** A separator is judged by
   the first digest of a map iteration, so the verdict depends on Go's random
   map order.

## Proofs

`TcgLogProofs` proves `THEOREM TypeCorrect == LogSpec => []TypeOK`. It holds
for every `KnownAlgorithms` and `Sources` that satisfy the named assumptions:

- `KnownAlgorithmsAssumption`: SHA-1 is known, the ids are naturals, and the
  lengths are positive;
- `SourcesAssumption`: the sources are word sequences.

`TypeOK` includes that every returned event is a record with a PCR index in
0..31 whose digests are all registry algorithms. It is not inductive by
itself. `ReadEvent` makes the registers' digests the event's, so they must
already be registry algorithms in the states from which `ReadEvent` can run.

The inductive invariant is `IInv == TypeOK /\ ReaderDigestsKnown(rd)`:
whenever `rd.pc` is `eventSize` or `event`, the digests are registry
algorithms. That holds because the only two ways there are:

- `ReadDigest12`, which stores a SHA-1 digest;
- `CheckDigests`, after `KeepKnown` deleted the unknown algorithms.

The proof has one lemma per action (`ReadPCRIndexInv` ... `NextEventEndInv`),
and helper lemmas for `Append`, the back-fill, the index tracker and record
updates. The theorem combines them by PTL.

`TcgLogDriverProofs` proves four more theorems. They hold under the same
assumptions, and the last two rest on `TypeCorrect`:

- `THEOREM StickyFailureHolds == LogSpec => StickyFailure`. Its invariant
  `StickyInv` says that a failed log is idle, and that after an open error the
  phase is `openFailed` (or idle and failed). From such a state only
  `NextEventRefused` and `Terminated` can run, and neither moves the offset or
  returns an event. The lemma `ReadStepFrame` shows that the field reads never
  touch the driver's variables.
- `THEOREM IndicesCorrect == LogSpec => []IndicesCountEarlierEvents`. The
  property alone is not inductive, because the next index comes from the
  tracker. `IndexInv` adds that each PCR's tracker entry equals the number of
  its events returned so far (`PCRCount`), and that nothing is returned before
  the log is open. The lemma `PCRCountAppend` says how the count changes when
  an event is appended.
- `THEOREM EndOfLogFinal == LogSpec => EndOfLogIsFinal`. Its invariant
  `EofInv` says three things. A reader that has not stopped has no error. A
  read stops with io.EOF only at the end of the source, because io.EOF can
  come only from the PCR index read with `Remaining = 0` (every other read
  passes `partial` and gets io.ErrUnexpectedEOF). After `NextEvent` returned
  io.EOF the log is unfailed, the offset is at the end, and a running read is
  still at its first field or has stopped with io.EOF. So the next call can
  only read the PCR index at the end again (`ReadStepEof`).
- `THEOREM OldStickyFailureHolds == OldSpec => StickyFailure`, the same
  result for the older reader. Its step proof cites `StickyInvStep` for the
  actions the two readers share. It proves only `NextEventEndOld`, which marks
  the log failed on every error, and `ReadEventOld` afresh.

`TcgLogDigestProofs` proves `THEOREM DigestsMatchAlgorithms == LogSpec =>
[]DigestsMatchLogAlgorithms`. This is the three-step protocol of log.go lines
183-196 and 219-235, plus the replay of lines 124-127. The property alone is
far from inductive. Its invariant `DigestInv` adds:

- `OnFirstRecord`: while the first record is read, by `newLogFromReader` or
  again by `stream_2`'s first call, every register is pinned to the fixed
  offsets of the PC Client layout from `start`: PCR at `start + 1`, type at
  `start + 2`, the size at `FirstSizeAt`, and the data after it.
- `FirstRecordOK`: once a crypto-agile log is open, the words at those offsets
  form a valid EFI 2 Spec ID event. So the re-read cannot fail and decodes
  the same event, whose back-fill (`FixupDomain`) adds every log algorithm.
- `ReaderDigests`: the digest domain of every reader register.
  - A PC Client reader holds only SHA-1.
  - A crypto-agile reader holds advertised algorithms while it loops, and
    exactly the log's algorithms once `CheckDigests` has passed. That needs
    `algorithms = AlgIds(algSizes) \cap DOMAIN KnownAlgorithms`, which is
    fixed at the open.
- The bookkeeping of `readFirstEvent`: nothing has been returned exactly
  while the first event is still pending.

TLC checked `DigestInv` as an invariant of the `reader_faithful` instance
(202,418 states) before it was proved. There is one lemma per action, and
`DigestInvStep` combines them. The theorem joins that with `TypeCorrect` by
PTL.

`TcgLogApiProofs` proves `THEOREM LogImplementsApi == LogSpec => ApiRefined`,
that the reader implements `LogApi`. The proof has the layout of a refinement
proof:

- `Init => API!Init`;
- a step lemma, `ApiStep`: `ApiInv /\ ApiInv' /\ [Next]_vars =>
  [API!Next]_API!vars`;
- PTL combines them with `[]ApiInv`.

`ApiInv` is the conjunction of the invariants proved before: `TypeOK`,
`StickyInv`, `EofInv`, `DigestInv`, `IndicesCountEarlierEvents` and
`DigestsMatchLogAlgorithms`. It adds one new invariant, `OpenInv`: before the
open ends, nothing has been answered. `ApiStep` has one case per action:

- `FinishOpen` is `OpenFail` or `Open`. `OpenInv` gives `outcome = "none"`,
  and `TypeOK'` gives that the algorithms are known ones.
- `NextEventEnd` returning an event is `Return` (lemma `ReturnStep`). The
  index comes from `IndicesCountEarlierEvents'`, and the digests from
  `DigestsMatchLogAlgorithms'`.
- `NextEventEnd` with an error is `End`, unless it repeats io.EOF, which
  `EofInv` makes a stutter.
- A field read changes no mapped variable (`ReadStepFrame`). It can move the
  phase only to `panicked`. `PanicOnlyWhenOpen` shows that it never does so
  while opening: by `DigestInv` the opening reader reads the PC Client layout,
  and the panic is only in `stream_2`'s separator check.

Left to TLC:

- `EventsFaithful`, `EndOfLogOnlyAtEnd` and `ErrorsOnlyAtDefects`. They
  compare the reader with the reference verdict of the MC input
  (`input.expected`, `input.good`, `input.bounds`). Stating them for every
  source needs that verdict as a function of the source, and what a recursive
  decoding computes for every input is induction over data;
- the liveness part of `EventLogRefined`, and the refinement itself.
  The mapping goes through the reference's encoding of a log (`TcgLogFormat`).
  A proof would need induction over that encoding, which the prover cannot
  instantiate, so the refinement is left to TLC.

The prover cannot instantiate induction over data or `ENABLED`, and it loses
its SMT backend in modules with `RECURSIVE` operators. The modules proved
about therefore use none.

## Not modelled

- The CLI in `tcglog-validate/main.go`: pure I/O.
- `ParseAndValidateLog`: not in the tree.
- `hashSum`, which the separator check calls: not in the tree. `utils.go`'s
  `hash` is not called by the reader, so it is not modelled either.
- Formatting helpers.
- The EFI variable, image, GPT and other decoders.
- Seek errors, which cannot happen on the two public sources.
- The memory allocated for an untrusted event size.
- Options (GRUB), which are lost on the first crypto-agile event, in both
  readers.

## Plan for later work

- Prove the safety part of the `EventLog` refinement for every log.
  That needs an abstract log of a source that is not defined through the
  recursive reference encoding. `LogApi` already states, and proves, what
  holds without the reference.
- Check the older reader against `EventLog` on inputs whose separators
  disagree, once a deterministic classifier is chosen for it.
