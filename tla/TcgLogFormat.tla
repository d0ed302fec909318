---------------------------- MODULE TcgLogFormat ----------------------------
(***************************************************************************)
(* The reference the reader is checked against: a log described record by *)
(* record, its encoding into words in the layouts of spec section 4.3 (the *)
(* PC Client record for every event of a legacy log and for the first     *)
(* event of a crypto-agile log, TCG_PCR_EVENT2 for the others), and the    *)
(* events spec sections 3, 4.3 and 4.4 say a reader returns for it.  None  *)
(* of this is read from the reader's code.                                 *)
(***************************************************************************)
EXTENDS TcgLog, FiniteSets
LOCAL INSTANCE SequencesExt

EventTypeAction == 5

(* A record: PCR index, event type, its digest list (pairs of algorithm id *)
(* and digest, in log order) and an abstract payload: "specid00",          *)
(* "specid03" with its (algorithm, size) list, "specid03broken" (the same  *)
(* with its last field missing), "separator" or "action".                  *)
PayloadWords(pl) ==
  CASE pl.kind = "specid00"       -> <<SigSpecIdEvent00, 0>>
    [] pl.kind = "specid03"       -> <<SigSpecIdEvent03, Len(pl.sizes)>> \o FlattenSeq(pl.sizes) \o <<0>>
    [] pl.kind = "specid03broken" -> <<SigSpecIdEvent03, Len(pl.sizes)>> \o FlattenSeq(pl.sizes)
    [] pl.kind = "separator"      -> <<0>>
    [] OTHER                      -> <<1>>

EncodeRecord(r, layout) ==
  LET data == PayloadWords(r.payload) IN
  IF layout = "1.2"
  THEN <<r.pcr, r.type>> \o r.digests[1][2] \o <<Len(data)>> \o data
  ELSE <<r.pcr, r.type, Len(r.digests)>>
         \o FlattenSeq([j \in DOMAIN r.digests |-> <<r.digests[j][1]>> \o r.digests[j][2]])
         \o <<Len(data)>> \o data

(* An input: the records, whether the log is crypto-agile, and how many    *)
(* words of the encoding the source holds.                                 *)
Layout(inp, k) == IF k = 1 \/ ~inp.efi2 THEN "1.2" ELSE "2"
Encoded(inp, k) == FlattenSeq([j \in 1..k |-> EncodeRecord(inp.recs[j], Layout(inp, j))])
Boundary(inp, k) == Len(Encoded(inp, k))
SourceOf(inp) == SubSeq(Encoded(inp, Len(inp.recs)), 1, inp.cut)

Advertised(inp) == inp.recs[1].payload.sizes

\* The records wholly inside the source.
Present(inp) == CHOOSE k \in 0..Len(inp.recs) :
                  /\ Boundary(inp, k) <= inp.cut
                  /\ k < Len(inp.recs) => Boundary(inp, k + 1) > inp.cut

\* A record a reader must accept (spec 4.3): PCR in range, a well-formed
\* payload, one SHA-1 digest in the PC Client layout, and in the crypto-agile
\* layout exactly one digest of the advertised size per advertised algorithm.
WellFormed(inp, k) ==
  LET r == inp.recs[k]
      ids == {r.digests[j][1] : j \in DOMAIN r.digests}
  IN /\ r.pcr <= MaxPCRIndex
     /\ r.payload.kind # "specid03broken"
     /\ Layout(inp, k) = "1.2" =>
          /\ Len(r.digests) = 1
          /\ r.digests[1][1] = AlgorithmSha1
          /\ Len(r.digests[1][2]) = KnownAlgorithms[AlgorithmSha1]
     /\ Layout(inp, k) = "2" =>
          /\ ids = AlgIds(Advertised(inp))
          /\ Cardinality(ids) = Len(r.digests)
          /\ \A j \in DOMAIN r.digests :
               Len(r.digests[j][2]) = AdvertisedSize(Advertised(inp), r.digests[j][1])

\* The records a reader returns before it must stop.
GoodPrefix(inp) == CHOOSE k \in 0..Present(inp) :
                     /\ \A j \in 1..k : WellFormed(inp, j)
                     /\ k < Present(inp) => ~WellFormed(inp, k + 1)

\* The log's algorithms (spec 4.4): the advertised ones the registry knows.
LogAlgorithms(inp) ==
  IF inp.efi2 THEN AlgIds(Advertised(inp)) \cap DOMAIN KnownAlgorithms ELSE {AlgorithmSha1}

\* The digests as read: the registry's algorithms only (spec 4.3).
ReadDigests(r) ==
  [a \in {r.digests[j][1] : j \in DOMAIN r.digests} \cap DOMAIN KnownAlgorithms |->
     r.digests[CHOOSE j \in DOMAIN r.digests : r.digests[j][1] = a][2]]

\* The Spec ID back-fill (spec 4.4) for the first event of a crypto-agile log.
ExpectedDigests(inp, k) ==
  LET m == ReadDigests(inp.recs[k]) IN
  IF k = 1 /\ inp.efi2
  THEN [a \in DOMAIN m \cup LogAlgorithms(inp) |-> IF a \in DOMAIN m THEN m[a] ELSE ZeroDigest(a)]
  ELSE m

\* Separator classification (spec 4.2): an error separator iff its digest
\* in some present algorithm is the hash of the error value.
ExpectedData(inp, k) ==
  LET r == inp.recs[k]
      m == ReadDigests(r)
  IN CASE r.payload.kind = "specid00" -> [NoData EXCEPT !.kind = "specid", !.spec = "pcclient"]
       [] r.payload.kind = "specid03" -> [NoData EXCEPT !.kind = "specid", !.spec = "efi2",
                                                        !.digestSizes = r.payload.sizes]
       [] r.payload.kind = "separator" ->
            [NoData EXCEPT !.kind = "separator",
                           !.isError = \E a \in DOMAIN m : IsDigestOfSeparatorErrorValue(m[a], a)]
       [] OTHER -> NoData

\* Per-PCR zero-based index in file order (spec 3).
ExpectedIndex(inp, k) == Cardinality({j \in 1..(k - 1) : inp.recs[j].pcr = inp.recs[k].pcr})

ExpectedEvent(inp, k) ==
  [pcrIndex |-> inp.recs[k].pcr, eventType |-> inp.recs[k].type,
   digests |-> ExpectedDigests(inp, k), index |-> ExpectedIndex(inp, k),
   data |-> ExpectedData(inp, k)]

=============================================================================
