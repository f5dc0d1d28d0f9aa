--------------------------- MODULE NmeaSatellites ---------------------------
(***************************************************************************)
(* The satellite bookkeeping of the NMEA decoder (NmeaProtocolPlugin).     *)
(*                                                                         *)
(* A receiver reports its satellites epoch by epoch.  GSV sentences list   *)
(* the satellites in view, a few to a sentence and signal by signal; GSA   *)
(* sentences list those used in the fix.  The decoder has to rebuild both  *)
(* sets from single sentences, any of which may be lost (a checksum that   *)
(* does not match, bytes that never arrived), and without being told where *)
(* an epoch begins or ends.                                                *)
(*                                                                         *)
(* Talkers are represented by the constellation that                       *)
(* constellationFromTalker gives them, or the system id in the GSA of      *)
(* talker GN; a receiver has one for its GSV and its GSA.  Elevation,      *)
(* azimuth and C/N0 are left out.  A satellite is its key; usedInFix is    *)
(* membership in lit.                                                      *)
(***************************************************************************)
EXTENDS Naturals, FiniteSets

CONSTANTS
  RawIds,     \* satellite numbers as they stand in the sentences
  SignalIds,  \* signal ids of a receiver that sends them
  Tracked,    \* by signal id, or 0 for all signals: ids it may report
  Talkers,    \* constellations of the talkers the receiver may have
  PerGsv,     \* satellites in one GSV sentence (4 in NMEA)
  PerGsa      \* satellites in one GSA sentence (12 in NMEA)

InferConstellation(raw) ==
  IF raw \in 1..32 THEN "GPS"
  ELSE IF raw \in 120..158 THEN "SBAS"
  ELSE IF raw \in 65..96 THEN "GLONASS"
  ELSE IF raw \in 193..200 THEN "QZSS"
  ELSE IF raw \in 201..237 THEN "BEIDOU"
  ELSE IF raw \in 301..336 THEN "GALILEO"
  ELSE IF raw \in 401..414 THEN "NAVIC"
  ELSE "GNSS"

NormalizeNmeaSatellite(c, raw) ==
  IF c \in {"GPS", "GNSS"} /\ raw \in 33..64
  THEN [constellation |-> "SBAS", svid |-> raw + 87]
  ELSE [constellation |-> IF c = "GNSS" THEN InferConstellation(raw) ELSE c,
        svid          |-> raw]

(* updateUsedSatellites regroups ids of an unknown constellation by the    *)
(* same inference, so the model takes only ids that have one.              *)
ASSUME KnownIds ==
  \A c \in Talkers, raw \in RawIds :
     NormalizeNmeaSatellite(c, raw).constellation # "GNSS"
ASSUME SentenceSizes == PerGsv \in Nat \ {0} /\ PerGsa \in Nat \ {0}
ASSUME SignalsAreNumbered ==
  /\ SignalIds \subseteq Nat \ {0}
  /\ Tracked \in [SignalIds \cup {0} -> SUBSET RawIds]

KeyOf(c, signal, raw) ==
  LET n == NormalizeNmeaSatellite(c, raw)
  IN  [constellation |-> n.constellation, signal |-> signal, svid |-> n.svid]

Constellations == Talkers \cup
  {NormalizeNmeaSatellite(c, raw).constellation : c \in Talkers, raw \in RawIds}
Keys    == {KeyOf(c, s, raw) : c \in Talkers, s \in SignalIds \cup {0}, raw \in RawIds}
Signals == Constellations \X (SignalIds \cup {0})
Svids   == {k.svid : k \in Keys}

VARIABLES
  sats,       \* m_satellites of the decoder: the keys
  lit,        \* those of them with usedInFix
  used,       \* m_usedSatelliteIdsByConstellation: <<constellation, signal>> to ids
  seen,       \* m_seenGsvSignalsByConstellation as pairs
  updated,    \* m_updatedGsaSignalsByConstellation as pairs
  style,      \* how this receiver forms its sentences
  truth,      \* what it reports in this epoch
  gsvLeft,    \* what it has still to report: the ids of each signal in GSV
  gsaLeft,    \* and in GSA sentences
  number,     \* of the last GSV sentence, 0 before the first of the epoch
  intact,     \* nothing of this epoch was lost so far
  intactLast  \* nothing of the previous epoch was lost

decoder  == <<sats, lit, used, seen, updated>>
receiver == <<style, truth, gsvLeft, gsaLeft, number, intact, intactLast>>
vars     == <<decoder, receiver>>
-----------------------------------------------------------------------------
(* The receiver.                                                           *)

(* A receiver sends signal ids or not, in GSV and in GSA, its GSA before   *)
(* or after its GSV, and numbers GSV sentences per signal or through.  In  *)
(* the GSA of talker GN the decoder finds no signal id.                    *)
Styles ==
  {st \in [talker : Talkers, gsv : {{0}, SignalIds}, gsa : {{0}, SignalIds},
           gsaFirst : BOOLEAN, perSignal : BOOLEAN] :
     /\ st.talker = "GNSS" => st.gsa = {0}
     /\ st.perSignal => st.gsv = SignalIds}

(* A satellite in use is in view, on the same signal where both tell it. *)
Truths(st) ==
  {t \in [view : [st.gsv -> SUBSET RawIds], used : [st.gsa -> SUBSET RawIds]] :
     /\ \A s \in st.gsv : t.view[s] \subseteq Tracked[s]
     /\ \A s \in st.gsa :
          t.used[s] \subseteq IF s \in st.gsv THEN t.view[s]
                              ELSE UNION {t.view[v] : v \in st.gsv}}

(* The sentences of an epoch go through the signals in ascending order;    *)
(* one has as many ids as it can take, the lowest first.                   *)
FirstSignal(left, s) == s \in DOMAIN left /\ \A other \in DOMAIN left : s <= other
FirstIds(left, ids, n) ==
  /\ ids \subseteq left /\ Cardinality(ids) <= n
  /\ ids = left \/ Cardinality(ids) = n
  /\ \A id \in ids, other \in left \ ids : id < other

(* What is left of the ids of each signal when ids were sent of signal s.  *)
Less(left, s, ids) ==
  IF left[s] = ids THEN [other \in DOMAIN left \ {s} |-> left[other]]
                   ELSE [left EXCEPT ![s] = @ \ ids]

GsvComplete == DOMAIN gsvLeft = {}
GsaComplete == DOMAIN gsaLeft = {}

NumberOf(s) ==
  IF style.perSignal /\ gsvLeft[s] = truth.view[s] THEN 1 ELSE number + 1

SendGsv(s, ids) ==
  /\ style.gsaFirst => GsaComplete
  /\ FirstSignal(gsvLeft, s) /\ FirstIds(gsvLeft[s], ids, PerGsv)
  /\ gsvLeft' = Less(gsvLeft, s, ids)
  /\ number' = NumberOf(s)
  /\ UNCHANGED <<style, truth, gsaLeft, intactLast>>

SendGsa(s, ids) ==
  /\ ~style.gsaFirst => GsvComplete
  /\ FirstSignal(gsaLeft, s) /\ FirstIds(gsaLeft[s], ids, PerGsa)
  /\ gsaLeft' = Less(gsaLeft, s, ids)
  /\ UNCHANGED <<style, truth, gsvLeft, number, intactLast>>

(* A GSA is sent for a signal without satellites in use as well, a GSV is  *)
(* not for a signal without satellites in view.                            *)
NewEpoch ==
  /\ GsvComplete /\ GsaComplete
  /\ \E t \in Truths(style) :
       /\ truth' = t
       /\ gsvLeft' = [s \in {s \in style.gsv : t.view[s] # {}} |-> t.view[s]]
       /\ gsaLeft' = t.used
  /\ number' = 0
  /\ intactLast' = intact
  /\ intact' = TRUE
  /\ UNCHANGED <<decoder, style>>
-----------------------------------------------------------------------------
(* The decoder.                                                            *)

IsSatelliteUsed(k) ==
  LET exact == <<k.constellation, k.signal>>
      any   == <<k.constellation, 0>>
  IN  IF exact \in DOMAIN used THEN k.svid \in used[exact]
      ELSE k.signal # 0 /\ any \in DOMAIN used /\ k.svid \in used[any]

(* The first sentence starts a cycle.  The mutant takes numbers to count   *)
(* from 0.                                                                 *)
StartsAtZero(n) == n < 1
StartsCycle(n) == n <= 1

(* Of a signal seen for the first time in a cycle the old satellites go. *)
OldOfSignal(c, signal) ==
  {k \in sats : k.signal = signal /\ (c = "GNSS" \/ k.constellation = c)}

OfOthers(pairs, c) == {p \in pairs : p[1] # c}

(* The satellites of the sentence are marked afresh, the others keep their *)
(* marks.  The mutant keeps those of satellites that are gone, too.        *)
AllMarks(kept, fresh) == (lit \ fresh) \cup {k \in fresh : IsSatelliteUsed(k)}
Marks(kept, fresh) ==
  ((lit \cap kept) \ fresh) \cup {k \in fresh : IsSatelliteUsed(k)}

(* The nth sentence of a cycle of talker c lists ids for a signal. *)
Gsv(c, n, signal, ids) ==
  LET seenBefore == IF StartsCycle(n) THEN OfOthers(seen, c) ELSE seen
      kept  == IF <<c, signal>> \in seenBefore THEN sats ELSE sats \ OldOfSignal(c, signal)
      fresh == {KeyOf(c, signal, raw) : raw \in ids}
  IN  /\ seen' = seenBefore \cup {<<c, signal>>}
      /\ updated' = IF StartsCycle(n) THEN OfOthers(updated, c) ELSE updated
      /\ sats' = kept \cup fresh
      /\ lit' = Marks(kept, fresh)
      /\ UNCHANGED used

(* The ids of a sentence by their constellation; an empty sentence is one  *)
(* empty group of its talker's, and nothing if the talker is GNSS.         *)
Groups(c, raws) ==
  LET ns == {NormalizeNmeaSatellite(c, raw) : raw \in raws}
  IN  IF raws = {} THEN [d \in {c} \ {"GNSS"} |-> {}]
      ELSE [d \in {n.constellation : n \in ns} |->
              {n.svid : n \in {n \in ns : n.constellation = d}}]

(* Ids add up within an update round and replace the old ones in a new     *)
(* one.  The mutant always adds.                                           *)
AlwaysMerged(pair, ids) == IF pair \in DOMAIN used THEN ids \cup used[pair] ELSE ids
Merged(pair, ids) ==
  IF pair \in updated /\ ids # {} /\ pair \in DOMAIN used
  THEN ids \cup used[pair] ELSE ids

UpdateUsedSatellites(groups, signal) ==
  LET pairs   == {<<d, signal>> : d \in DOMAIN groups}
      usedNew == [p \in pairs \cup DOMAIN used |->
                    IF p \in pairs THEN Merged(p, groups[p[1]]) ELSE used[p]]
      touches(k) == /\ <<k.constellation, signal>> \in pairs
                    /\ \/ k.signal = signal
                       \/ /\ signal > 0 /\ k.signal = 0
                          /\ <<k.constellation, 0>> \notin DOMAIN usedNew
  IN  /\ updated' = updated \cup pairs
      /\ used' = usedNew
      /\ lit' = {k \in sats : IF touches(k)
                              THEN k.svid \in usedNew[<<k.constellation, signal>>]
                              ELSE k \in lit}

Gsa(c, signal, ids) ==
  /\ UpdateUsedSatellites(Groups(c, ids), signal)
  /\ UNCHANGED <<sats, seen>>

ReceiveGsv(s, ids) ==
  /\ SendGsv(s, ids)
  /\ Gsv(style.talker, NumberOf(s), s, ids)
  /\ UNCHANGED intact

ReceiveGsa(s, ids) ==
  /\ SendGsa(s, ids)
  /\ Gsa(style.talker, s, ids)
  /\ UNCHANGED intact

(* A sentence whose checksum does not match decodes to nothing.  Bound: an *)
(* epoch suffers one loss or one new session at most.                      *)
LoseSentence(s, ids) ==
  /\ intact
  /\ SendGsv(s, ids) \/ SendGsa(s, ids)
  /\ intact' = FALSE
  /\ UNCHANGED decoder

NothingUsed == [p \in {} |-> {}]

(* A new session resets the decoder. *)
StartSession ==
  /\ intact
  /\ sats' = {} /\ lit' = {} /\ used' = NothingUsed /\ seen' = {} /\ updated' = {}
  /\ intact' = FALSE
  /\ UNCHANGED <<style, truth, gsvLeft, gsaLeft, number, intactLast>>
-----------------------------------------------------------------------------
Init ==
  /\ sats = {} /\ lit = {} /\ used = NothingUsed /\ seen = {} /\ updated = {}
  /\ style \in Styles
  /\ truth = [view |-> [s \in style.gsv |-> {}], used |-> [s \in style.gsa |-> {}]]
  /\ gsvLeft = [s \in {} |-> {}] /\ gsaLeft = [s \in {} |-> {}] /\ number = 0
  /\ intact = FALSE /\ intactLast = FALSE

Next ==
  \/ NewEpoch
  \/ \E s \in SignalIds \cup {0}, ids \in SUBSET RawIds :
       ReceiveGsv(s, ids) \/ ReceiveGsa(s, ids) \/ LoseSentence(s, ids)
  \/ StartSession

Spec == Init /\ [][Next]_vars
-----------------------------------------------------------------------------
(* Types: the marked satellites are satellites, and the maps have their    *)
(* types.                                                                  *)
TypeOK ==
  /\ sats \subseteq Keys /\ lit \subseteq sats
  /\ seen \subseteq Signals /\ updated \subseteq Signals
  /\ DOMAIN used \subseteq Signals
  /\ \A p \in DOMAIN used : used[p] \subseteq Svids
  /\ style \in Styles
  /\ intact \in BOOLEAN /\ intactLast \in BOOLEAN

EpochReceived == GsvComplete /\ GsaComplete /\ intact

(* Constellations whose satellites the cycles of the talker replace. *)
Own(k) == style.talker = "GNSS" \/ k.constellation = style.talker

(* Signals of which the epoch had GSV sentences. *)
Reported == {s \in style.gsv : truth.view[s] # {}}

(***************************************************************************)
(* After an epoch received in full the decoder has, of every signal that   *)
(* was reported, exactly the satellites that were reported: those lost     *)
(* from view are gone, whatever sentences earlier epochs lost and however  *)
(* the receiver numbers its sentences.  (Satellites that the decoder files *)
(* under another constellation than the talker's, SBAS under GP, and       *)
(* signals no longer reported at all are not replaced.)                    *)
(***************************************************************************)
CycleReplaces ==
  EpochReceived =>
    \A s \in Reported :
      {k \in sats : k.signal = s /\ Own(k)}
        = {k \in {KeyOf(style.talker, s, raw) : raw \in truth.view[s]} : Own(k)}

(* GSA sentences can be matched with the satellites if both carry signal   *)
(* ids or neither does, or if a GSA for all signals comes before the GSV,  *)
(* and if they do not list satellites of another constellation only.       *)
Matchable ==
  /\ style.talker # "GNSS"
  /\ style.gsa = style.gsv \/ (style.gsa = {0} /\ style.gsaFirst)
  /\ \A s \in style.gsa :
       truth.used[s] # {} => style.talker \in DOMAIN Groups(style.talker, truth.used[s])

(***************************************************************************)
(* After two epochs received in full a satellite is marked as used exactly *)
(* if the last epoch's GSA listed it: marks neither add up over epochs nor *)
(* get lost when GSV sentences rewrite the satellites.                     *)
(***************************************************************************)
UsedMarksAreCurrent ==
  EpochReceived /\ intactLast /\ Matchable =>
    \A k \in sats :
      k.constellation = style.talker /\ k.signal \in Reported =>
        (k \in lit <=> k.svid \in truth.used[IF k.signal \in style.gsa
                                             THEN k.signal ELSE 0])

=============================================================================
