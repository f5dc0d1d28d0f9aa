----------------------- MODULE NmeaSatellites_proofs -----------------------
(***************************************************************************)
(* Proofs about NmeaSatellites for all satellite numbers, signals, talkers *)
(* and sentence sizes: how many epochs are reported, which sentences are   *)
(* lost and when sessions start is left open.                              *)
(***************************************************************************)
EXTENDS NmeaSatellites, FiniteSetTheorems, TLAPS

(* What is left of signal s. *)
Rest(left, s) == IF s \in DOMAIN left THEN left[s] ELSE {}

(* Less takes the ids from their signal, which goes with its last id. *)
LEMMA LessProperties ==
  ASSUME NEW left, NEW s \in DOMAIN left, NEW ids, ids \subseteq left[s]
  PROVE  LET less == Less(left, s, ids)
         IN  /\ DOMAIN less \subseteq DOMAIN left
             /\ \A other \in DOMAIN left \ {s} :
                  other \in DOMAIN less /\ less[other] = left[other]
             /\ \A other : other # s => Rest(less, other) = Rest(left, other)
             /\ Rest(less, s) = left[s] \ ids
             /\ s \in DOMAIN less => less[s] = left[s] \ ids /\ less[s] # {}
<1>1. CASE left[s] = ids
  <2>1. Less(left, s, ids) = [other \in DOMAIN left \ {s} |-> left[other]]
    BY <1>1 DEF Less
  <2>2. QED
    BY <1>1, <2>1 DEF Rest
<1>2. CASE left[s] # ids
  <2>1. Less(left, s, ids) = [left EXCEPT ![s] = left[s] \ ids]
    BY <1>2 DEF Less
  <2>2. QED
    BY <1>2, <2>1 DEF Rest
<1>3. QED
  BY <1>1, <1>2

(* A sentence without ids is sent only of a signal that has none. *)
LEMMA FirstIdsProperties ==
  ASSUME NEW left, NEW ids, NEW n \in Nat \ {0}, FirstIds(left, ids, n)
  PROVE  ids \subseteq left /\ (ids = {} => left = {})
<1>1. ids \subseteq left /\ (ids = left \/ Cardinality(ids) = n)
  BY DEF FirstIds
<1>2. Cardinality({}) = 0
  BY FS_EmptySet
<1>3. QED
  BY <1>1, <1>2

-----------------------------------------------------------------------------
(* The receiver goes through its signals in order. *)

(* Signal s has been reported in part or as a whole. *)
Begun(s) == Rest(gsvLeft, s) # truth.view[s]

(* Only the first of the signals still to be reported can have begun. *)
SignalsInOrder ==
  /\ \A s, t \in DOMAIN gsvLeft : Begun(s) => s <= t
  /\ number = 0 => \A s \in style.gsv : ~Begun(s)

(* The GSA of an epoch are all before its GSV, or all after them. *)
GsaAndGsv ==
  /\ style.gsaFirst /\ number > 0 => GsaComplete
  /\ ~style.gsaFirst /\ ~GsvComplete =>
       \A g \in style.gsa : Rest(gsaLeft, g) = truth.used[g]

ReceiverTypes ==
  /\ style \in Styles /\ truth \in Truths(style)
  /\ intact \in BOOLEAN /\ intactLast \in BOOLEAN /\ number \in Nat
  /\ DOMAIN gsvLeft \subseteq style.gsv /\ DOMAIN gsaLeft \subseteq style.gsa
  /\ \A s \in DOMAIN gsvLeft : gsvLeft[s] \subseteq truth.view[s] /\ gsvLeft[s] # {}
  /\ \A g \in DOMAIN gsaLeft : /\ gsaLeft[g] \subseteq truth.used[g]
                               /\ gsaLeft[g] = {} => truth.used[g] = {}

ReceiverInv == ReceiverTypes /\ SignalsInOrder /\ GsaAndGsv

LEMMA StyleTypes ==
  ASSUME NEW st \in Styles
  PROVE  /\ st.talker \in Talkers /\ st.gsaFirst \in BOOLEAN /\ st.perSignal \in BOOLEAN
         /\ st.gsv \in {{0}, SignalIds} /\ st.gsa \in {{0}, SignalIds}
         /\ st.gsv \subseteq SignalIds \cup {0} /\ st.gsa \subseteq SignalIds \cup {0}
         /\ st.gsv \subseteq Nat /\ st.gsa \subseteq Nat
         /\ (st.talker = "GNSS" => st.gsa = {0})
<1>1. /\ st \in [talker : Talkers, gsv : {{0}, SignalIds}, gsa : {{0}, SignalIds},
                gsaFirst : BOOLEAN, perSignal : BOOLEAN]
      /\ st.talker = "GNSS" => st.gsa = {0}
  BY DEF Styles
<1>2. /\ st.talker \in Talkers /\ st.gsaFirst \in BOOLEAN /\ st.perSignal \in BOOLEAN
      /\ st.gsv \in {{0}, SignalIds} /\ st.gsa \in {{0}, SignalIds}
  BY <1>1
<1>3. \A set \in {{0}, SignalIds} :
        set \subseteq SignalIds \cup {0} /\ set \subseteq Nat
  BY SignalsAreNumbered
<1>4. QED
  BY <1>1, <1>2, <1>3

LEMMA TruthTypes ==
  ASSUME NEW st \in Styles, NEW t \in Truths(st)
  PROVE  /\ \A s \in st.gsv : t.view[s] \subseteq RawIds
         /\ \A g \in st.gsa : t.used[g] \subseteq RawIds
         /\ DOMAIN t.view = st.gsv /\ DOMAIN t.used = st.gsa
         /\ (\A s \in st.gsv : t.view[s] = {}) => \A g \in st.gsa : t.used[g] = {}
<1>1. /\ t.view \in [st.gsv -> SUBSET RawIds] /\ t.used \in [st.gsa -> SUBSET RawIds]
      /\ \A g \in st.gsa :
           t.used[g] \subseteq IF g \in st.gsv THEN t.view[g]
                               ELSE UNION {t.view[v] : v \in st.gsv}
  BY DEF Truths
<1>2. QED
  BY <1>1

LEMMA InitReceiver == Init => ReceiverInv
<1> SUFFICES ASSUME Init PROVE ReceiverInv
  OBVIOUS
<1>1. /\ style \in Styles
      /\ truth = [view |-> [s \in style.gsv |-> {}], used |-> [s \in style.gsa |-> {}]]
      /\ gsvLeft = [s \in {} |-> {}] /\ gsaLeft = [s \in {} |-> {}] /\ number = 0
      /\ intact = FALSE /\ intactLast = FALSE
  BY DEF Init
<1>2. truth \in Truths(style)
  BY <1>1 DEF Truths
<1>3. DOMAIN gsvLeft = {} /\ DOMAIN gsaLeft = {}
  BY <1>1
<1>4. ReceiverTypes
  BY <1>1, <1>2, <1>3 DEF ReceiverTypes
<1>5. SignalsInOrder
  BY <1>1, <1>3 DEF SignalsInOrder, Begun, Rest
<1>6. GsaAndGsv
  BY <1>1, <1>3 DEF GsaAndGsv, GsvComplete, GsaComplete
<1>7. QED
  BY <1>4, <1>5, <1>6 DEF ReceiverInv

LEMMA NewEpochReceiver ==
  ASSUME ReceiverInv, NewEpoch
  PROVE  ReceiverInv' /\ \A s \in style.gsv : ~Begun(s)'
<1>1. PICK t \in Truths(style) :
        /\ truth' = t
        /\ gsvLeft' = [s \in {s \in style.gsv : t.view[s] # {}} |-> t.view[s]]
        /\ gsaLeft' = t.used
  BY DEF NewEpoch
<1>2. number' = 0 /\ intactLast' = intact /\ intact' = TRUE /\ style' = style
  BY DEF NewEpoch
<1>3. style \in Styles /\ intact \in BOOLEAN
  BY DEF ReceiverInv, ReceiverTypes
<1>4. DOMAIN t.used = style.gsa
  BY <1>3, TruthTypes
<1>5. ReceiverTypes'
  BY <1>1, <1>2, <1>3, <1>4 DEF ReceiverTypes
<1>6. \A s \in style.gsv : ~Begun(s)'
  BY <1>1 DEF Begun, Rest
<1>7. SignalsInOrder'
  BY <1>2, <1>5, <1>6 DEF SignalsInOrder, ReceiverTypes
<1>8. GsaAndGsv'
  BY <1>1, <1>2, <1>4 DEF GsaAndGsv, Rest
<1>9. QED
  BY <1>5, <1>6, <1>7, <1>8 DEF ReceiverInv

(* What a GSV sentence changes at the receiver. *)
LEMMA SendGsvFacts ==
  ASSUME ReceiverInv, NEW s, NEW ids, SendGsv(s, ids)
  PROVE  /\ s \in DOMAIN gsvLeft /\ s \in style.gsv /\ s \in Nat
         /\ ids \subseteq gsvLeft[s] /\ ids # {} /\ gsvLeft[s] \subseteq truth.view[s]
         /\ Rest(gsvLeft', s) = gsvLeft[s] \ ids
         /\ \A other : other # s => Rest(gsvLeft', other) = Rest(gsvLeft, other)
         /\ DOMAIN gsvLeft' \subseteq DOMAIN gsvLeft
         /\ \A other \in DOMAIN gsvLeft : s <= other /\ (Begun(other) => other = s)
         /\ Begun(s)' /\ (\A other : other # s => (Begun(other)' <=> Begun(other)))
         /\ NumberOf(s) \in Nat /\ NumberOf(s) >= 1 /\ number' = NumberOf(s)
         /\ (Begun(s) => NumberOf(s) > 1) /\ (NumberOf(s) > 1 => number > 0)
         /\ (style.gsaFirst => GsaComplete)
         /\ UNCHANGED <<style, truth, gsaLeft, intactLast>>
<1>1. /\ style.gsaFirst => GsaComplete
      /\ FirstSignal(gsvLeft, s) /\ FirstIds(gsvLeft[s], ids, PerGsv)
      /\ gsvLeft' = Less(gsvLeft, s, ids) /\ number' = NumberOf(s)
      /\ UNCHANGED <<style, truth, gsaLeft, intactLast>>
  BY DEF SendGsv
<1>2. s \in DOMAIN gsvLeft /\ \A other \in DOMAIN gsvLeft : s <= other
  BY <1>1 DEF FirstSignal
<1>3. /\ style \in Styles /\ DOMAIN gsvLeft \subseteq style.gsv /\ number \in Nat
      /\ gsvLeft[s] \subseteq truth.view[s] /\ gsvLeft[s] # {}
  BY <1>2 DEF ReceiverInv, ReceiverTypes
<1>4. DOMAIN gsvLeft \subseteq Nat
  BY <1>3, StyleTypes
<1>5. ids \subseteq gsvLeft[s] /\ ids # {}
  BY <1>1, <1>3, SentenceSizes, FirstIdsProperties
<1>6. /\ Rest(gsvLeft', s) = gsvLeft[s] \ ids
      /\ \A other : other # s => Rest(gsvLeft', other) = Rest(gsvLeft, other)
      /\ DOMAIN gsvLeft' \subseteq DOMAIN gsvLeft
  BY <1>1, <1>2, <1>5, LessProperties
<1>7. \A other \in DOMAIN gsvLeft : Begun(other) => other = s
  <2>1. \A other \in DOMAIN gsvLeft : Begun(other) => other <= s
    BY <1>2 DEF ReceiverInv, SignalsInOrder
  <2>2. QED
    BY <1>2, <1>4, <2>1
<1>8. Begun(s)'
  BY <1>1, <1>3, <1>5, <1>6 DEF Begun
<1>9. \A other : other # s => (Begun(other)' <=> Begun(other))
  BY <1>1, <1>6 DEF Begun
<1>10. Begun(s) <=> gsvLeft[s] # truth.view[s]
  BY <1>2 DEF Begun, Rest
<1>11. NumberOf(s) \in Nat /\ NumberOf(s) >= 1
  BY <1>3 DEF NumberOf
<1>12. Begun(s) => NumberOf(s) > 1
  <2>1. Begun(s) => number # 0
    BY <1>2, <1>3 DEF ReceiverInv, SignalsInOrder
  <2>2. QED
    BY <1>3, <1>10, <2>1 DEF NumberOf
<1>13. NumberOf(s) > 1 => number > 0
  BY <1>3 DEF NumberOf
<1>14. QED
  BY <1>1, <1>2, <1>3, <1>4, <1>5, <1>6, <1>7, <1>8, <1>9, <1>11, <1>12, <1>13

LEMMA SendGsvReceiver ==
  ASSUME ReceiverInv, NEW s, NEW ids, SendGsv(s, ids), intact' \in BOOLEAN
  PROVE  ReceiverInv'
<1>1. /\ s \in DOMAIN gsvLeft /\ s \in style.gsv /\ s \in Nat
      /\ ids \subseteq gsvLeft[s] /\ gsvLeft' = Less(gsvLeft, s, ids)
      /\ DOMAIN gsvLeft' \subseteq DOMAIN gsvLeft
      /\ UNCHANGED <<style, truth, gsaLeft, intactLast>>
  BY SendGsvFacts DEF SendGsv
<1>2. ReceiverTypes'
  <2>1. \A t \in DOMAIN gsvLeft' :
          gsvLeft'[t] \subseteq truth.view[t] /\ gsvLeft'[t] # {}
    <3> SUFFICES ASSUME NEW t \in DOMAIN gsvLeft'
                 PROVE  gsvLeft'[t] \subseteq truth.view[t] /\ gsvLeft'[t] # {}
      OBVIOUS
    <3>1. gsvLeft[t] \subseteq truth.view[t] /\ gsvLeft[t] # {}
      BY <1>1 DEF ReceiverInv, ReceiverTypes
    <3>2. t # s => gsvLeft'[t] = gsvLeft[t]
      BY <1>1, LessProperties
    <3>3. t = s => gsvLeft'[t] = gsvLeft[t] \ ids /\ gsvLeft'[t] # {}
      BY <1>1, LessProperties
    <3>4. QED
      BY <3>1, <3>2, <3>3
  <2>2. number' \in Nat
    BY SendGsvFacts
  <2>3. QED
    BY <1>1, <2>1, <2>2 DEF ReceiverInv, ReceiverTypes
<1>3. SignalsInOrder'
  <2>1. \A t, u \in DOMAIN gsvLeft' : Begun(t)' => t <= u
    <3> SUFFICES ASSUME NEW t \in DOMAIN gsvLeft', NEW u \in DOMAIN gsvLeft', Begun(t)'
                 PROVE  t <= u
      OBVIOUS
    <3>1. t \in DOMAIN gsvLeft /\ u \in DOMAIN gsvLeft
      BY <1>1
    <3>2. t = s \/ Begun(t)
      BY SendGsvFacts
    <3>3. s <= u /\ (Begun(t) => t = s)
      BY <3>1, SendGsvFacts
    <3>4. QED
      BY <3>2, <3>3
  <2>2. number' # 0
    BY SendGsvFacts
  <2>3. QED
    BY <2>1, <2>2 DEF SignalsInOrder
<1>4. GsaAndGsv'
  <2>1. style.gsaFirst => GsaComplete
    BY SendGsvFacts
  <2>2. ~GsvComplete
    BY <1>1 DEF GsvComplete
  <2>3. QED
    BY <1>1, <2>1, <2>2 DEF ReceiverInv, GsaAndGsv, GsaComplete
<1>5. QED
  BY <1>2, <1>3, <1>4 DEF ReceiverInv

(* What a GSA sentence changes at the receiver. *)
LEMMA SendGsaFacts ==
  ASSUME ReceiverInv, NEW g, NEW ids, SendGsa(g, ids)
  PROVE  /\ g \in DOMAIN gsaLeft /\ g \in style.gsa
         /\ ids \subseteq gsaLeft[g] /\ gsaLeft[g] \subseteq truth.used[g]
         /\ (ids = {} => truth.used[g] = {})
         /\ Rest(gsaLeft', g) = gsaLeft[g] \ ids
         /\ \A other : other # g => Rest(gsaLeft', other) = Rest(gsaLeft, other)
         /\ DOMAIN gsaLeft' \subseteq DOMAIN gsaLeft
         /\ \A other \in DOMAIN gsaLeft \ {g} : other \in DOMAIN gsaLeft'
         /\ (~style.gsaFirst => GsvComplete)
         /\ UNCHANGED <<style, truth, gsvLeft, number, intactLast>>
<1>1. /\ ~style.gsaFirst => GsvComplete
      /\ FirstSignal(gsaLeft, g) /\ FirstIds(gsaLeft[g], ids, PerGsa)
      /\ gsaLeft' = Less(gsaLeft, g, ids)
      /\ UNCHANGED <<style, truth, gsvLeft, number, intactLast>>
  BY DEF SendGsa
<1>2. g \in DOMAIN gsaLeft
  BY <1>1 DEF FirstSignal
<1>3. /\ DOMAIN gsaLeft \subseteq style.gsa /\ gsaLeft[g] \subseteq truth.used[g]
      /\ gsaLeft[g] = {} => truth.used[g] = {}
  BY <1>2 DEF ReceiverInv, ReceiverTypes
<1>4. ids \subseteq gsaLeft[g] /\ (ids = {} => gsaLeft[g] = {})
  BY <1>1, SentenceSizes, FirstIdsProperties
<1>5. /\ Rest(gsaLeft', g) = gsaLeft[g] \ ids
      /\ \A other : other # g => Rest(gsaLeft', other) = Rest(gsaLeft, other)
      /\ DOMAIN gsaLeft' \subseteq DOMAIN gsaLeft
      /\ \A other \in DOMAIN gsaLeft \ {g} : other \in DOMAIN gsaLeft'
  BY <1>1, <1>2, <1>4, LessProperties
<1>6. QED
  BY <1>1, <1>2, <1>3, <1>4, <1>5

LEMMA SendGsaReceiver ==
  ASSUME ReceiverInv, NEW g, NEW ids, SendGsa(g, ids), intact' \in BOOLEAN
  PROVE  ReceiverInv'
<1>1. /\ g \in DOMAIN gsaLeft /\ ids \subseteq gsaLeft[g]
      /\ gsaLeft' = Less(gsaLeft, g, ids)
      /\ DOMAIN gsaLeft' \subseteq DOMAIN gsaLeft
      /\ UNCHANGED <<style, truth, gsvLeft, number, intactLast>>
  BY SendGsaFacts DEF SendGsa
<1>2. ReceiverTypes'
  <2>1. \A t \in DOMAIN gsaLeft' : /\ gsaLeft'[t] \subseteq truth.used[t]
                                   /\ gsaLeft'[t] = {} => truth.used[t] = {}
    <3> SUFFICES ASSUME NEW t \in DOMAIN gsaLeft'
                 PROVE  /\ gsaLeft'[t] \subseteq truth.used[t]
                        /\ gsaLeft'[t] = {} => truth.used[t] = {}
      OBVIOUS
    <3>1. gsaLeft[t] \subseteq truth.used[t] /\ (gsaLeft[t] = {} => truth.used[t] = {})
      BY <1>1 DEF ReceiverInv, ReceiverTypes
    <3>2. t # g => gsaLeft'[t] = gsaLeft[t]
      BY <1>1, LessProperties
    <3>3. t = g => gsaLeft'[t] = gsaLeft[t] \ ids /\ gsaLeft'[t] # {}
      BY <1>1, LessProperties
    <3>4. QED
      BY <3>1, <3>2, <3>3
  <2>2. QED
    BY <1>1, <2>1 DEF ReceiverInv, ReceiverTypes
<1>3. SignalsInOrder'
  BY <1>1 DEF ReceiverInv, SignalsInOrder, Begun
<1>4. GsaAndGsv'
  <2>1. ~style.gsaFirst => GsvComplete
    BY SendGsaFacts
  <2>2. ~GsaComplete
    BY <1>1 DEF GsaComplete
  <2>3. QED
    BY <1>1, <2>1, <2>2 DEF ReceiverInv, GsaAndGsv, GsvComplete
<1>5. QED
  BY <1>2, <1>3, <1>4 DEF ReceiverInv

-----------------------------------------------------------------------------
(* The decoder. *)

DecoderTypes ==
  /\ sats \subseteq Keys /\ lit \subseteq sats
  /\ seen \subseteq Signals /\ updated \subseteq Signals
  /\ DOMAIN used \subseteq Signals
  /\ \A p \in DOMAIN used : used[p] \subseteq Svids

LEMMA KeyTypes ==
  ASSUME NEW c \in Talkers, NEW s \in SignalIds \cup {0}, NEW raw \in RawIds
  PROVE  LET n == NormalizeNmeaSatellite(c, raw)
         IN  /\ KeyOf(c, s, raw) \in Keys /\ KeyOf(c, s, raw).signal = s
             /\ KeyOf(c, s, raw).constellation = n.constellation
             /\ KeyOf(c, s, raw).svid = n.svid
             /\ n.constellation \in Constellations /\ n.svid \in Svids
<1> DEFINE n == NormalizeNmeaSatellite(c, raw)
<1>1. KeyOf(c, s, raw) =
        [constellation |-> n.constellation, signal |-> s, svid |-> n.svid]
  BY DEF KeyOf
<1> HIDE DEF n
<1>2. KeyOf(c, s, raw) \in Keys
  BY DEF Keys
<1>3. n.svid \in Svids
  <2>1. KeyOf(c, s, raw).svid = n.svid
    BY <1>1
  <2>2. KeyOf(c, s, raw).svid \in Svids
    BY <1>2 DEF Svids
  <2>3. QED
    BY <2>1, <2>2
<1>4. n.constellation \in Constellations
  BY DEF Constellations, n
<1>5. QED
  BY <1>1, <1>2, <1>3, <1>4 DEF n

(* The ids of constellation c among the numbers in a sentence of talker c. *)
OwnIds(c, raws) ==
  {n.svid : n \in {n \in {NormalizeNmeaSatellite(c, raw) : raw \in raws} :
                    n.constellation = c}}

LEMMA OwnIdsProperties ==
  ASSUME NEW c
  PROVE  /\ OwnIds(c, {}) = {}
         /\ \A a, b : OwnIds(c, a \cup b) = OwnIds(c, a) \cup OwnIds(c, b)
BY DEF OwnIds

(* The group of the talker's own constellation is that of its own ids; a   *)
(* sentence without ids is one of its own.                                 *)
LEMMA GroupsProperties ==
  ASSUME NEW c \in Talkers, NEW raws \in SUBSET RawIds
  PROVE  /\ DOMAIN Groups(c, raws) \subseteq Constellations
         /\ \A d \in DOMAIN Groups(c, raws) : Groups(c, raws)[d] \subseteq Svids
         /\ c # "GNSS" =>
              /\ c \in DOMAIN Groups(c, raws) <=> (raws = {} \/ OwnIds(c, raws) # {})
              /\ c \in DOMAIN Groups(c, raws) => Groups(c, raws)[c] = OwnIds(c, raws)
<1> DEFINE ns == {NormalizeNmeaSatellite(c, raw) : raw \in raws}
<1>1. \A n \in ns : n.constellation \in Constellations /\ n.svid \in Svids
  <2> SUFFICES ASSUME NEW raw \in raws
               PROVE  /\ NormalizeNmeaSatellite(c, raw).constellation \in Constellations
                      /\ NormalizeNmeaSatellite(c, raw).svid \in Svids
    OBVIOUS
  <2>1. QED
    BY KeyTypes
<1>2. CASE raws = {}
  <2>1. Groups(c, raws) = [d \in {c} \ {"GNSS"} |-> {}]
    BY <1>2 DEF Groups
  <2>2. c \in Constellations
    BY DEF Constellations
  <2>3. OwnIds(c, raws) = {}
    BY <1>2, OwnIdsProperties
  <2>4. QED
    BY <1>2, <2>1, <2>2, <2>3
<1>3. CASE raws # {}
  <2>1. Groups(c, raws) = [d \in {n.constellation : n \in ns} |->
                             {n.svid : n \in {n \in ns : n.constellation = d}}]
    BY <1>3 DEF Groups
  <2>2. OwnIds(c, raws) = {n.svid : n \in {n \in ns : n.constellation = c}}
    BY DEF OwnIds
  <2> HIDE DEF ns
  <2>3. DOMAIN Groups(c, raws) = {n.constellation : n \in ns}
    BY <2>1
  <2>4. \A d \in DOMAIN Groups(c, raws) :
          Groups(c, raws)[d] = {n.svid : n \in {n \in ns : n.constellation = d}}
    BY <2>1
  <2>5. c \in DOMAIN Groups(c, raws) <=> OwnIds(c, raws) # {}
    BY <2>2, <2>3
  <2>6. QED
    BY <1>1, <1>3, <2>2, <2>3, <2>4, <2>5
<1>4. QED
  BY <1>2, <1>3

(* An id of a satellite of the talker's constellation stands for itself. *)
LEMMA OwnIdsAreRaw ==
  ASSUME NEW c \in Talkers, c # "GNSS", NEW k \in Keys, k.constellation = c,
         NEW raws \in SUBSET RawIds
  PROVE  k.svid \in OwnIds(c, raws) <=> k.svid \in raws
<1>1. \A raw : LET n == NormalizeNmeaSatellite(c, raw)
               IN  IF c = "GPS" /\ raw \in 33..64
                   THEN n.constellation # c ELSE n.constellation = c /\ n.svid = raw
  BY DEF NormalizeNmeaSatellite
<1>2. c = "GPS" => k.svid \notin 33..64
  <2> SUFFICES ASSUME c = "GPS" PROVE k.svid \notin 33..64
    OBVIOUS
  <2>1. PICK d \in Talkers, s \in SignalIds \cup {0}, raw \in RawIds :
          k = KeyOf(d, s, raw)
    BY DEF Keys
  <2> DEFINE n == NormalizeNmeaSatellite(d, raw)
  <2>2. n.constellation = "GPS" /\ k.svid = n.svid
    BY <2>1, KeyTypes
  <2>3. ~(d \in {"GPS", "GNSS"} /\ raw \in 33..64) /\ n.svid = raw
    BY <2>2 DEF NormalizeNmeaSatellite
  <2>4. d = "GPS" => raw \notin 33..64
    BY <2>3
  <2>5. d = "GNSS" => raw \notin 33..64
    BY <2>3
  <2>6. d \in {"GPS", "GNSS"}
    BY <2>2, <2>3 DEF NormalizeNmeaSatellite
  <2>7. QED
    BY <2>2, <2>3, <2>4, <2>5, <2>6
<1>3. OwnIds(c, raws) = {raw \in raws : ~(c = "GPS" /\ raw \in 33..64)}
  <2>1. ASSUME NEW raw \in raws, ~(c = "GPS" /\ raw \in 33..64)
        PROVE  raw \in OwnIds(c, raws)
    BY <1>1, <2>1 DEF OwnIds
  <2>2. ASSUME NEW id \in OwnIds(c, raws)
        PROVE  id \in raws /\ ~(c = "GPS" /\ id \in 33..64)
    <3>1. PICK raw \in raws : /\ NormalizeNmeaSatellite(c, raw).constellation = c
                              /\ NormalizeNmeaSatellite(c, raw).svid = id
      BY <2>2 DEF OwnIds
    <3>2. QED
      BY <1>1, <3>1
  <2>3. QED
    BY <2>1, <2>2
<1>4. QED
  BY <1>2, <1>3

(* The satellites that a sentence lists. *)
Fresh(c, s, ids) == {KeyOf(c, s, raw) : raw \in ids}

(* What a GSV sentence changes in the decoder, as later proofs use it. *)
LEMMA GsvEffect ==
  ASSUME DecoderTypes, NEW c \in Talkers, NEW n \in Nat, NEW s \in SignalIds \cup {0},
         NEW ids \in SUBSET RawIds, Gsv(c, n, s, ids)
  PROVE  /\ Fresh(c, s, ids) \subseteq sats'
         /\ sats' \subseteq sats \cup Fresh(c, s, ids)
         /\ Fresh(c, s, ids) \subseteq Keys /\ \A k \in Fresh(c, s, ids) : k.signal = s
         /\ \A k \in sats : k.signal # s => k \in sats'
         /\ (n <= 1 \/ <<c, s>> \notin seen) =>
              \A k \in sats' : k.signal = s /\ (c = "GNSS" \/ k.constellation = c)
                                 => k \in Fresh(c, s, ids)
         /\ n > 1 /\ <<c, s>> \in seen => sats \subseteq sats'
         /\ lit' \subseteq sats'
         /\ \A k \in sats' :
              IF k \in Fresh(c, s, ids) THEN k \in lit' <=> IsSatelliteUsed(k)
                                        ELSE k \in lit' <=> k \in lit
         /\ <<c, s>> \in seen' /\ seen' \subseteq Signals
         /\ \A t : t # s /\ <<c, t>> \in seen' => n > 1 /\ <<c, t>> \in seen
         /\ updated' \subseteq updated
         /\ n <= 1 => \A g : <<c, g>> \notin updated'
         /\ n > 1 => updated' = updated
         /\ used' = used
<1> DEFINE seenBefore == IF StartsCycle(n) THEN OfOthers(seen, c) ELSE seen
           kept == IF <<c, s>> \in seenBefore THEN sats ELSE sats \ OldOfSignal(c, s)
           fresh == Fresh(c, s, ids)
<1>1. /\ seen' = seenBefore \cup {<<c, s>>}
      /\ updated' = IF StartsCycle(n) THEN OfOthers(updated, c) ELSE updated
      /\ sats' = kept \cup fresh /\ lit' = Marks(kept, fresh) /\ used' = used
  BY DEF Gsv, Fresh
<1>2. StartsCycle(n) <=> ~(n > 1)
  BY DEF StartsCycle
<1>3. fresh \subseteq Keys /\ \A k \in fresh : k.signal = s
  BY KeyTypes DEF Fresh
<1>4. /\ seenBefore \subseteq seen
      /\ \A t : <<c, t>> \in seenBefore <=> n > 1 /\ <<c, t>> \in seen
  BY <1>2 DEF OfOthers
<1>5. /\ kept \subseteq sats /\ \A k \in sats : k.signal # s => k \in kept
      /\ (<<c, s>> \notin seenBefore =>
            \A k \in kept : ~(k.signal = s /\ (c = "GNSS" \/ k.constellation = c)))
      /\ (<<c, s>> \in seenBefore => kept = sats)
  BY DEF OldOfSignal
<1> HIDE DEF kept, seenBefore, fresh
<1>6. /\ lit' \subseteq sats'
      /\ \A k \in sats' : IF k \in fresh THEN k \in lit' <=> IsSatelliteUsed(k)
                                         ELSE k \in lit' <=> k \in lit
  BY <1>1, <1>5 DEF Marks
<1>7. <<c, s>> \in seen' /\ seen' \subseteq Signals
  <2>1. <<c, s>> \in Signals
    BY DEF Signals, Constellations
  <2>2. QED
    BY <1>1, <1>4, <2>1 DEF DecoderTypes
<1>8. \A t : t # s /\ <<c, t>> \in seen' => n > 1 /\ <<c, t>> \in seen
  BY <1>1, <1>4
<1>9. /\ updated' \subseteq updated
      /\ n <= 1 => \A g : <<c, g>> \notin updated'
      /\ n > 1 => updated' = updated
  BY <1>1, <1>2 DEF OfOthers
<1>10. fresh \subseteq sats' /\ sats' \subseteq sats \cup fresh
  BY <1>1, <1>5
<1>11. \A k \in sats : k.signal # s => k \in sats'
  BY <1>1, <1>5
<1>12. (n <= 1 \/ <<c, s>> \notin seen) =>
         \A k \in sats' : k.signal = s /\ (c = "GNSS" \/ k.constellation = c)
                            => k \in fresh
  BY <1>1, <1>4, <1>5
<1>13. n > 1 /\ <<c, s>> \in seen => sats \subseteq sats'
  BY <1>1, <1>4, <1>5
<1>14. QED
  BY <1>1, <1>3, <1>6, <1>7, <1>8, <1>9, <1>10, <1>11, <1>12, <1>13 DEF fresh

(* A satellite with a set of its own is marked as the set says. *)
Consistent ==
  \A k \in sats : LET p == <<k.constellation, k.signal>>
                  IN  p \in DOMAIN used => (k \in lit <=> k.svid \in used[p])

(* The sets that a GSA sentence touches. *)
Pairs(c, g, ids) == {<<d, g>> : d \in DOMAIN Groups(c, ids)}

(* What a GSA sentence changes in the decoder.  It marks afresh all that   *)
(* its sets decide, so the marks stay as the sets say.                     *)
LEMMA GsaEffect ==
  ASSUME NEW c, NEW g, NEW ids, Gsa(c, g, ids)
  PROVE  /\ sats' = sats /\ seen' = seen /\ updated' = updated \cup Pairs(c, g, ids)
         /\ DOMAIN used' = Pairs(c, g, ids) \cup DOMAIN used
         /\ \A p \in DOMAIN used' :
              used'[p] = IF p \in Pairs(c, g, ids)
                         THEN Merged(p, Groups(c, ids)[p[1]]) ELSE used[p]
         /\ lit' \subseteq sats
         /\ Consistent => Consistent'
<1> DEFINE pairs == Pairs(c, g, ids)
           new == [p \in pairs \cup DOMAIN used |->
                     IF p \in pairs THEN Merged(p, Groups(c, ids)[p[1]]) ELSE used[p]]
           touches(k) == /\ <<k.constellation, g>> \in pairs
                         /\ \/ k.signal = g
                            \/ /\ g > 0 /\ k.signal = 0
                               /\ <<k.constellation, 0>> \notin DOMAIN new
<1>1. /\ sats' = sats /\ seen' = seen /\ updated' = updated \cup pairs /\ used' = new
      /\ lit' = {k \in sats : IF touches(k) THEN k.svid \in new[<<k.constellation, g>>]
                                            ELSE k \in lit}
  BY DEF Gsa, UpdateUsedSatellites, Pairs
<1>2. /\ DOMAIN new = pairs \cup DOMAIN used
      /\ \A p \in DOMAIN new :
           new[p] = IF p \in pairs THEN Merged(p, Groups(c, ids)[p[1]]) ELSE used[p]
  OBVIOUS
<1> HIDE DEF new
<1>3. Consistent => Consistent'
  <2> SUFFICES ASSUME Consistent, NEW k \in sats,
                      <<k.constellation, k.signal>> \in DOMAIN new
               PROVE  k \in lit' <=> k.svid \in new[<<k.constellation, k.signal>>]
    BY <1>1 DEF Consistent
  <2> DEFINE p == <<k.constellation, k.signal>>
  <2>1. CASE p \in pairs
    <3>1. k.signal = g
      BY <2>1 DEF Pairs
    <3>2. touches(k)
      BY <2>1, <3>1
    <3>3. QED
      BY <1>1, <3>1, <3>2
  <2>2. CASE p \notin pairs
    <3>1. ~touches(k)
      BY <2>2
    <3>2. p \in DOMAIN used /\ new[p] = used[p]
      BY <1>2, <2>2
    <3>3. k \in lit' <=> k \in lit
      BY <1>1, <3>1
    <3>4. QED
      BY <3>2, <3>3 DEF Consistent
  <2>3. QED
    BY <2>1, <2>2
<1>4. QED
  BY <1>1, <1>2, <1>3

LEMMA MergedTypes ==
  ASSUME NEW p, NEW ids \in SUBSET Svids, DecoderTypes
  PROVE  Merged(p, ids) \in SUBSET Svids
BY DEF Merged, DecoderTypes

-----------------------------------------------------------------------------
(* What holds whatever is lost. *)

(* Sets are of signals of which the receiver sends GSA. *)
SetsOfSignals == \A p \in DOMAIN used \cup updated : p[2] \in style.gsa

DecoderInv == DecoderTypes /\ Consistent /\ SetsOfSignals

Inv == ReceiverInv /\ DecoderInv

LEMMA InitInv == Init => Inv
<1> SUFFICES ASSUME Init PROVE Inv
  OBVIOUS
<1>1. /\ sats = {} /\ lit = {} /\ used = [p \in {} |-> {}] /\ seen = {} /\ updated = {}
  BY DEF Init, NothingUsed
<1>2. DOMAIN used = {}
  BY <1>1
<1>3. DecoderTypes
  BY <1>1, <1>2 DEF DecoderTypes
<1>4. Consistent /\ SetsOfSignals
  BY <1>1, <1>2 DEF Consistent, SetsOfSignals
<1>5. QED
  BY <1>3, <1>4, InitReceiver DEF Inv, DecoderInv

LEMMA NewEpochInv == Inv /\ NewEpoch => Inv'
<1> SUFFICES ASSUME Inv, NewEpoch PROVE Inv'
  OBVIOUS
<1>1. UNCHANGED <<sats, lit, used, seen, updated, style>>
  BY DEF NewEpoch, decoder
<1>2. DecoderInv'
  BY <1>1 DEF Inv, DecoderInv, DecoderTypes, Consistent, SetsOfSignals
<1>3. QED
  BY <1>2, NewEpochReceiver DEF Inv

LEMMA ReceiveGsvInv ==
  ASSUME Inv, NEW s \in SignalIds \cup {0}, NEW ids \in SUBSET RawIds,
         ReceiveGsv(s, ids)
  PROVE  Inv'
<1>1. /\ SendGsv(s, ids) /\ Gsv(style.talker, NumberOf(s), s, ids) /\ intact' = intact
  BY DEF ReceiveGsv
<1>2. ReceiverInv /\ DecoderTypes /\ Consistent /\ SetsOfSignals
  BY DEF Inv, DecoderInv
<1>3. style \in Styles /\ intact \in BOOLEAN
  BY <1>2 DEF ReceiverInv, ReceiverTypes
<1>4. style.talker \in Talkers /\ NumberOf(s) \in Nat /\ style' = style
  BY <1>1, <1>2, <1>3, StyleTypes, SendGsvFacts
<1> DEFINE fresh == Fresh(style.talker, s, ids)
<1>5. /\ fresh \subseteq sats' /\ sats' \subseteq sats \cup fresh
      /\ fresh \subseteq Keys
      /\ lit' \subseteq sats' /\ seen' \subseteq Signals /\ updated' \subseteq updated
      /\ used' = used
      /\ \A k \in sats' : IF k \in fresh THEN k \in lit' <=> IsSatelliteUsed(k)
                                         ELSE k \in lit' <=> k \in lit
  BY <1>1, <1>2, <1>4, GsvEffect
<1> HIDE DEF fresh
<1>6. DecoderTypes'
  BY <1>1, <1>2, <1>5 DEF DecoderTypes
<1>7. Consistent'
  <2> SUFFICES ASSUME NEW k \in sats', <<k.constellation, k.signal>> \in DOMAIN used
               PROVE  k \in lit' <=> k.svid \in used[<<k.constellation, k.signal>>]
    BY <1>5 DEF Consistent
  <2>1. CASE k \in fresh
    BY <1>5, <2>1 DEF IsSatelliteUsed
  <2>2. CASE k \notin fresh
    BY <1>2, <1>5, <2>2 DEF Consistent
  <2>3. QED
    BY <2>1, <2>2
<1>8. SetsOfSignals'
  BY <1>2, <1>4, <1>5 DEF SetsOfSignals
<1>9. ReceiverInv'
  BY <1>1, <1>2, <1>3, SendGsvReceiver
<1>10. QED
  BY <1>6, <1>7, <1>8, <1>9 DEF Inv, DecoderInv

LEMMA ReceiveGsaInv ==
  ASSUME Inv, NEW g \in SignalIds \cup {0}, NEW ids \in SUBSET RawIds,
         ReceiveGsa(g, ids)
  PROVE  Inv'
<1>1. /\ SendGsa(g, ids) /\ Gsa(style.talker, g, ids) /\ intact' = intact
  BY DEF ReceiveGsa
<1>2. ReceiverInv /\ DecoderTypes /\ Consistent /\ SetsOfSignals
  BY DEF Inv, DecoderInv
<1>3. style \in Styles /\ intact \in BOOLEAN
  BY <1>2 DEF ReceiverInv, ReceiverTypes
<1>4. style.talker \in Talkers /\ style' = style /\ g \in style.gsa
  BY <1>1, <1>2, <1>3, StyleTypes, SendGsaFacts
<1> DEFINE c == style.talker
           pairs == Pairs(c, g, ids)
<1>5. /\ sats' = sats /\ seen' = seen /\ updated' = updated \cup pairs
      /\ DOMAIN used' = pairs \cup DOMAIN used
      /\ \A p \in DOMAIN used' :
           used'[p] = IF p \in pairs THEN Merged(p, Groups(c, ids)[p[1]]) ELSE used[p]
      /\ lit' \subseteq sats /\ Consistent'
  BY <1>1, <1>2, GsaEffect
<1>6. \A p \in pairs : /\ p \in Signals /\ p[2] = g
                       /\ Groups(c, ids)[p[1]] \in SUBSET Svids
  <2> SUFFICES ASSUME NEW d \in DOMAIN Groups(c, ids)
               PROVE  /\ <<d, g>> \in Signals /\ <<d, g>>[2] = g
                      /\ Groups(c, ids)[d] \in SUBSET Svids
    BY DEF Pairs
  <2>1. d \in Constellations /\ Groups(c, ids)[d] \subseteq Svids
    BY <1>4, GroupsProperties
  <2>2. QED
    BY <2>1 DEF Signals
<1> HIDE DEF c, pairs
<1>7. DecoderTypes'
  <2>1. \A p \in DOMAIN used' : used'[p] \subseteq Svids
    <3> SUFFICES ASSUME NEW p \in DOMAIN used' PROVE used'[p] \subseteq Svids
      OBVIOUS
    <3>1. CASE p \in pairs
      BY <1>2, <1>5, <1>6, <3>1, MergedTypes
    <3>2. CASE p \notin pairs
      BY <1>2, <1>5, <3>2 DEF DecoderTypes
    <3>3. QED
      BY <3>1, <3>2
  <2>2. QED
    BY <1>1, <1>2, <1>5, <1>6, <2>1 DEF DecoderTypes
<1>8. SetsOfSignals'
  BY <1>2, <1>4, <1>5, <1>6 DEF SetsOfSignals
<1>9. ReceiverInv'
  BY <1>1, <1>2, <1>3, SendGsaReceiver
<1>10. QED
  BY <1>5, <1>7, <1>8, <1>9 DEF Inv, DecoderInv

LEMMA LossInv ==
  ASSUME Inv, NEW s, NEW ids, LoseSentence(s, ids)
  PROVE  Inv'
<1>1. /\ SendGsv(s, ids) \/ SendGsa(s, ids)
      /\ intact' = FALSE /\ UNCHANGED <<sats, lit, used, seen, updated>>
  BY DEF LoseSentence, decoder
<1>2. ReceiverInv
  BY DEF Inv
<1>3. ReceiverInv'
  BY <1>1, <1>2, SendGsvReceiver, SendGsaReceiver
<1>4. style' = style
  BY <1>1 DEF SendGsv, SendGsa
<1>5. DecoderInv'
  BY <1>1, <1>4 DEF Inv, DecoderInv, DecoderTypes, Consistent, SetsOfSignals
<1>6. QED
  BY <1>3, <1>5 DEF Inv

LEMMA SessionInv ==
  ASSUME Inv, StartSession
  PROVE  Inv'
<1>1. /\ sats' = {} /\ lit' = {} /\ used' = [p \in {} |-> {}]
      /\ seen' = {} /\ updated' = {}
      /\ intact' = FALSE
      /\ UNCHANGED <<style, truth, gsvLeft, gsaLeft, number, intactLast>>
  BY DEF StartSession, NothingUsed
<1>2. DOMAIN used' = {}
  BY <1>1
<1>3. DecoderInv'
  BY <1>1, <1>2 DEF Inv, DecoderInv, DecoderTypes, Consistent, SetsOfSignals
<1>4. ReceiverInv'
  BY <1>1 DEF Inv, ReceiverInv, ReceiverTypes, SignalsInOrder, GsaAndGsv, Begun,
              GsvComplete, GsaComplete
<1>5. QED
  BY <1>3, <1>4 DEF Inv

LEMMA StepInv == Inv /\ [Next]_vars => Inv'
<1> SUFFICES ASSUME Inv, [Next]_vars PROVE Inv'
  OBVIOUS
<1>1. CASE UNCHANGED vars
  BY <1>1 DEF vars, decoder, receiver, Inv, ReceiverInv, ReceiverTypes, SignalsInOrder,
              GsaAndGsv, Begun, GsvComplete, GsaComplete, DecoderInv, DecoderTypes,
              Consistent, SetsOfSignals
<1>2. QED
  BY <1>1, NewEpochInv, ReceiveGsvInv, ReceiveGsaInv, LossInv, SessionInv DEF Next

(* Inv holds in every state, whatever sentences are lost. *)
THEOREM Invariance == Spec => []Inv
BY InitInv, StepInv, PTL DEF Spec

(***************************************************************************)
(* Type correctness: the decoder's satellites and sets are of satellites   *)
(* and signals that the receiver can name, and only satellites it has are  *)
(* marked as used.                                                         *)
(***************************************************************************)
THEOREM TypeCorrect == Spec => []TypeOK
<1>1. Inv => TypeOK
  BY DEF Inv, ReceiverInv, ReceiverTypes, DecoderInv, DecoderTypes, TypeOK
<1>2. QED
  BY <1>1, Invariance, PTL

-----------------------------------------------------------------------------
(* Cycles of GSV sentences. *)

(* What the receiver has reported of signal s in this epoch. *)
Told(s) == truth.view[s] \ Rest(gsvLeft, s)

(* Of signal s the decoder has exactly what was reported so far. *)
Replaced(s) ==
  \A k \in Keys : k.signal = s /\ Own(k) =>
    (k \in sats <=> k \in Fresh(style.talker, s, Told(s)))

(***************************************************************************)
(* While nothing is lost, the signals seen in this cycle are, of those     *)
(* still to be reported, the one that has begun; so the first sentence of  *)
(* each signal, and no other, erases its old satellites.                   *)
(***************************************************************************)
CycleInv ==
  intact =>
    /\ \A s \in DOMAIN gsvLeft : Begun(s) => <<style.talker, s>> \in seen
    /\ number > 0 =>
         \A s \in DOMAIN gsvLeft : ~Begun(s) => <<style.talker, s>> \notin seen
    /\ \A s \in style.gsv : Begun(s) => Replaced(s)

LEMMA FreshTypes ==
  ASSUME NEW c \in Talkers, NEW s \in SignalIds \cup {0}, NEW ids \in SUBSET RawIds
  PROVE  /\ \A k \in Fresh(c, s, ids) : k \in Keys /\ k.signal = s
         /\ \A more :
              Fresh(c, s, ids \cup more) = Fresh(c, s, ids) \cup Fresh(c, s, more)
<1>1. \A k \in Fresh(c, s, ids) : k \in Keys /\ k.signal = s
  BY KeyTypes DEF Fresh
<1>2. \A more : Fresh(c, s, ids \cup more) = Fresh(c, s, ids) \cup Fresh(c, s, more)
  BY DEF Fresh
<1>3. QED
  BY <1>1, <1>2

LEMMA ReceiveGsvCycle ==
  ASSUME Inv, CycleInv, NEW s \in SignalIds \cup {0}, NEW ids \in SUBSET RawIds,
         ReceiveGsv(s, ids)
  PROVE  CycleInv'
<1> SUFFICES ASSUME intact'
             PROVE  /\ (\A t \in DOMAIN gsvLeft :
                          Begun(t) => <<style.talker, t>> \in seen)'
                    /\ (number > 0 => \A t \in DOMAIN gsvLeft :
                          ~Begun(t) => <<style.talker, t>> \notin seen)'
                    /\ (\A t \in style.gsv : Begun(t) => Replaced(t))'
  BY DEF CycleInv
<1>1. /\ SendGsv(s, ids) /\ Gsv(style.talker, NumberOf(s), s, ids) /\ intact
  BY DEF ReceiveGsv
<1>2. ReceiverInv /\ DecoderTypes /\ style \in Styles /\ truth \in Truths(style)
  BY DEF Inv, DecoderInv, ReceiverInv, ReceiverTypes
<1> DEFINE c == style.talker
           n == NumberOf(s)
<1>3. /\ s \in DOMAIN gsvLeft /\ s \in style.gsv
      /\ ids \subseteq gsvLeft[s] /\ gsvLeft[s] \subseteq truth.view[s]
      /\ Rest(gsvLeft', s) = gsvLeft[s] \ ids
      /\ \A other : other # s => Rest(gsvLeft', other) = Rest(gsvLeft, other)
      /\ DOMAIN gsvLeft' \subseteq DOMAIN gsvLeft
      /\ \A other \in DOMAIN gsvLeft : Begun(other) => other = s
      /\ Begun(s)' /\ (\A other : other # s => (Begun(other)' <=> Begun(other)))
      /\ n \in Nat /\ number' = n
      /\ (Begun(s) => n > 1) /\ (n > 1 => number > 0)
      /\ UNCHANGED <<style, truth>>
  BY <1>1, <1>2, SendGsvFacts
<1>4. c \in Talkers
  BY <1>2, StyleTypes
<1>5. /\ Fresh(c, s, ids) \subseteq sats' /\ sats' \subseteq sats \cup Fresh(c, s, ids)
      /\ \A k \in sats : k.signal # s => k \in sats'
      /\ (n <= 1 \/ <<c, s>> \notin seen) =>
           \A k \in sats' : k.signal = s /\ (c = "GNSS" \/ k.constellation = c)
                              => k \in Fresh(c, s, ids)
      /\ n > 1 /\ <<c, s>> \in seen => sats \subseteq sats'
      /\ <<c, s>> \in seen'
      /\ \A t : t # s /\ <<c, t>> \in seen' => n > 1 /\ <<c, t>> \in seen
  BY <1>1, <1>2, <1>3, <1>4, GsvEffect
<1> HIDE DEF n
<1>6. \A t \in DOMAIN gsvLeft : Begun(t) => <<c, t>> \in seen
  BY <1>1 DEF CycleInv
<1>7. number > 0 => \A t \in DOMAIN gsvLeft : ~Begun(t) => <<c, t>> \notin seen
  BY <1>1 DEF CycleInv
<1>8. \A t \in style.gsv : Begun(t) => Replaced(t)
  BY <1>1 DEF CycleInv
<1>9. (\A t \in DOMAIN gsvLeft : Begun(t) => <<style.talker, t>> \in seen)'
  BY <1>3, <1>5
<1>10. (\A t \in DOMAIN gsvLeft : ~Begun(t) => <<style.talker, t>> \notin seen)'
  <2> SUFFICES ASSUME NEW t \in DOMAIN gsvLeft', ~Begun(t)', <<c, t>> \in seen'
               PROVE  FALSE
    BY <1>3
  <2>1. t # s /\ ~Begun(t) /\ t \in DOMAIN gsvLeft
    BY <1>3
  <2>2. n > 1 /\ <<c, t>> \in seen
    BY <1>5, <2>1
  <2>3. QED
    BY <1>3, <1>7, <2>1, <2>2
<1>11. ASSUME NEW k \in Keys, k.signal = s, c = "GNSS" \/ k.constellation = c
       PROVE  k \in sats' <=> k \in Fresh(c, s, truth.view[s] \ (gsvLeft[s] \ ids))
  <2>1. CASE Begun(s)
    <3>1. truth.view[s] \ (gsvLeft[s] \ ids) = ids \cup Told(s)
      BY <1>3 DEF Told, Rest
    <3>2. Fresh(c, s, truth.view[s] \ (gsvLeft[s] \ ids))
            = Fresh(c, s, ids) \cup Fresh(c, s, Told(s))
      BY <1>4, <3>1, FreshTypes
    <3>3. k \in sats <=> k \in Fresh(c, s, Told(s))
      BY <1>3, <1>8, <1>11, <2>1 DEF Replaced, Own
    <3>4. n > 1 /\ <<c, s>> \in seen
      BY <1>3, <1>6, <2>1
    <3>5. QED
      BY <1>5, <3>2, <3>3, <3>4
  <2>2. CASE ~Begun(s)
    <3>1. truth.view[s] \ (gsvLeft[s] \ ids) = ids
      BY <1>3, <2>2 DEF Begun, Rest
    <3>2. n <= 1 \/ <<c, s>> \notin seen
      BY <1>3, <1>7, <2>2
    <3>3. QED
      BY <1>5, <1>11, <3>1, <3>2
  <2>3. QED
    BY <2>1, <2>2
<1>12. ASSUME NEW t \in style.gsv, t # s, Replaced(t)
       PROVE  \A k \in Keys : k.signal = t /\ (c = "GNSS" \/ k.constellation = c) =>
                (k \in sats' <=> k \in Fresh(c, t, truth.view[t] \ Rest(gsvLeft', t)))
  <2> SUFFICES ASSUME NEW k \in Keys, k.signal = t, c = "GNSS" \/ k.constellation = c
               PROVE  k \in sats' <=>
                        k \in Fresh(c, t, truth.view[t] \ Rest(gsvLeft', t))
    OBVIOUS
  <2>1. k \in sats <=> k \in Fresh(c, t, truth.view[t] \ Rest(gsvLeft, t))
    BY <1>12 DEF Replaced, Own, Told
  <2>2. k \notin Fresh(c, s, ids)
    BY <1>4, <1>12, FreshTypes
  <2>3. k \in sats' <=> k \in sats
    BY <1>5, <1>12, <2>2
  <2>4. QED
    BY <1>3, <1>12, <2>1, <2>3
<1>13. (\A t \in style.gsv : Begun(t) => Replaced(t))'
  <2> SUFFICES ASSUME NEW t \in style.gsv, Begun(t)' PROVE Replaced(t)'
    BY <1>3
  <2>1. CASE t = s
    BY <1>3, <1>11, <2>1 DEF Replaced, Own, Told
  <2>2. CASE t # s
    <3>1. Replaced(t)
      BY <1>3, <1>8, <2>2
    <3>2. QED
      BY <1>3, <1>12, <2>2, <3>1 DEF Replaced, Own, Told
  <2>3. QED
    BY <2>1, <2>2
<1>14. QED
  BY <1>9, <1>10, <1>13

LEMMA CycleStep == Inv /\ CycleInv /\ [Next]_vars => CycleInv'
<1> SUFFICES ASSUME Inv, CycleInv, [Next]_vars PROVE CycleInv'
  OBVIOUS
<1>1. CASE UNCHANGED vars
  BY <1>1 DEF vars, decoder, receiver, CycleInv, Begun, Replaced, Told, Own
<1>2. CASE NewEpoch
  <2>1. \A s \in style.gsv : ~Begun(s)'
    BY <1>2, NewEpochReceiver DEF Inv
  <2>2. ReceiverTypes'
    BY <1>2, NewEpochReceiver DEF Inv, ReceiverInv
  <2>3. DOMAIN gsvLeft' \subseteq style.gsv /\ style' = style /\ number' = 0
    BY <1>2, <2>2 DEF NewEpoch, ReceiverTypes
  <2>4. QED
    BY <2>1, <2>3 DEF CycleInv
<1>3. ASSUME NEW s \in SignalIds \cup {0}, NEW ids \in SUBSET RawIds, ReceiveGsa(s, ids)
      PROVE  CycleInv'
  <2>1. SendGsa(s, ids) /\ Gsa(style.talker, s, ids) /\ intact' = intact
    BY <1>3 DEF ReceiveGsa
  <2>2. UNCHANGED <<style, truth, gsvLeft, number>>
    BY <2>1 DEF SendGsa
  <2>3. sats' = sats /\ seen' = seen
    BY <2>1, GsaEffect
  <2>4. QED
    BY <2>1, <2>2, <2>3 DEF CycleInv, Begun, Replaced, Told, Own
<1>4. ASSUME NEW s, NEW ids, LoseSentence(s, ids) PROVE CycleInv'
  BY <1>4 DEF LoseSentence, CycleInv
<1>5. ASSUME StartSession PROVE CycleInv'
  BY <1>5 DEF StartSession, CycleInv
<1>6. QED
  BY <1>1, <1>2, <1>3, <1>4, <1>5, ReceiveGsvCycle DEF Next

LEMMA CycleInvariance == Spec => []CycleInv
<1>1. Init => CycleInv
  BY DEF Init, CycleInv
<1>2. QED
  BY <1>1, InitInv, StepInv, CycleStep, PTL DEF Spec

(***************************************************************************)
(* An epoch received in full replaces the satellites of every signal it    *)
(* reported: its first GSV erases the old ones, and no later one does.     *)
(***************************************************************************)
THEOREM CyclesReplace == Spec => []CycleReplaces
<1>1. Inv /\ CycleInv => CycleReplaces
  <2> SUFFICES ASSUME Inv, CycleInv, EpochReceived, NEW s \in Reported
               PROVE  {k \in sats : k.signal = s /\ Own(k)}
                       = {k \in {KeyOf(style.talker, s, raw) : raw \in truth.view[s]} :
                            Own(k)}
    BY DEF CycleReplaces
  <2>1. DOMAIN gsvLeft = {} /\ intact
    BY DEF EpochReceived, GsvComplete
  <2>2. s \in style.gsv /\ truth.view[s] # {} /\ Rest(gsvLeft, s) = {}
    BY <2>1 DEF Reported, Rest
  <2>3. Begun(s) /\ Told(s) = truth.view[s]
    BY <2>2 DEF Begun, Told
  <2>4. Replaced(s)
    BY <2>1, <2>2, <2>3 DEF CycleInv
  <2>5. /\ style.talker \in Talkers /\ s \in SignalIds \cup {0}
        /\ truth.view[s] \in SUBSET RawIds /\ sats \subseteq Keys
    BY <2>2, StyleTypes, TruthTypes
       DEF Inv, ReceiverInv, ReceiverTypes, DecoderInv, DecoderTypes
  <2>6. \A k \in Fresh(style.talker, s, truth.view[s]) : k \in Keys /\ k.signal = s
    BY <2>5, FreshTypes
  <2>7. {k \in sats : k.signal = s /\ Own(k)}
          = {k \in Fresh(style.talker, s, truth.view[s]) : Own(k)}
    BY <2>3, <2>4, <2>5, <2>6 DEF Replaced
  <2>8. QED
    BY <2>7 DEF Fresh
<1>2. QED
  BY <1>1, Invariance, CycleInvariance, PTL

-----------------------------------------------------------------------------
(* Sets of used satellites. *)

(* The set of marks that a GSA of signal g sets, and what such sentences   *)
(* have listed in this epoch.                                              *)
Set(g)    == <<style.talker, g>>
Listed(g) == OwnIds(style.talker, truth.used[g] \ Rest(gsaLeft, g))

(* A GSA without ids leaves an empty set. *)
EmptyIfUnused(g) ==
  g \notin DOMAIN gsaLeft /\ truth.used[g] = {} =>
    Set(g) \in DOMAIN used /\ used[Set(g)] = {}

(* The round of GSA of the last epoch is over before one of this counts.   *)
Renewing == IF style.gsaFirst THEN intactLast ELSE number > 0

(* The set has what was listed so far: a GSA of this epoch has replaced    *)
(* what it was before, and those after it have added to it.                *)
Collected(g) ==
  /\ Set(g) \in updated \/ Listed(g) # {} =>
       Set(g) \in DOMAIN used /\ used[Set(g)] = Listed(g)
  /\ g \in DOMAIN gsaLeft /\ Listed(g) # {} => Set(g) \in updated

(* Satellites with signals follow the set for all signals. *)
MarkedByAll(s) ==
  \A k \in sats : k.constellation = style.talker /\ k.signal = s =>
    (k \in lit <=> Set(0) \in DOMAIN used /\ k.svid \in used[Set(0)])

(* GSA that come first find the round of the last epoch closed by its GSV, *)
(* those that come last by the GSV of their own.                           *)
SetsInv ==
  /\ \A g \in style.gsa : EmptyIfUnused(g)
  /\ style.gsaFirst /\ number > 0 => \A g \in style.gsa : Set(g) \notin updated
  /\ Renewing => \A g \in style.gsa : Collected(g)

MarksInv ==
  style.gsaFirst /\ style.gsa = {0} =>
    \A s \in style.gsv \ {0} : Begun(s) => MarkedByAll(s)

UsedInv == style.talker # "GNSS" /\ intact => SetsInv /\ MarksInv

LEMMA UsedTypes ==
  ASSUME Inv
  PROVE  /\ style \in Styles /\ style.talker \in Talkers /\ truth \in Truths(style)
         /\ style.gsv \subseteq SignalIds \cup {0}
         /\ style.gsa \subseteq SignalIds \cup {0}
         /\ \A g \in style.gsa : truth.used[g] \in SUBSET RawIds
         /\ ReceiverInv /\ DecoderTypes /\ Consistent /\ SetsOfSignals
         /\ ReceiverTypes /\ SignalsInOrder /\ GsaAndGsv /\ number \in Nat
BY StyleTypes, TruthTypes DEF Inv, ReceiverInv, ReceiverTypes, DecoderInv

-----------------------------------------------------------------------------
(* A GSV sentence. *)

(* It changes no set, and only the first of a cycle closes the round. *)
LEMMA GsvSets ==
  ASSUME Inv, style.talker # "GNSS", SetsInv,
         NEW s \in SignalIds \cup {0}, NEW ids \in SUBSET RawIds, ReceiveGsv(s, ids)
  PROVE  SetsInv'
<1>1. SendGsv(s, ids) /\ Gsv(style.talker, NumberOf(s), s, ids)
  BY DEF ReceiveGsv
<1> DEFINE c == style.talker
           n == NumberOf(s)
<1>2. /\ s \in DOMAIN gsvLeft /\ number' = n /\ n \in Nat
      /\ (n > 1 => number > 0) /\ (style.gsaFirst => GsaComplete)
      /\ UNCHANGED <<style, truth, gsaLeft, intactLast>>
  BY <1>1, UsedTypes, SendGsvFacts
<1>3. /\ used' = used /\ updated' \subseteq updated
      /\ n <= 1 => \A g : <<c, g>> \notin updated'
      /\ n > 1 => updated' = updated
  BY <1>1, <1>2, UsedTypes, GsvEffect
<1>4. \A g : EmptyIfUnused(g)' <=> EmptyIfUnused(g)
  BY <1>2, <1>3 DEF EmptyIfUnused, Set
<1>5. \A g : Set(g)' = Set(g) /\ Set(g) = <<c, g>> /\ Listed(g)' = Listed(g)
  BY <1>2 DEF Set, Listed
<1> HIDE DEF c, n
<1>6. (style.gsaFirst /\ number > 0 => \A g \in style.gsa : Set(g) \notin updated)'
  <2>1. n > 1 \/ n <= 1
    BY <1>2
  <2>2. CASE n > 1
    BY <1>2, <1>3, <1>5, <2>2 DEF SetsInv
  <2>3. CASE n <= 1
    BY <1>2, <1>3, <1>5, <2>3
  <2>4. QED
    BY <2>1, <2>2, <2>3
<1>7. (Renewing => \A g \in style.gsa : Collected(g))'
  <2> SUFFICES ASSUME Renewing', NEW g \in style.gsa PROVE Collected(g)'
    BY <1>2
  <2>1. CASE style.gsaFirst
    <3>1. Renewing /\ DOMAIN gsaLeft = {}
      BY <1>2, <2>1 DEF Renewing, GsaComplete
    <3>2. Collected(g)
      BY <3>1 DEF SetsInv
    <3>3. QED
      BY <1>2, <1>3, <1>5, <3>1, <3>2 DEF Collected
  <2>2. CASE ~style.gsaFirst
    <3>1. Rest(gsaLeft, g) = truth.used[g]
      BY <1>2, <2>2, UsedTypes DEF GsaAndGsv, GsvComplete
    <3>2. Listed(g) = {}
      BY <3>1, OwnIdsProperties DEF Listed
    <3>3. CASE n <= 1
      BY <1>3, <1>5, <3>2, <3>3 DEF Collected
    <3>4. CASE n > 1
      <4>1. Renewing
        BY <1>2, <2>2, <3>4 DEF Renewing
      <4>2. Collected(g)
        BY <4>1 DEF SetsInv
      <4>3. QED
        BY <1>2, <1>3, <1>5, <3>2, <3>4, <4>2 DEF Collected
    <3>5. QED
      BY <1>2, <3>3, <3>4
  <2>3. QED
    BY <2>1, <2>2
<1>8. QED
  BY <1>2, <1>4, <1>6, <1>7 DEF SetsInv

(* It marks what it lists by the set for all signals; the rest was. *)
LEMMA GsvMarks ==
  ASSUME Inv, CycleInv, intact, style.talker # "GNSS", MarksInv,
         NEW s \in SignalIds \cup {0}, NEW ids \in SUBSET RawIds, ReceiveGsv(s, ids)
  PROVE  MarksInv'
<1>1. SendGsv(s, ids) /\ Gsv(style.talker, NumberOf(s), s, ids)
  BY DEF ReceiveGsv
<1> DEFINE c == style.talker
           n == NumberOf(s)
           fresh == Fresh(c, s, ids)
<1>2. /\ s \in DOMAIN gsvLeft /\ n \in Nat /\ (n > 1 => number > 0)
      /\ (\A other : other # s => (Begun(other)' <=> Begun(other)))
      /\ UNCHANGED <<style, truth>>
  BY <1>1, UsedTypes, SendGsvFacts
<1>3. /\ sats' \subseteq sats \cup fresh /\ (\A k \in fresh : k.signal = s)
      /\ (n <= 1 \/ <<c, s>> \notin seen) =>
           \A k \in sats' : k.signal = s /\ (c = "GNSS" \/ k.constellation = c)
                            => k \in fresh
      /\ \A k \in sats' : IF k \in fresh THEN k \in lit' <=> IsSatelliteUsed(k)
                                         ELSE k \in lit' <=> k \in lit
      /\ used' = used
  BY <1>1, <1>2, UsedTypes, GsvEffect
<1>4. ~Begun(s) => n <= 1 \/ <<c, s>> \notin seen
  BY <1>2 DEF CycleInv
<1> HIDE DEF n, fresh
<1> SUFFICES ASSUME style.gsaFirst, style.gsa = {0},
                    NEW t \in style.gsv \ {0}, Begun(t)',
                    NEW k \in sats', k.constellation = c, k.signal = t
             PROVE  k \in lit' <=> Set(0) \in DOMAIN used /\ k.svid \in used[Set(0)]
  BY <1>2, <1>3 DEF MarksInv, MarkedByAll, Set
<1>5. CASE k \in fresh
  <2>1. <<c, t>> \notin DOMAIN used
    BY UsedTypes DEF SetsOfSignals
  <2>2. QED
    BY <1>3, <1>5, <2>1 DEF IsSatelliteUsed, Set
<1>6. CASE k \notin fresh
  <2>1. k \in sats /\ (k \in lit' <=> k \in lit)
    BY <1>3, <1>6
  <2>2. t = s => Begun(s)
    BY <1>3, <1>4, <1>6
  <2>3. Begun(t)
    BY <1>2, <2>2
  <2>4. MarkedByAll(t)
    BY <2>3 DEF MarksInv
  <2>5. QED
    BY <2>1, <2>4 DEF MarkedByAll
<1>7. QED
  BY <1>5, <1>6

-----------------------------------------------------------------------------
(* A GSA sentence. *)

(* The set of its signal has the sentence's own ids added, or replaced. *)
LEMMA GsaCollects ==
  ASSUME Inv, style.talker # "GNSS", SetsInv, Renewing,
         NEW g \in SignalIds \cup {0}, NEW ids \in SUBSET RawIds, ReceiveGsa(g, ids)
  PROVE  Collected(g)'
<1>1. SendGsa(g, ids) /\ Gsa(style.talker, g, ids)
  BY DEF ReceiveGsa
<1> DEFINE c == style.talker
           own == OwnIds(c, ids)
           groups == Groups(c, ids)
           p == <<c, g>>
           before == Listed(g)
           after == Listed(g)'
<1>2. /\ g \in DOMAIN gsaLeft /\ g \in style.gsa
      /\ ids \subseteq gsaLeft[g] /\ gsaLeft[g] \subseteq truth.used[g]
      /\ (ids = {} => truth.used[g] = {})
      /\ Rest(gsaLeft', g) = gsaLeft[g] \ ids
      /\ UNCHANGED <<style, truth>>
  BY <1>1, UsedTypes, SendGsaFacts
<1>3. /\ updated' = updated \cup Pairs(c, g, ids)
      /\ DOMAIN used' = Pairs(c, g, ids) \cup DOMAIN used
      /\ \A q \in DOMAIN used' :
           used'[q] = IF q \in Pairs(c, g, ids)
                      THEN Merged(q, groups[q[1]]) ELSE used[q]
  BY <1>1, GsaEffect
<1>4. /\ c \in DOMAIN groups <=> (ids = {} \/ own # {})
      /\ c \in DOMAIN groups => groups[c] = own
  BY UsedTypes, GroupsProperties
<1>5. p \in Pairs(c, g, ids) <=> c \in DOMAIN groups
  BY DEF Pairs
<1>6. after = before \cup own
  <2>1. truth.used[g] \ (gsaLeft[g] \ ids) = (truth.used[g] \ gsaLeft[g]) \cup ids
    BY <1>2
  <2>2. /\ after = OwnIds(c, truth.used[g] \ (gsaLeft[g] \ ids))
        /\ before = OwnIds(c, truth.used[g] \ gsaLeft[g])
    BY <1>2 DEF Listed, Rest
  <2>3. QED
    BY <2>1, <2>2, OwnIdsProperties
<1>7. ids = {} => before = {} /\ own = {}
  BY <1>2, OwnIdsProperties DEF Listed
<1>8. /\ p \in updated \/ before # {} => p \in DOMAIN used /\ used[p] = before
      /\ before # {} => p \in updated
  BY <1>2 DEF SetsInv, Collected, Set
<1>9. Set(g)' = p
  BY <1>2 DEF Set
<1>10. p[1] = c
  OBVIOUS
<1> HIDE DEF groups, own, p, before, after, c
<1>11. CASE c \in DOMAIN groups
  <2>1. p \in updated' /\ p \in DOMAIN used' /\ used'[p] = Merged(p, own)
    BY <1>3, <1>4, <1>5, <1>10, <1>11
  <2>2. Merged(p, own) = before \cup own
    BY <1>4, <1>7, <1>8, <1>11 DEF Merged
  <2>3. QED
    BY <1>6, <1>9, <2>1, <2>2 DEF Collected, after
<1>12. CASE c \notin DOMAIN groups
  <2>1. p \in updated' <=> p \in updated
    BY <1>3, <1>5, <1>12
  <2>2. p \in DOMAIN used => p \in DOMAIN used' /\ used'[p] = used[p]
    BY <1>3, <1>5, <1>12
  <2>3. after = before
    BY <1>4, <1>6, <1>12
  <2>4. QED
    BY <1>8, <1>9, <2>1, <2>2, <2>3 DEF Collected, after
<1>13. QED
  BY <1>11, <1>12

LEMMA GsaSets ==
  ASSUME Inv, style.talker # "GNSS", SetsInv,
         NEW g \in SignalIds \cup {0}, NEW ids \in SUBSET RawIds, ReceiveGsa(g, ids)
  PROVE  SetsInv'
<1>1. SendGsa(g, ids) /\ Gsa(style.talker, g, ids)
  BY DEF ReceiveGsa
<1> DEFINE c == style.talker
           pairs == Pairs(c, g, ids)
<1>2. /\ g \in DOMAIN gsaLeft /\ g \in style.gsa
      /\ ids \subseteq gsaLeft[g] /\ gsaLeft[g] \subseteq truth.used[g]
      /\ \A other : other # g => Rest(gsaLeft', other) = Rest(gsaLeft, other)
      /\ DOMAIN gsaLeft' \subseteq DOMAIN gsaLeft
      /\ \A other \in DOMAIN gsaLeft \ {g} : other \in DOMAIN gsaLeft'
      /\ UNCHANGED <<style, truth, number, intactLast>>
  BY <1>1, UsedTypes, SendGsaFacts
<1>3. /\ updated' = updated \cup pairs /\ DOMAIN used' = pairs \cup DOMAIN used
      /\ \A q \in DOMAIN used' :
           used'[q] = IF q \in pairs THEN Merged(q, Groups(c, ids)[q[1]]) ELSE used[q]
  BY <1>1, GsaEffect
<1>4. ASSUME NEW t, t # g
      PROVE  /\ <<c, t>> \in updated' <=> <<c, t>> \in updated
             /\ <<c, t>> \in DOMAIN used =>
                  <<c, t>> \in DOMAIN used' /\ used'[<<c, t>>] = used[<<c, t>>]
  <2>1. <<c, t>> \notin pairs
    BY <1>4 DEF Pairs
  <2>2. QED
    BY <1>3, <2>1
<1>5. \A t : Set(t) = <<c, t>> /\ Set(t)' = <<c, t>>
  BY <1>2 DEF Set
<1> HIDE DEF pairs
<1>6. ASSUME NEW t \in style.gsa PROVE EmptyIfUnused(t)'
  <2> SUFFICES ASSUME t \notin DOMAIN gsaLeft', truth.used[t] = {}
               PROVE  <<c, t>> \in DOMAIN used' /\ used'[<<c, t>>] = {}
    BY <1>2, <1>5 DEF EmptyIfUnused
  <2>1. CASE t = g
    <3>1. ids = {}
      BY <1>2, <2>1
    <3>2. c \in DOMAIN Groups(c, ids) /\ Groups(c, ids)[c] = {}
      BY <3>1, UsedTypes, GroupsProperties, OwnIdsProperties
    <3>3. <<c, g>> \in pairs
      BY <3>2 DEF Pairs, pairs
    <3>4. <<c, g>> \in DOMAIN used' /\ used'[<<c, g>>] = Merged(<<c, g>>, {})
      BY <1>3, <3>2, <3>3
    <3>5. QED
      BY <2>1, <3>4 DEF Merged
  <2>2. CASE t # g
    <3>1. t \notin DOMAIN gsaLeft
      BY <1>2, <2>2
    <3>2. EmptyIfUnused(t)
      BY DEF SetsInv
    <3>3. <<c, t>> \in DOMAIN used /\ used[<<c, t>>] = {}
      BY <1>5, <3>1, <3>2 DEF EmptyIfUnused
    <3>4. QED
      BY <1>4, <2>2, <3>3
  <2>3. QED
    BY <2>1, <2>2
<1>7. ~(style.gsaFirst /\ number > 0)
  BY <1>2, UsedTypes DEF GsaAndGsv, GsaComplete
<1>8. ASSUME Renewing, NEW t \in style.gsa PROVE Collected(t)'
  <2>1. CASE t = g
    BY <1>8, <2>1, GsaCollects
  <2>2. CASE t # g
    <3>1. Collected(t)
      BY <1>8 DEF SetsInv
    <3>2. Listed(t)' = Listed(t)
      BY <1>2, <2>2 DEF Listed
    <3>3. t \in DOMAIN gsaLeft' => t \in DOMAIN gsaLeft
      BY <1>2
    <3>4. QED
      BY <1>4, <1>5, <2>2, <3>1, <3>2, <3>3 DEF Collected
  <2>3. QED
    BY <2>1, <2>2
<1>9. Renewing' <=> Renewing
  BY <1>2 DEF Renewing
<1>10. QED
  BY <1>2, <1>6, <1>7, <1>8, <1>9 DEF SetsInv

(* Where the set for all signals matters GSA come before any GSV. *)
LEMMA GsaMarks ==
  ASSUME Inv, NEW g, NEW ids, SendGsa(g, ids)
  PROVE  MarksInv'
<1>1. g \in DOMAIN gsaLeft /\ UNCHANGED <<style, truth, gsvLeft, number>>
  BY UsedTypes, SendGsaFacts
<1> SUFFICES ASSUME style.gsaFirst PROVE \A s \in style.gsv : ~Begun(s)'
  BY <1>1 DEF MarksInv
<1>2. number = 0
  BY <1>1, UsedTypes DEF GsaAndGsv, GsaComplete
<1>3. QED
  BY <1>1, <1>2, UsedTypes DEF SignalsInOrder, Begun

-----------------------------------------------------------------------------
(* An epoch that had no GSV to close its round had no satellite in use. *)
LEMMA NewEpochUsed ==
  ASSUME Inv, UsedInv, NewEpoch
  PROVE  UsedInv'
<1>1. /\ GsvComplete /\ GsaComplete /\ number' = 0 /\ intactLast' = intact
      /\ UNCHANGED <<sats, lit, used, seen, updated, style>>
  BY DEF NewEpoch, decoder
<1>2. PICK t \in Truths(style) : truth' = t /\ gsaLeft' = t.used
  BY DEF NewEpoch
<1>3. DOMAIN gsaLeft' = style.gsa
  BY <1>2, UsedTypes, TruthTypes
<1>4. MarksInv'
  BY <1>1, NewEpochReceiver DEF MarksInv, Inv
<1>5. \A g \in style.gsa : Listed(g)' = {} /\ Set(g)' = Set(g)
  <2> SUFFICES ASSUME NEW g \in style.gsa PROVE Listed(g)' = {} /\ Set(g)' = Set(g)
    OBVIOUS
  <2>1. Listed(g)' = OwnIds(style.talker, t.used[g] \ Rest(t.used, g))
    BY <1>1, <1>2 DEF Listed
  <2>2. t.used[g] \ Rest(t.used, g) = {}
    BY <1>2, <1>3 DEF Rest
  <2>3. QED
    BY <1>1, <2>1, <2>2, OwnIdsProperties DEF Set
<1>6. ASSUME style.talker # "GNSS" PROVE SetsInv'
  <2>1. \A g \in style.gsa : EmptyIfUnused(g)'
    BY <1>3 DEF EmptyIfUnused
  <2>2. ASSUME Renewing', NEW g \in style.gsa PROVE Collected(g)'
    <3> SUFFICES ASSUME Set(g) \in updated
                 PROVE  Set(g) \in DOMAIN used /\ used[Set(g)] = {}
      BY <1>1, <1>5 DEF Collected
    <3>1. style.gsaFirst /\ intact
      BY <1>1, <2>2 DEF Renewing
    <3>2. SetsInv
      BY <1>6, <3>1 DEF UsedInv
    <3>3. number = 0
      BY <3>1, <3>2, UsedTypes DEF SetsInv
    <3>4. \A s \in style.gsv : truth.view[s] = {}
      BY <1>1, <3>3, UsedTypes DEF SignalsInOrder, Begun, Rest, GsvComplete
    <3>5. truth.used[g] = {}
      BY <3>4, UsedTypes, TruthTypes
    <3>6. EmptyIfUnused(g)
      BY <3>2 DEF SetsInv
    <3>7. QED
      BY <1>1, <3>5, <3>6 DEF EmptyIfUnused, GsaComplete
  <2>3. QED
    BY <1>1, <2>1, <2>2 DEF SetsInv
<1>7. QED
  BY <1>1, <1>4, <1>6 DEF UsedInv

LEMMA UsedStep == Inv /\ CycleInv /\ UsedInv /\ [Next]_vars => UsedInv'
<1> SUFFICES ASSUME Inv, CycleInv, UsedInv, [Next]_vars PROVE UsedInv'
  OBVIOUS
<1>1. CASE UNCHANGED vars
  BY <1>1 DEF vars, decoder, receiver, UsedInv, SetsInv, MarksInv, EmptyIfUnused,
              Renewing, Collected, MarkedByAll, Listed, Set, Begun
<1>2. CASE NewEpoch
  BY <1>2, NewEpochUsed
<1>3. ASSUME NEW s \in SignalIds \cup {0}, NEW ids \in SUBSET RawIds, ReceiveGsv(s, ids)
      PROVE  UsedInv'
  <2> SUFFICES ASSUME style.talker # "GNSS", intact PROVE SetsInv' /\ MarksInv'
    BY <1>3 DEF UsedInv, ReceiveGsv, SendGsv
  <2>1. SetsInv /\ MarksInv
    BY DEF UsedInv
  <2>2. QED
    BY <1>3, <2>1, GsvSets, GsvMarks
<1>4. ASSUME NEW g \in SignalIds \cup {0}, NEW ids \in SUBSET RawIds, ReceiveGsa(g, ids)
      PROVE  UsedInv'
  <2> SUFFICES ASSUME style.talker # "GNSS", intact PROVE SetsInv' /\ MarksInv'
    BY <1>4 DEF UsedInv, ReceiveGsa, SendGsa
  <2>1. SetsInv /\ SendGsa(g, ids)
    BY <1>4 DEF UsedInv, ReceiveGsa
  <2>2. QED
    BY <1>4, <2>1, GsaSets, GsaMarks
<1>5. ASSUME NEW s, NEW ids, LoseSentence(s, ids) PROVE UsedInv'
  BY <1>5 DEF LoseSentence, UsedInv
<1>6. ASSUME StartSession PROVE UsedInv'
  BY <1>6 DEF StartSession, UsedInv
<1>7. QED
  BY <1>1, <1>2, <1>3, <1>4, <1>5, <1>6 DEF Next

LEMMA UsedInvariance == Spec => []UsedInv
<1>1. Init => CycleInv /\ UsedInv
  BY DEF Init, CycleInv, UsedInv
<1>2. QED
  BY <1>1, InitInv, StepInv, CycleStep, UsedStep, PTL DEF Spec

(* After an epoch received in full each set is what its GSA listed. *)
LEMMA SetIsListed ==
  ASSUME Inv, UsedInv, EpochReceived, intactLast, Matchable,
         NEW s \in Reported, NEW g \in style.gsa
  PROVE  /\ Set(g) \in DOMAIN used
         /\ used[Set(g)] = OwnIds(style.talker, truth.used[g])
<1>1. /\ style.talker # "GNSS" /\ intact /\ DOMAIN gsvLeft = {} /\ DOMAIN gsaLeft = {}
      /\ truth.used[g] # {} =>
           style.talker \in DOMAIN Groups(style.talker, truth.used[g])
  BY DEF EpochReceived, Matchable, GsvComplete, GsaComplete
<1>2. SetsInv
  BY <1>1 DEF UsedInv
<1>3. Listed(g) = OwnIds(style.talker, truth.used[g])
  BY <1>1 DEF Listed, Rest
<1>4. CASE truth.used[g] = {}
  <2>1. EmptyIfUnused(g)
    BY <1>2 DEF SetsInv
  <2>2. QED
    BY <1>1, <1>4, <2>1, OwnIdsProperties DEF EmptyIfUnused
<1>5. CASE truth.used[g] # {}
  <2>1. s \in style.gsv /\ Begun(s)
    BY <1>1 DEF Reported, Begun, Rest
  <2>2. number > 0
    BY <2>1, UsedTypes DEF SignalsInOrder
  <2>3. Renewing
    BY <2>2 DEF Renewing
  <2>4. Collected(g)
    BY <1>2, <2>3 DEF SetsInv
  <2>5. OwnIds(style.talker, truth.used[g]) # {}
    BY <1>1, <1>5, UsedTypes, GroupsProperties
  <2>6. QED
    BY <1>3, <2>4, <2>5 DEF Collected
<1>6. QED
  BY <1>4, <1>5

(***************************************************************************)
(* After two epochs received in full the marks are those of the last GSA   *)
(* sentences: updateUsedSatellites neither adds up the sets of two epochs  *)
(* nor loses a sentence's ids to those of a later one.                     *)
(***************************************************************************)
THEOREM MarksAreCurrent == Spec => []UsedMarksAreCurrent
<1>1. Inv /\ UsedInv => UsedMarksAreCurrent
  <2> SUFFICES ASSUME Inv, UsedInv, EpochReceived, intactLast, Matchable,
                      NEW k \in sats,
                      k.constellation = style.talker, k.signal \in Reported
               PROVE  k \in lit <=> k.svid \in truth.used[IF k.signal \in style.gsa
                                                          THEN k.signal ELSE 0]
    BY DEF UsedMarksAreCurrent
  <2> DEFINE c == style.talker
  <2>1. c # "GNSS" /\ c \in Talkers /\ k \in Keys /\ intact
    BY UsedTypes DEF Matchable, EpochReceived, DecoderTypes
  <2>2. \A g \in style.gsa :
          k.svid \in OwnIds(c, truth.used[g]) <=> k.svid \in truth.used[g]
    BY <2>1, UsedTypes, OwnIdsAreRaw
  <2>3. CASE k.signal \in style.gsa
    <3>1. /\ Set(k.signal) \in DOMAIN used
          /\ used[Set(k.signal)] = OwnIds(c, truth.used[k.signal])
      BY <2>3, SetIsListed
    <3>2. k \in lit <=> k.svid \in used[Set(k.signal)]
      BY <3>1, UsedTypes DEF Consistent, Set
    <3>3. QED
      BY <2>2, <2>3, <3>1, <3>2
  <2>4. CASE k.signal \notin style.gsa
    <3>1. k.signal \in style.gsv /\ truth.view[k.signal] # {}
      BY DEF Reported
    <3>2. style.gsa = {0} /\ style.gsaFirst /\ k.signal # 0
      BY <2>4, <3>1 DEF Matchable
    <3>3. Begun(k.signal)
      BY <3>1 DEF Begun, Rest, EpochReceived, GsvComplete
    <3>4. MarkedByAll(k.signal)
      BY <2>1, <3>1, <3>2, <3>3 DEF UsedInv, MarksInv
    <3>5. Set(0) \in DOMAIN used /\ used[Set(0)] = OwnIds(c, truth.used[0])
      BY <3>2, SetIsListed
    <3>6. QED
      BY <2>2, <2>4, <3>2, <3>4, <3>5 DEF MarkedByAll
  <2>5. QED
    BY <2>3, <2>4
<1>2. QED
  BY <1>1, Invariance, UsedInvariance, PTL

=============================================================================
