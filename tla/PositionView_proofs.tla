------------------------- MODULE PositionView_proofs -------------------------
(***************************************************************************)
(* Proofs about PositionView, for every length of the day, every interval  *)
(* of the timer and, but for the last two theorems, every error of the     *)
(* host's date.                                                            *)
(***************************************************************************)
EXTENDS PositionView, TLAPS

USE DEF Kinds, Dated, TimeOnly, Positions, Off, NoDay

(* What a message with a position may do to the deviation map: nothing, a  *)
(* better sentence for its last point, or a new point.                     *)
Kept          == UNCHANGED <<points, last>>
Improved(k)   == /\ SameEpoch(MessageTime(k)) /\ Better(k)
                 /\ points' = [points EXCEPT ![Len(points)].from = k]
                 /\ last' = [last EXCEPT !.priority = Priority[k]]
Added(k)      == /\ ~SameEpoch(MessageTime(k))
                 /\ points' = Append(points, [epoch |-> now, from |-> k])
                 /\ last' = [time |-> MessageTime(k), priority |-> Priority[k]]

-----------------------------------------------------------------------------
(* Every decoded time is a time, and unknown exactly when the receiver's   *)
(* is.                                                                     *)
LEMMA MessageTimes ==
  ASSUME TypeOK, NEW k \in Dated \cup TimeOnly
  PROVE  /\ hasTime => MessageTime(k) \in UtcTimes
         /\ ~hasTime => MessageTime(k) = NoTime
<1> USE PositionViewAssumption DEF TypeOK, MessageTime, UtcTimes
<1>1. ASSUME hasTime, k \in Dated  PROVE MessageTime(k) \in UtcTimes
  BY <1>1
<1>2. ASSUME hasTime, k \in TimeOnly  PROVE MessageTime(k) \in UtcTimes
  <2>1. skew \in {-1, 0, 1} /\ now.day + skew \in Nat
    BY <1>2
  <2>2. MessageTime(k) = [now EXCEPT !.day = now.day + skew]
    BY <1>2
  <2>3. QED BY <2>1, <2>2
<1>3. QED BY <1>1, <1>2

LEMMA NoTimeIsNone == NoTime \notin UtcTimes
BY DEF NoTime, UtcTimes

(* A sentence with a position that is valid comes with a time; what it     *)
(* does to the deviation map is one of three things.                       *)
LEMMA MapStep ==
  ASSUME TypeOK, NEW k \in Positions, NEW fix \in BOOLEAN, fix => hasTime,
         ApplyPosition(k, fix)
  PROVE  /\ ~fix => Kept
         /\ fix => (Kept /\ SameEpoch(MessageTime(k)) /\ ~Better(k)) \/ Improved(k) \/ Added(k)
<1>1. location'.validFix = fix
  BY DEF ApplyPosition
<1>2. RecordDeviationSample(k, MessageTime(k))
  BY DEF ApplyPosition
<1>3. ASSUME fix  PROVE MessageTime(k) # NoTime
  BY <1>3, MessageTimes, NoTimeIsNone
<1>4. QED BY <1>1, <1>2, <1>3 DEF RecordDeviationSample, Kept, Improved, Added

-----------------------------------------------------------------------------
(* Type correctness.                                                       *)

LEMMA MapTyped ==
  ASSUME TypeOK, NEW k \in Positions, hasTime, Kept \/ Improved(k) \/ Added(k)
  PROVE  /\ points' \in Seq([epoch : UtcTimes, from : Positions])
         /\ last' \in [time : UtcTimes \cup {NoTime}, priority : -1..3]
<1> DEFINE Point == [epoch : UtcTimes, from : Positions]
<1>1. points \in Seq(Point) /\ now \in UtcTimes
  BY DEF TypeOK
<1>2. Priority[k] \in 1..3
  BY DEF Priority
<1>3. CASE Kept
  BY <1>3 DEF Kept, TypeOK
<1>4. CASE Improved(k)
  <2>1. last' \in [time : UtcTimes \cup {NoTime}, priority : -1..3]
    BY <1>2, <1>4 DEF Improved, TypeOK
  <2>2. ASSUME NEW p \in Point  PROVE [p EXCEPT !.from = k] \in Point
    <3>1. [p EXCEPT !.from = k] = [epoch |-> p.epoch, from |-> k]
      OBVIOUS
    <3>2. QED BY <3>1
  <2>3. points' = [points EXCEPT ![Len(points)] = [points[Len(points)] EXCEPT !.from = k]]
    BY <1>4 DEF Improved
  <2>4. CASE Len(points) = 0
    <3>1. points = << >>
      BY <1>1, <2>4
    <3>2. points' = points
      <4>1. DOMAIN points = {} /\ Len(points) \notin DOMAIN points
        BY <3>1
      <4>2. QED BY <1>1, <2>3, <4>1
    <3>3. QED BY <1>1, <2>1, <3>2
  <2>5. CASE Len(points) # 0
    <3> DEFINE new == [points[Len(points)] EXCEPT !.from = k]
    <3>1. new \in Point
      <4>1. points[Len(points)] \in Point
        <5> HIDE DEF Point
        <5>1. QED BY <1>1, <2>5
      <4>2. QED BY <2>2, <4>1
    <3>2. [points EXCEPT ![Len(points)] = new] \in Seq(Point)
      <4> HIDE DEF new, Point
      <4>1. QED BY <1>1, <2>5, <3>1
    <3>3. QED BY <2>1, <2>3, <3>2
  <2>6. QED BY <2>4, <2>5
<1>5. CASE Added(k)
  <2>1. MessageTime(k) \in UtcTimes
    BY MessageTimes
  <2>2. last' \in [time : UtcTimes \cup {NoTime}, priority : -1..3]
    BY <1>2, <1>5, <2>1 DEF Added
  <2>3. [epoch |-> now, from |-> k] \in Point
    BY <1>1
  <2>4. QED BY <1>1, <1>5, <2>2, <2>3 DEF Added
<1>6. QED BY <1>3, <1>4, <1>5

LEMMA LocationTyped ==
  ASSUME TypeOK, NEW k \in Kinds \ {"none"}, NEW fix \in BOOLEAN, ApplyPosition(k, fix)
  PROVE  /\ location' \in [utc : UtcTimes \cup {NoTime}, validFix : BOOLEAN]
         /\ heard' \subseteq Positions
         /\ dated' \in Nat \cup {NoDay}
<1>1. ASSUME k \in Dated \cup TimeOnly
      PROVE  LocationUtcTime(k, MessageTime(k)) \in UtcTimes \cup {NoTime}
  <2>1. MessageTime(k) \in UtcTimes \cup {NoTime}
    BY <1>1, MessageTimes DEF TypeOK
  <2>2. location.utc \in UtcTimes \cup {NoTime}
    BY DEF TypeOK
  <2>3. ASSUME MessageTime(k) \in UtcTimes, location.utc \in UtcTimes
        PROVE  [MessageTime(k) EXCEPT !.day = location.utc.day] \in UtcTimes
    BY <2>3 DEF UtcTimes
  <2>4. QED BY <2>1, <2>2, <2>3 DEF LocationUtcTime
<1>2. location' = [utc |-> IF k \in Dated \cup TimeOnly THEN LocationUtcTime(k, MessageTime(k))
                           ELSE location.utc,
                   validFix |-> IF k \in Positions THEN fix ELSE location.validFix]
  BY DEF ApplyPosition
<1>3. location.utc \in UtcTimes \cup {NoTime} /\ location.validFix \in BOOLEAN
  BY DEF TypeOK
<1>4. location' \in [utc : UtcTimes \cup {NoTime}, validFix : BOOLEAN]
  BY <1>1, <1>2, <1>3
<1>5. heard' \subseteq Positions
  BY DEF ApplyPosition, TypeOK
<1>6. dated' \in Nat \cup {NoDay}
  BY DEF ApplyPosition, TypeOK, UtcTimes
<1>7. QED BY <1>4, <1>5, <1>6

(* The state is well typed: times are times of day of a day, the map holds *)
(* sentences with a position, and the timer never exceeds its interval.    *)
THEOREM TypeCorrect == Spec => []TypeOK
<1>1. Init => TypeOK
  BY PositionViewAssumption DEF Init, TypeOK, UtcTimes, NoTime, NoSample
<1>2. TypeOK /\ [Next]_vars => TypeOK'
  <2> SUFFICES ASSUME TypeOK, [Next]_vars  PROVE TypeOK'
    OBVIOUS
  <2>1. ASSUME NEW k \in Kinds, NEW fix \in BOOLEAN, NEW info \in BOOLEAN,
               HandleFrame(k, fix, info)
        PROVE  TypeOK'
    <3>1. /\ UNCHANGED receiver
          /\ dirty' \subseteq Parts /\ unseen' \subseteq Parts
          /\ timer' \in {Off} \cup 0..Interval
      BY <2>1, PositionViewAssumption DEF HandleFrame, TypeOK, Marked, Parts, TimerScheduled
    <3>2. /\ location' \in [utc : UtcTimes \cup {NoTime}, validFix : BOOLEAN]
          /\ heard' \subseteq Positions
          /\ dated' \in Nat \cup {NoDay}
      <4>1. CASE k = "none"
        BY <2>1, <4>1 DEF HandleFrame, TypeOK
      <4>2. CASE k # "none"
        BY <2>1, <4>2, LocationTyped DEF HandleFrame
      <4>3. QED BY <4>1, <4>2
    <3>3. /\ points' \in Seq([epoch : UtcTimes, from : Positions])
          /\ last' \in [time : UtcTimes \cup {NoTime}, priority : -1..3]
      <4>1. CASE k \notin Positions \/ ~fix
        <5>1. Kept
          BY <2>1, <4>1, MapStep DEF HandleFrame, ApplyPosition, Kept
        <5>2. QED BY <5>1 DEF Kept, TypeOK
      <4>2. CASE k \in Positions /\ fix
        BY <2>1, <4>2, MapStep, MapTyped DEF HandleFrame
      <4>3. QED BY <4>1, <4>2
    <3>4. QED BY <3>1, <3>2, <3>3 DEF TypeOK, receiver
  <2>2. CASE Tick
    BY <2>2, PositionViewAssumption DEF Tick, TypeOK, receiver
  <2>3. CASE FlushUiRefresh
    BY <2>3 DEF FlushUiRefresh, TypeOK, receiver
  <2>4. CASE ClearUiState
    BY <2>4 DEF ClearUiState, TypeOK, receiver, NoSample
  <2>5. CASE NextEpoch
    <3>1. now.day \in Nat /\ now.day > 0 /\ now.clock \in 0..(Clocks - 1)
      BY DEF TypeOK, UtcTimes
    <3>2. now' \in UtcTimes /\ now'.day > 0
      <4>1. CASE now.clock + 1 < Clocks
        <5>1. now' = [day |-> now.day, clock |-> now.clock + 1]
          BY <2>5, <4>1 DEF NextEpoch, TypeOK, UtcTimes
        <5>2. QED BY <3>1, <4>1, <5>1, PositionViewAssumption DEF UtcTimes
      <4>2. CASE ~(now.clock + 1 < Clocks)
        <5>1. now' = [day |-> now.day + 1, clock |-> 0]
          BY <2>5, <4>2 DEF NextEpoch
        <5>2. QED BY <3>1, <5>1, PositionViewAssumption DEF UtcTimes
      <4>3. QED BY <4>1, <4>2
    <3>3. QED BY <2>5, <3>2 DEF NextEpoch, TypeOK
  <2>6. CASE UNCHANGED vars
    BY <2>6 DEF vars, TypeOK
  <2>7. QED BY <2>1, <2>2, <2>3, <2>4, <2>5, <2>6 DEF Next, Frame
<1>3. QED BY <1>1, <1>2, PTL DEF Spec

-----------------------------------------------------------------------------
(* The refresh.                                                            *)

(* Nothing that has changed since it was announced waits for a timer that  *)
(* does not run, after any sequence of frames, refreshes and new sessions. *)
THEOREM RefreshScheduled == Spec => []ChangesAreScheduled
<1>1. Init => ChangesAreScheduled
  BY DEF Init, ChangesAreScheduled
<1>2. TypeOK /\ ChangesAreScheduled /\ [Next]_vars => ChangesAreScheduled'
  <2> SUFFICES ASSUME TypeOK, ChangesAreScheduled, [Next]_vars  PROVE ChangesAreScheduled'
    OBVIOUS
  <2> USE DEF ChangesAreScheduled
  <2>1. ASSUME NEW k \in Kinds, NEW fix \in BOOLEAN, NEW info \in BOOLEAN,
               HandleFrame(k, fix, info)
        PROVE  ChangesAreScheduled'
    <3>1. timer' # Off
      BY <2>1, PositionViewAssumption DEF HandleFrame, TimerScheduled
    <3>2. unseen' \subseteq dirty'
      BY <2>1 DEF HandleFrame
    <3>3. QED BY <3>1, <3>2
  <2>2. CASE Tick
    BY <2>2 DEF Tick, TypeOK
  <2>3. CASE FlushUiRefresh
    BY <2>3 DEF FlushUiRefresh, Announced
  <2>4. CASE ClearUiState
    BY <2>4 DEF ClearUiState
  <2>5. CASE NextEpoch
    BY <2>5 DEF NextEpoch
  <2>6. CASE UNCHANGED vars
    BY <2>6 DEF vars
  <2>7. QED BY <2>1, <2>2, <2>3, <2>4, <2>5, <2>6 DEF Next, Frame
<1>3. QED BY <1>1, <1>2, TypeCorrect, PTL DEF Spec

-----------------------------------------------------------------------------
(* The date.                                                               *)

(* However wrong the host's date is, a date that the receiver has told is  *)
(* the date shown, until the receiver loses the time or a session clears   *)
(* the state.                                                              *)
THEOREM DateKept == Spec => []ReceiverDateKept
<1>1. Init => ReceiverDateKept
  BY DEF Init, ReceiverDateKept
<1>2. TypeOK /\ ReceiverDateKept /\ [Next]_vars => ReceiverDateKept'
  <2> SUFFICES ASSUME TypeOK, ReceiverDateKept, [Next]_vars  PROVE ReceiverDateKept'
    OBVIOUS
  <2>1. ASSUME NEW k \in Kinds, NEW fix \in BOOLEAN, NEW info \in BOOLEAN,
               HandleFrame(k, fix, info)
        PROVE  ReceiverDateKept'
    <3>1. CASE k \notin Dated \cup TimeOnly
      BY <2>1, <3>1 DEF HandleFrame, ApplyPosition, ReceiverDateKept
    <3>2. CASE k \in Dated \cup TimeOnly
      <4>1. /\ location'.utc = LocationUtcTime(k, MessageTime(k))
            /\ dated' = IF ~hasTime THEN NoDay ELSE IF k \in Dated THEN now.day ELSE dated
        BY <2>1, <3>2 DEF HandleFrame, ApplyPosition
      <4>2. CASE ~hasTime
        BY <4>1, <4>2 DEF ReceiverDateKept
      <4>3. CASE hasTime /\ k \in Dated
        BY <4>1, <4>3 DEF ReceiverDateKept, LocationUtcTime, MessageTime
      <4>4. CASE hasTime /\ k \in TimeOnly
        <5>1. MessageTime(k) \in UtcTimes
          BY <4>4, MessageTimes
        <5>2. ASSUME dated # NoDay  PROVE location.utc # NoTime
          BY <5>2 DEF ReceiverDateKept, NoTime
        <5>3. ASSUME dated # NoDay
              PROVE  location'.utc = [MessageTime(k) EXCEPT !.day = location.utc.day]
          BY <4>1, <4>4, <5>1, <5>2, <5>3, NoTimeIsNone DEF LocationUtcTime
        <5>4. QED BY <4>1, <4>4, <5>1, <5>3 DEF ReceiverDateKept, UtcTimes
      <4>5. QED BY <3>2, <4>2, <4>3, <4>4
    <3>3. QED BY <3>1, <3>2
  <2>2. CASE Tick
    BY <2>2 DEF Tick, ReceiverDateKept
  <2>3. CASE FlushUiRefresh
    BY <2>3 DEF FlushUiRefresh, ReceiverDateKept
  <2>4. CASE ClearUiState
    BY <2>4 DEF ClearUiState, ReceiverDateKept
  <2>5. CASE NextEpoch
    BY <2>5 DEF NextEpoch, ReceiverDateKept
  <2>6. CASE UNCHANGED vars
    BY <2>6 DEF vars, ReceiverDateKept
  <2>7. QED BY <2>1, <2>2, <2>3, <2>4, <2>5, <2>6 DEF Next, Frame
<1>3. QED BY <1>1, <1>2, TypeCorrect, PTL DEF Spec

-----------------------------------------------------------------------------
(* The deviation map, where the host has the receiver's date.  Then the     *)
(* time of every message is the receiver's epoch, the points are in         *)
(* chronological order, and last describes the last of them; it is of this  *)
(* epoch if and only if a sentence of this epoch has been heard.            *)

Before(a, b) == a.day < b.day \/ (a.day = b.day /\ a.clock < b.clock)

MapInv ==
  /\ \A i, k \in 1..Len(points) : i < k => Before(points[i].epoch, points[k].epoch)
  /\ Len(points) = 0 => last.time = NoTime
  /\ Len(points) # 0 =>
       /\ last.time = points[Len(points)].epoch
       /\ last.priority = Priority[points[Len(points)].from]
       /\ ~Before(now, last.time)
       /\ last.time = now => points[Len(points)].from \in heard
  /\ heard # {} =>
       /\ Len(points) # 0
       /\ last.time = now
       /\ points[Len(points)].from \in heard
       /\ \A kind \in heard : Priority[kind] <= last.priority

LEMMA BeforeIsStrict ==
  ASSUME NEW a \in UtcTimes, NEW b \in UtcTimes
  PROVE  /\ ~Before(a, a)
         /\ Before(a, b) => ~Before(b, a)
         /\ ~Before(a, b) /\ a # b => Before(b, a)
         /\ \A c \in UtcTimes : Before(a, b) /\ ~Before(c, b) => Before(a, c)
BY PositionViewAssumption DEF UtcTimes, Before

LEMMA PointTyped ==
  ASSUME TypeOK, NEW i \in 1..Len(points)
  PROVE  /\ points[i] \in [epoch : UtcTimes, from : Positions]
         /\ points[i].epoch \in UtcTimes
<1> DEFINE Point == [epoch : UtcTimes, from : Positions]
<1>1. points \in Seq(Point)
  BY DEF TypeOK
<1>2. points[i] \in Point
  <2> HIDE DEF Point
  <2>1. QED BY <1>1
<1>3. QED BY <1>2

LEMMA MapInvSuffices ==
  ASSUME TypeOK, MapInv
  PROVE  OnePointPerEpoch /\ BestSentenceShown
<1>1. OnePointPerEpoch
  <2>1. \A i \in 1..Len(points) : points[i].epoch \in UtcTimes
    BY PointTyped
  <2>2. ASSUME NEW i \in 1..Len(points), NEW k \in 1..Len(points), i # k
        PROVE  points[i].epoch # points[k].epoch
    <3>1. i < k \/ k < i
      BY <2>2
    <3>2. Before(points[i].epoch, points[k].epoch) \/ Before(points[k].epoch, points[i].epoch)
      BY <3>1 DEF MapInv
    <3>3. QED BY <2>1, <3>2, BeforeIsStrict
  <2>3. QED BY <2>2 DEF OnePointPerEpoch
<1>2. BestSentenceShown
  <2>1. Len(points) \in Nat
    BY DEF TypeOK
  <2>2. ASSUME heard # {}
        PROVE  /\ Len(points) \in 1..Len(points)
               /\ points[Len(points)].epoch = now
               /\ points[Len(points)].from \in heard
               /\ \A kind \in heard : Priority[kind] <= Priority[points[Len(points)].from]
    BY <2>1, <2>2 DEF MapInv
  <2>3. QED BY <2>2 DEF BestSentenceShown
<1>3. QED BY <1>1, <1>2

(* A sentence of the epoch of the last point, more trusted than it.        *)
LEMMA ImprovedKeepsMap ==
  ASSUME TypeOK, MapInv, skew = 0, hasTime, NEW k \in Positions, Improved(k),
         heard' = heard \cup {k}, now' = now
  PROVE  MapInv'
<1> DEFINE n == Len(points)
<1>1. MessageTime(k) = now
  BY DEF MessageTime, TypeOK, UtcTimes
<1>2. last.time = now /\ n # 0 /\ n \in Nat
  BY <1>1, NoTimeIsNone DEF Improved, SameEpoch, MapInv, TypeOK
<1>3. /\ Len(points') = n
      /\ \A i \in 1..n : points'[i].epoch = points[i].epoch
      /\ points'[n].from = k
  <2>1. points \in Seq([epoch : UtcTimes, from : Positions])
    BY DEF TypeOK
  <2>2. points' = [points EXCEPT ![n] = [points[n] EXCEPT !.from = k]]
    BY DEF Improved
  <2>3. \A i \in 1..n : points'[i] = IF i = n THEN [points[n] EXCEPT !.from = k] ELSE points[i]
    BY <1>2, <2>1, <2>2
  <2>4. points[n] \in [epoch : UtcTimes, from : Positions]
    BY <1>2, PointTyped
  <2>5. [points[n] EXCEPT !.from = k].epoch = points[n].epoch /\ [points[n] EXCEPT !.from = k].from = k
    BY <2>4
  <2>6. Len(points') = n
    BY <1>2, <2>1, <2>2
  <2>7. points'[n] = [points[n] EXCEPT !.from = k] /\ n \in 1..n
    BY <1>2, <2>3
  <2>8. ASSUME NEW i \in 1..n  PROVE points'[i].epoch = points[i].epoch
    <3>1. CASE i = n
      BY <2>5, <2>7, <3>1
    <3>2. CASE i # n
      BY <2>3, <3>2
    <3>3. QED BY <3>1, <3>2
  <2>9. QED BY <2>5, <2>6, <2>7, <2>8
<1>4. last'.time = now /\ last'.priority = Priority[k] /\ Priority[k] > last.priority
  BY <1>2 DEF Improved, Better, TypeOK
<1>5. \A kind \in heard' : Priority[kind] <= last'.priority
  <2>1. ASSUME NEW kind \in heard  PROVE Priority[kind] <= last.priority /\ kind \in Positions
    BY DEF MapInv, TypeOK
  <2>2. \A kind \in Positions : Priority[kind] \in Int
    BY DEF Priority
  <2>3. QED BY <1>4, <2>1, <2>2 DEF TypeOK
<1>6. ~Before(now, now)
  BY BeforeIsStrict DEF TypeOK
<1>7. QED BY <1>2, <1>3, <1>4, <1>5, <1>6 DEF MapInv

(* The first sentence of an epoch.                                         *)
LEMMA AddedKeepsMap ==
  ASSUME TypeOK, MapInv, skew = 0, hasTime, NEW k \in Positions, Added(k),
         heard' = heard \cup {k}, now' = now
  PROVE  MapInv'
<1> DEFINE n == Len(points)
<1>1. MessageTime(k) = now /\ now \in UtcTimes
  BY DEF MessageTime, TypeOK, UtcTimes
<1>2. last.time # now /\ heard = {}
  BY <1>1, NoTimeIsNone DEF Added, SameEpoch, MapInv
<1>3. points \in Seq([epoch : UtcTimes, from : Positions]) /\ n \in Nat
  BY DEF TypeOK
<1>4. /\ Len(points') = n + 1
      /\ \A i \in 1..n : points'[i] = points[i]
      /\ points'[n + 1] = [epoch |-> now, from |-> k]
  BY <1>3 DEF Added
<1>5. last'.time = now /\ last'.priority = Priority[k]
  BY <1>1 DEF Added
<1>6. ASSUME NEW i \in 1..n  PROVE Before(points[i].epoch, now)
  <2>1. points[i].epoch \in UtcTimes /\ points[n].epoch \in UtcTimes
    BY <1>3, PointTyped
  <2>2. last.time = points[n].epoch /\ ~Before(now, last.time)
    BY <1>3 DEF MapInv
  <2>3. Before(points[n].epoch, now)
    BY <1>1, <1>2, <2>1, <2>2, BeforeIsStrict
  <2>4. i # n => Before(points[i].epoch, points[n].epoch)
    BY <1>3 DEF MapInv
  <2>5. ~Before(now, points[n].epoch)
    BY <2>2
  <2>6. QED BY <1>1, <2>1, <2>3, <2>4, <2>5, BeforeIsStrict
<1>7. \A i, j \in 1..Len(points') : i < j => Before(points'[i].epoch, points'[j].epoch)
  <2>1. SUFFICES ASSUME NEW i \in 1..(n + 1), NEW j \in 1..(n + 1), i < j
                 PROVE  Before(points'[i].epoch, points'[j].epoch)
    BY <1>4
  <2>2. i \in 1..n /\ (j \in 1..n \/ j = n + 1)
    BY <1>3, <2>1
  <2>3. CASE j \in 1..n
    BY <1>4, <2>1, <2>2, <2>3 DEF MapInv
  <2>4. CASE j = n + 1
    BY <1>4, <1>6, <2>2, <2>4
  <2>5. QED BY <2>2, <2>3, <2>4
<1>8. ~Before(now, now)
  BY <1>1, BeforeIsStrict
<1>9. Priority[k] <= Priority[k]
  BY DEF Priority
<1>10. QED BY <1>2, <1>3, <1>4, <1>5, <1>7, <1>8, <1>9 DEF MapInv

(* Time moves on, and nothing has been heard of the new epoch.             *)
LEMMA NextEpochKeepsMap ==
  ASSUME TypeOK, MapInv, NextEpoch
  PROVE  MapInv'
<1>1. now \in UtcTimes /\ now.day \in Nat /\ now.clock \in Nat
  BY DEF TypeOK, UtcTimes
<1>2. Before(now, now')
  <2>1. now' = [now EXCEPT !.clock = now.clock + 1] \/ now' = [day |-> now.day + 1, clock |-> 0]
    BY DEF NextEpoch
  <2>2. \/ now'.day = now.day /\ now'.clock = now.clock + 1
        \/ now'.day = now.day + 1
    BY <1>1, <2>1 DEF UtcTimes
  <2>3. QED BY <1>1, <2>2 DEF Before
<1>3. now'.day \in Nat /\ now'.clock \in Nat
  BY <1>1 DEF NextEpoch, UtcTimes
<1>4. ASSUME Len(points) # 0  PROVE ~Before(now', last.time) /\ last.time # now'
  <2>1. Len(points) \in 1..Len(points)
    BY <1>4 DEF TypeOK
  <2>2. last.time \in UtcTimes /\ ~Before(now, last.time)
    BY <1>4, <2>1, PointTyped DEF MapInv
  <2>3. QED BY <1>1, <1>2, <1>3, <2>2 DEF Before, UtcTimes
<1>5. UNCHANGED <<points, last>> /\ heard' = {}
  BY DEF NextEpoch
<1>6. QED BY <1>4, <1>5 DEF MapInv

THEOREM MapInvariance ==
  ASSUME Skews = {0}
  PROVE  Spec => []MapInv
<1>1. Init => MapInv
  BY DEF Init, MapInv, NoSample
<1>2. TypeOK /\ MapInv /\ [Next]_vars => MapInv'
  <2> SUFFICES ASSUME TypeOK, MapInv, [Next]_vars  PROVE MapInv'
    OBVIOUS
  <2>0. skew = 0
    BY DEF TypeOK
  <2>1. ASSUME NEW k \in Kinds, NEW fix \in BOOLEAN, NEW info \in BOOLEAN,
               HandleFrame(k, fix, info)
        PROVE  MapInv'
    <3>1. now' = now /\ (fix => hasTime)
      BY <2>1 DEF HandleFrame, receiver
    <3>2. CASE k \notin Positions \/ ~fix
      <4>1. Kept /\ heard' = heard
        BY <2>1, <3>2, MapStep DEF HandleFrame, ApplyPosition, Kept
      <4>2. QED BY <3>1, <4>1 DEF Kept, MapInv
    <3>3. CASE k \in Positions /\ fix
      <4>1. heard' = heard \cup {k} /\ ApplyPosition(k, fix)
        BY <2>1, <3>3 DEF HandleFrame, ApplyPosition
      <4>2. CASE Improved(k)
        BY <2>0, <3>1, <3>3, <4>1, <4>2, ImprovedKeepsMap
      <4>3. CASE Added(k)
        BY <2>0, <3>1, <3>3, <4>1, <4>3, AddedKeepsMap
      <4>4. CASE Kept /\ SameEpoch(MessageTime(k)) /\ ~Better(k)
        <5>1. MessageTime(k) = now
          BY <2>0, <3>1, <3>3 DEF MessageTime, TypeOK, UtcTimes
        <5>2. last.time = now /\ Len(points) # 0
          BY <4>4, <5>1 DEF SameEpoch, MapInv
        <5>3. Priority[k] <= last.priority /\ Priority[k] \in Int
          BY <3>3, <4>4 DEF Better, Priority, TypeOK
        <5>4. points[Len(points)].from \in heard'
          BY <4>1, <5>2, <5>3 DEF MapInv
        <5>5. QED BY <3>1, <4>1, <4>4, <5>2, <5>3, <5>4 DEF MapInv, Kept
      <4>5. QED BY <3>1, <3>3, <4>1, <4>2, <4>3, <4>4, MapStep
    <3>4. QED BY <3>2, <3>3
  <2>2. CASE Tick
    BY <2>2 DEF Tick, MapInv, receiver
  <2>3. CASE FlushUiRefresh
    BY <2>3 DEF FlushUiRefresh, MapInv, receiver
  <2>4. CASE ClearUiState
    BY <2>4 DEF ClearUiState, MapInv, NoSample
  <2>5. CASE NextEpoch
    BY <2>5, NextEpochKeepsMap
  <2>6. CASE UNCHANGED vars
    BY <2>6 DEF vars, MapInv
  <2>7. QED BY <2>1, <2>2, <2>3, <2>4, <2>5, <2>6 DEF Next, Frame
<1>3. QED BY <1>1, <1>2, TypeCorrect, PTL DEF Spec

(* With the receiver's date on the host, an epoch is one point.            *)
THEOREM EpochIsOnePoint ==
  ASSUME Skews = {0}
  PROVE  Spec => []OnePointPerEpoch
<1>1. TypeOK /\ MapInv => OnePointPerEpoch
  BY MapInvSuffices
<1>2. QED BY <1>1, TypeCorrect, MapInvariance, PTL

(* ... which shows the most trusted sentence that came.                    *)
THEOREM MostTrustedShown ==
  ASSUME Skews = {0}
  PROVE  Spec => []BestSentenceShown
<1>1. TypeOK /\ MapInv => BestSentenceShown
  BY MapInvSuffices
<1>2. QED BY <1>1, TypeCorrect, MapInvariance, PTL

=============================================================================
