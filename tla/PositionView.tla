----------------------------- MODULE PositionView -----------------------------
(***************************************************************************)
(* What AppController makes of decoded messages: the UTC time it shows,    *)
(* the points of the deviation map, and the refresh of the user interface, *)
(* which is delayed by a single-shot timer.                                *)
(*                                                                         *)
(* A receiver reports epoch after epoch, each in any number of sentences.  *)
(* An epoch and a UTC time are a day and a time of day; the first day is   *)
(* 1, so that the host can be a day behind.  GGA and GLL have no date; the *)
(* decoder gives them the host's, which differs from the receiver's by a   *)
(* member of Skews.  A frame with several sentences is several frames      *)
(* without anything in between.                                            *)
(***************************************************************************)
EXTENDS Integers, Sequences

CONSTANTS
  Clocks,     \* epochs of a day
  Skews,      \* days by which the host's date may differ
  Interval,   \* of the refresh timer, in ticks
  MaxEpochs,  \* bound: epochs of a behaviour
  MaxPoints   \* bound: points of the deviation map

ASSUME PositionViewAssumption ==
  /\ Clocks \in Nat \ {0}
  /\ Skews \subseteq {-1, 0, 1}
  /\ Interval \in Nat \ {0}
  /\ MaxEpochs \in Nat
  /\ MaxPoints \in Nat

NoDay      == -1
NoTime     == [day |-> NoDay, clock |-> 0]
UtcTimes   == [day : Nat, clock : 0..(Clocks - 1)]
Elapsed(t) == (t.day - 1) * Clocks + t.clock

Dated      == {"RMC", "ZDA"}
TimeOnly   == {"GGA", "GLL"}          \* isNmeaTimeOnlyUtcMessage
Positions  == {"RMC", "GGA", "GLL"}
\* "GSV" stands for the messages without time and position, "none" for a
\* frame that completes no message.
Kinds      == Dated \cup TimeOnly \cup {"GSV", "none"}
Parts      == {"location", "satellites", "info", "diagnostics"}
Off        == -1
NoSample   == [time |-> NoTime, priority |-> -1]

VARIABLES
  now,        \* the receiver's epoch
  hasTime,    \* the receiver knows the time
  skew,       \* days by which the host's date differs
  location,   \* m_location: [utc, validFix]
  last,       \* m_lastDeviationSampleUtcTime and -Priority
  points,     \* m_rawSamples: the epoch and the sentence each is from
  dirty,      \* the four dirty flags
  timer,      \* m_uiRefreshTimer: ticks left, or Off
  unseen,     \* history: parts that changed since they were announced
  heard,      \* history: sentences of this epoch that had a position
  dated       \* history: the date of the last sentence with one, or NoDay

receiver == <<now, hasTime, skew>>
vars == <<now, hasTime, skew, location, last, points, dirty, timer, unseen, heard, dated>>

-----------------------------------------------------------------------------
(* applyProtocolMessage: time and position.                                *)

(* locationUtcTime: a time without date goes with the date shown so far.   *)
(* The mutant takes it as the decoder dated it.                            *)
LocationUtcUnmerged(kind, incoming) == incoming
LocationUtcTime(kind, incoming) ==
  IF incoming = NoTime \/ location.utc = NoTime \/ kind \notin TimeOnly
    THEN incoming
    ELSE [incoming EXCEPT !.day = location.utc.day]

(* utcTime as decoded (mergeUtcDateTime): empty while the time is unknown. *)
MessageTime(kind) ==
  IF ~hasTime THEN NoTime
  ELSE IF kind \in TimeOnly THEN [now EXCEPT !.day = now.day + skew]
  ELSE now

(* deviationSamplePriority.                                                *)
Priority == [RMC |-> 3, GLL |-> 2, GGA |-> 1]

(* A further sentence of an epoch.  The mutants let every one replace the  *)
(* point, and take every one for a new point.                              *)
AnyIsBetter(kind)   == TRUE
Better(kind)        == Priority[kind] > last.priority
NeverSameEpoch(t)   == FALSE
SameEpoch(t)        == t # NoTime /\ t = last.time

(* recordDeviationSample, of a message with a position.                    *)
RecordDeviationSample(kind, incoming) ==
  LET time == IF incoming # NoTime THEN incoming ELSE location'.utc
  IN  IF ~location'.validFix
        THEN UNCHANGED <<points, last>>
      ELSE IF SameEpoch(time)
        THEN IF Better(kind)
               THEN /\ points' = [points EXCEPT ![Len(points)].from = kind]
                    /\ last' = [last EXCEPT !.priority = Priority[kind]]
               ELSE UNCHANGED <<points, last>>
      ELSE /\ Len(points) < MaxPoints
           /\ points' = Append(points, [epoch |-> now, from |-> kind])
           /\ last' = [time |-> time, priority |-> Priority[kind]]

ApplyPosition(kind, fix) ==
  LET incoming == MessageTime(kind)
  IN  /\ location' =
           [utc |-> IF kind \in Dated \cup TimeOnly THEN LocationUtcTime(kind, incoming)
                    ELSE location.utc,
            validFix |-> IF kind \in Positions THEN fix ELSE location.validFix]
      /\ IF kind \in Positions
           THEN RecordDeviationSample(kind, incoming)
           ELSE UNCHANGED <<points, last>>
      /\ heard' = IF kind \in Positions /\ fix THEN heard \cup {kind} ELSE heard
      /\ dated' = IF kind \notin Dated \cup TimeOnly THEN dated
                   ELSE IF ~hasTime THEN NoDay
                   ELSE IF kind \in Dated THEN now.day
                   ELSE dated

-----------------------------------------------------------------------------
(* The refresh of the user interface.                                      *)

(* The parts that one frame marks; a message also changes the location,    *)
(* and the panel of its protocol if one shows its fields.                  *)
Marked(kind, info) ==
  {"diagnostics"} \cup (IF kind # "none" THEN {"location"} ELSE {})
                  \cup (IF kind = "GSV" THEN {"satellites"} ELSE {})
                  \cup (IF kind # "none" /\ info THEN {"info"} ELSE {})

(* scheduleUiRefresh lets a running timer run; the mutants start it anew   *)
(* and add to it.                                                          *)
TimerRestarted == Interval
TimerExtended  == IF timer = Off THEN Interval ELSE timer + 1
TimerScheduled == IF timer = Off THEN Interval ELSE timer

(* handleIncomingBytes and what it calls.                                  *)
HandleFrame(kind, fix, info) ==
  /\ fix => hasTime
  /\ IF kind = "none" THEN UNCHANGED <<location, last, points, heard, dated>>
     ELSE ApplyPosition(kind, fix)
  /\ dirty' = dirty \cup Marked(kind, info)
  /\ unseen' = unseen \cup Marked(kind, info)
  /\ timer' = TimerScheduled
  /\ UNCHANGED receiver

Tick ==
  /\ timer > 0
  /\ timer' = timer - 1
  /\ UNCHANGED <<receiver, location, last, points, dirty, unseen, heard, dated>>

(* flushUiRefresh announces what is marked; the mutant forgets a part.     *)
AllButDiagnostics == dirty \ {"diagnostics"}
Announced         == dirty

FlushUiRefresh ==
  /\ timer = 0
  /\ timer' = Off
  /\ unseen' = unseen \ Announced
  /\ dirty' = dirty \ Announced
  /\ UNCHANGED <<receiver, location, last, points, heard, dated>>

(* clearUiState, which a new session calls through resetAllStreamState if  *)
(* resetUiOnNewConnection is set; the timer is not stopped.                *)
ClearUiState ==
  /\ location' = [utc |-> NoTime, validFix |-> FALSE]
  /\ last' = NoSample
  /\ points' = <<>>
  /\ dirty' = {}
  /\ unseen' = {}
  /\ heard' = {}
  /\ dated' = NoDay
  /\ UNCHANGED <<receiver, timer>>

-----------------------------------------------------------------------------
(* The receiver: the next epoch, in which it may have found or lost time.  *)
NextEpoch ==
  /\ Elapsed(now) < MaxEpochs
  /\ now' = IF now.clock + 1 < Clocks THEN [now EXCEPT !.clock = @ + 1]
            ELSE [day |-> now.day + 1, clock |-> 0]
  /\ hasTime' \in BOOLEAN
  /\ skew' \in Skews
  /\ heard' = {}
  /\ UNCHANGED <<location, last, points, dirty, timer, unseen, dated>>

Init ==
  /\ now = [day |-> 1, clock |-> 0]
  /\ hasTime \in BOOLEAN
  /\ skew \in Skews
  /\ location = [utc |-> NoTime, validFix |-> FALSE]
  /\ last = NoSample
  /\ points = <<>>
  /\ dirty = {}
  /\ timer = Off
  /\ unseen = {}
  /\ heard = {}
  /\ dated = NoDay

Frame ==
  \E kind \in Kinds, fix, info \in BOOLEAN : HandleFrame(kind, fix, info)

Next ==
  \/ Frame
  \/ Tick
  \/ FlushUiRefresh
  \/ ClearUiState
  \/ NextEpoch

Spec == Init /\ [][Next]_vars

(* Time passes, and the event loop handles a timer that has expired.       *)
Fairness == WF_vars(Tick) /\ WF_vars(FlushUiRefresh)
FairSpec == Spec /\ Fairness

-----------------------------------------------------------------------------
(* Properties.                                                             *)

TypeOK ==
  /\ now \in UtcTimes /\ now.day > 0
  /\ hasTime \in BOOLEAN
  /\ skew \in Skews
  /\ location \in [utc : UtcTimes \cup {NoTime}, validFix : BOOLEAN]
  /\ last \in [time : UtcTimes \cup {NoTime}, priority : -1..3]
  /\ points \in Seq([epoch : UtcTimes, from : Positions])
  /\ dirty \subseteq Parts
  /\ timer \in {Off} \cup 0..Interval
  /\ unseen \subseteq Parts
  /\ heard \subseteq Positions
  /\ dated \in Nat \cup {NoDay}

(* Whatever has changed since it was announced is marked, and as long as   *)
(* anything is marked the timer that announces it runs; neither a flush    *)
(* nor a new session in between loses the mark or the timer.               *)
ChangesAreScheduled == unseen \subseteq dirty /\ (dirty # {} => timer # Off)

(* tests/GnssViewRegression.cpp:849: the GGA, GLL and RMC of one epoch are *)
(* one point of the deviation map, in whatever order they come.            *)
OnePointPerEpoch ==
  \A i, k \in 1..Len(points) :
    i # k => points[i].epoch # points[k].epoch

(* ... and the point shows the most trusted of the sentences that came:    *)
(* "RMC latitude should replace lower-priority position sentences within   *)
(* the same epoch" (tests/GnssViewRegression.cpp:858).                     *)
BestSentenceShown ==
  heard # {} =>
    /\ \E i \in 1..Len(points) :
         /\ points[i].epoch = now
         /\ points[i].from \in heard
         /\ \A kind \in heard : Priority[kind] <= Priority[points[i].from]

(* Once the receiver has told the date, the UTC time shown has that date,  *)
(* whatever the host's clock says and whichever sentences follow, until    *)
(* the receiver loses the time or a session clears the state.              *)
ReceiverDateKept == dated # NoDay => location.utc.day = dated

(* Every change is announced in the end, however fast the frames come.     *)
EveryChangeIsShown == \A p \in Parts : p \in unseen ~> p \notin unseen

=============================================================================
