-------------------------- MODULE TecOverlay_proofs --------------------------
(***************************************************************************)
(* Proofs about TecOverlay: the selected source and its overlay, the files *)
(* on disk, and what the user is offered.                                  *)
(***************************************************************************)
EXTENDS TecOverlay, Lists_proofs

-----------------------------------------------------------------------------
(* The helpers.                                                            *)

(* ensureActiveSourceSelection selects a source that may be selected, if   *)
(* there is one.                                                           *)
LEMMA SelectionMayBe ==
  ASSUME NEW found \in Seq(Plugins), NEW may \in SUBSET ToSet(found)
  PROVE  ActiveOf(found, may) \in IF may = {} THEN {None} ELSE may
<1>1. CASE active \in may
  BY <1>1 DEF ActiveOf
<1>2. CASE active \notin may /\ may = {}
  BY <1>2 DEF ActiveOf
<1>3. CASE active \notin may /\ may # {}
  <2> DEFINE Q == {i \in DOMAIN found : found[i] \in may}
             First(i) == found[i] \in may /\ \A j \in 1..i - 1 : found[j] \notin may
  <2>1. Q \in SUBSET Nat /\ Q # {}
    BY <1>3 DEF ToSet
  <2>2. PICK m \in Q : \A k \in Q : m <= k
    <3> HIDE DEF Q
    <3>1. QED
      BY <2>1, LeastNatural
  <2>3. m \in DOMAIN found /\ First(m)
    <3>1. ASSUME NEW j \in 1..m - 1 PROVE j \in DOMAIN found /\ ~(m <= j)
      BY <2>2
    <3>2. QED
      BY <2>2, <3>1
  <2>4. (CHOOSE i \in DOMAIN found : First(i)) \in {i \in DOMAIN found : First(i)}
    BY <2>3
  <2>5. QED
    BY <1>3, <2>4 DEF ActiveOf
<1>4. QED
  BY <1>1, <1>2, <1>3

(* What the loader finds are the plugins in the directories. *)
LEMMA FoundPlugins ==
  ASSUME NEW present \in SUBSET Plugins
  PROVE  /\ LoadFromDirectories(present) \in Seq(Plugins)
         /\ ToSet(LoadFromDirectories(present)) = present
<1>1. /\ Only(Order, present) \in Seq(Plugins)
      /\ ToSet(Only(Order, present)) = ToSet(Order) \cap present
  BY OrderIsList, OnlyMembers
<1>2. QED
  BY <1>1 DEF LoadFromDirectories, Plugins

(* What is presented has the types of what it is made from. *)
LEMMA PresentTypes ==
  ASSUME Present, sources' \in Seq(Plugins), active' \in ToSet(sources') \cup {None},
         overlay' \in [Plugins -> Files \cup {None}]
  PROVE  shown' \in Files \cup {None} /\ listed' \in Seq(Plugins)
<1>1. listed' \in Seq(Plugins)
  BY OnlyMembers DEF Present, RebuildDescriptors
<1>2. ToSet(sources') \subseteq Plugins
  BY DEF ToSet
<1>3. QED
  BY <1>1, <1>2 DEF Present, ApplyActiveSource

-----------------------------------------------------------------------------
(* Type correctness.                                                       *)

(* The variables have their types, and a queued reload is due to a change. *)
TypeInv == TypeOK /\ reloads <= changes

LEMMA InitTypes == Init => TypeInv
<1> SUFFICES ASSUME Init PROVE TypeInv
  OBVIOUS
<1>1. sources \in Seq(Plugins)
  BY FoundPlugins DEF Init
<1>2. listed \in Seq(Plugins) /\ ToSet(listed) \subseteq ToSet(sources)
  BY <1>1, OnlyMembers DEF Init
<1>3. active \in ToSet(sources) \cup {None}
  BY <1>2, EmptyList DEF Init
<1>4. QED
  BY <1>1, <1>2, <1>3, TimesAreNumbers, BoundsAreNumbers DEF Init, TypeInv, TypeOK

LEMMA ReloadTypes ==
  ASSUME TypeOK, installed' \in SUBSET Plugins, Reload
  PROVE  /\ sources' \in Seq(Plugins) /\ listed' \in Seq(Plugins)
         /\ active' \in ToSet(sources') \cup {None}
         /\ shown' \in Files \cup {None}
         /\ last' \in [Plugins -> Times \cup {None}]
         /\ dataset' \in [Plugins -> Times \cup {None}]
         /\ overlay' \in [Plugins -> Files \cup {None}]
         /\ timer' \in 0..Debounce /\ files' \subseteq Files
<1> DEFINE found == LoadFromDirectories(installed')
           may   == ToSet(found) \cap Enabled'
<1>1. /\ sources' = found /\ active' = ActiveOf(found, may) /\ Present
      /\ last' = [s \in Plugins |-> None] /\ dataset' = [s \in Plugins |-> None]
      /\ overlay' = [s \in Plugins |-> None] /\ files' \subseteq files
      /\ timer' = TimerAfterReload(may)
  BY DEF Reload, ClearOverlays
<1>2. found \in Seq(Plugins)
  BY FoundPlugins
<1> HIDE DEF found
<1>3. ActiveOf(found, may) \in may \cup {None}
  BY <1>2, SelectionMayBe
<1>4. active' \in ToSet(sources') \cup {None}
  BY <1>1, <1>3
<1>5. shown' \in Files \cup {None} /\ listed' \in Seq(Plugins)
  BY <1>1, <1>2, <1>4, PresentTypes
<1>6. timer' \in 0..Debounce
  BY <1>1, TimesAreNumbers DEF TypeOK, TimerAfterReload
<1>7. QED
  BY <1>1, <1>2, <1>4, <1>5, <1>6 DEF TypeOK

LEMMA StepTypes == TypeInv /\ [Next]_vars => TypeInv'
<1> SUFFICES ASSUME TypeInv, [Next]_vars PROVE TypeInv'
  OBVIOUS
<1> USE TimesAreNumbers, BoundsAreNumbers
<1>0. TypeOK /\ reloads <= changes
  BY DEF TypeInv
<1>1. ASSUME NEW t \in Times, SetObservationTime(t) PROVE TypeInv'
  <2>1. shown' \in Files \cup {None} /\ listed' \in Seq(Plugins)
    BY <1>0, <1>1, PresentTypes DEF SetObservationTime, TypeOK, data
  <2>2. timer' \in 0..Debounce /\ quiet' \in 0..Gap
    BY <1>0, <1>1 DEF SetObservationTime, TypeOK
  <2>3. QED
    BY <1>0, <1>1, <2>1, <2>2 DEF SetObservationTime, TypeInv, TypeOK, settings, data
<1>2. ASSUME ClearObservationTime PROVE TypeInv'
  <2>1. overlay' = [s \in Plugins |-> None] /\ files' \subseteq files
    BY <1>2 DEF ClearObservationTime, ClearOverlays
  <2>2. shown' \in Files \cup {None} /\ listed' \in Seq(Plugins)
    BY <1>0, <1>2, <2>1, PresentTypes DEF ClearObservationTime, TypeOK
  <2>3. QED
    BY <1>0, <1>2, <2>1, <2>2 DEF ClearObservationTime, TypeInv, TypeOK, settings
<1>3. ASSUME Tick PROVE TypeInv'
  <2>1. timer' \in 0..Debounce /\ quiet' \in 0..Gap
    BY <1>0, <1>3 DEF Tick, TypeOK
  <2>2. QED
    BY <1>0, <1>3, <2>1 DEF Tick, TypeInv, TypeOK, settings, data
<1>4. ASSUME RequestRefresh PROVE TypeInv'
  <2>1. CASE pending = None \/ ~enabled
    BY <1>0, <1>4, <2>1 DEF RequestRefresh, TypeInv, TypeOK, settings
  <2>2. CASE ~(pending = None \/ ~enabled)
    <3>1. pending \in Times /\ ToSet(sources) \subseteq Plugins
      BY <1>0, <2>2 DEF TypeOK, ToSet
    <3>2. shown' \in Files \cup {None} /\ listed' \in Seq(Plugins)
      BY <1>0, <1>4, <2>2, PresentTypes DEF RequestRefresh, TypeOK
    <3>3. Due(pending) \subseteq Plugins
      BY <3>1 DEF Due
    <3>4. requests' \subseteq [plugin : Plugins, time : Times]
      BY <1>0, <1>4, <2>2, <3>1, <3>3 DEF RequestRefresh, TypeOK
    <3>5. last' \in [Plugins -> Times \cup {None}]
      BY <1>0, <1>4, <2>2, <3>1 DEF RequestRefresh, TypeOK
    <3>6. timer' \in 0..Debounce
      BY <1>4 DEF RequestRefresh
    <3>7. QED
      BY <1>0, <1>4, <3>2, <3>4, <3>5, <3>6 DEF RequestRefresh, TypeInv, TypeOK, settings
  <2>3. QED
    BY <2>1, <2>2
<1>5. ASSUME QueuedReload PROVE TypeInv'
  <2>1. Reload /\ installed' \in SUBSET Plugins
    BY <1>0, <1>5 DEF QueuedReload, TypeOK
  <2>2. reloads' \in 0..MaxChanges /\ reloads' <= changes'
    BY <1>0, <1>5 DEF QueuedReload, TypeOK
  <2>3. QED
    BY <1>0, <1>5, <2>1, <2>2, ReloadTypes DEF QueuedReload, Reload, TypeInv, TypeOK
<1>6. ASSUME NEW r \in requests, DataReady(r) PROVE TypeInv'
  <2>1. r.plugin \in Plugins /\ r.time \in Times
    BY <1>0 DEF TypeOK
  <2>2. CASE r.plugin \in ToSet(sources)
    <3> DEFINE file == [number |-> revision + 1, time |-> r.time]
    <3>1. /\ revision < MaxWrites /\ revision' = revision + 1 /\ Present
          /\ files' = (files \ {overlay[r.plugin]}) \cup {file}
          /\ overlay' = [overlay EXCEPT ![r.plugin] = file]
          /\ dataset' = [dataset EXCEPT ![r.plugin] = r.time]
      BY <1>6, <2>2 DEF DataReady, RenderDataset
    <3>2. revision' \in 0..MaxWrites /\ revision + 1 \in 1..MaxWrites
      BY <1>0, <3>1 DEF TypeOK
    <3>3. file \in Files
      BY <2>1, <3>2 DEF Files
    <3> HIDE DEF file
    <3>4. /\ overlay' \in [Plugins -> Files \cup {None}] /\ files' \subseteq Files
          /\ dataset' \in [Plugins -> Times \cup {None}]
      BY <1>0, <2>1, <3>1, <3>3 DEF TypeOK
    <3>5. shown' \in Files \cup {None} /\ listed' \in Seq(Plugins)
      BY <1>0, <1>6, <3>1, <3>4, PresentTypes DEF DataReady, Answered, TypeOK
    <3>6. QED
      BY <1>0, <1>6, <3>2, <3>4, <3>5 DEF DataReady, Answered, TypeInv, TypeOK, settings
  <2>3. CASE r.plugin \notin ToSet(sources)
    BY <1>0, <1>6, <2>3 DEF DataReady, Answered, TypeInv, TypeOK, settings
  <2>4. QED
    BY <2>2, <2>3
<1>7. ASSUME NEW r \in requests, RenderFails(r) PROVE TypeInv'
  <2>1. shown' \in Files \cup {None} /\ listed' \in Seq(Plugins)
    BY <1>0, <1>7, PresentTypes DEF RenderFails, Answered, TypeOK
  <2>2. revision' \in 0..MaxWrites
    BY <1>0, <1>7 DEF RenderFails, TypeOK
  <2>3. QED
    BY <1>0, <1>7, <2>1, <2>2 DEF RenderFails, Answered, TypeInv, TypeOK, settings
<1>8. ASSUME NEW r \in requests, ErrorOccurred(r) PROVE TypeInv'
  <2>1. overlay' \in [Plugins -> Files \cup {None}] /\ files' \subseteq Files
    BY <1>0, <1>8 DEF ErrorOccurred, TypeOK
  <2>2. shown' \in Files \cup {None} /\ listed' \in Seq(Plugins)
    BY <1>0, <1>8, <2>1, PresentTypes DEF ErrorOccurred, Answered, TypeOK
  <2>3. QED
    BY <1>0, <1>8, <2>1, <2>2 DEF ErrorOccurred, Answered, TypeInv, TypeOK, settings
<1>9. ASSUME NEW i \in 1..Len(Order), SetActiveSource(i) PROVE TypeInv'
  <2>1. active' \in ToSet(sources') \cup {None}
    BY <1>9 DEF SetActiveSource
  <2>2. shown' \in Files \cup {None} /\ listed' \in Seq(Plugins)
    BY <1>0, <1>9, <2>1, PresentTypes DEF SetActiveSource, TypeOK, data
  <2>3. QED
    BY <1>0, <1>9, <2>1, <2>2 DEF SetActiveSource, TypeInv, TypeOK, settings, data
<1>10. ASSUME SetPluginsEnabled PROVE TypeInv'
  <2>1. Reload /\ installed' \in SUBSET Plugins /\ enabled' \in BOOLEAN
    BY <1>0, <1>10 DEF SetPluginsEnabled, TypeOK
  <2>2. changes' \in 0..MaxChanges /\ reloads' <= changes'
    BY <1>0, <1>10 DEF SetPluginsEnabled, Change, TypeOK
  <2>3. QED
    BY <1>0, <1>10, <2>1, <2>2, ReloadTypes DEF SetPluginsEnabled, Reload, TypeInv, TypeOK
<1>11. ASSUME QueueReload, off' \in SUBSET Plugins, installed' \in SUBSET Plugins
       PROVE  TypeInv'
  <2>1. /\ changes' \in 0..MaxChanges /\ reloads' \in 0..MaxChanges
        /\ reloads' <= changes'
    BY <1>0, <1>11 DEF QueueReload, Change, TypeOK
  <2>2. QED
    BY <1>0, <1>11, <2>1 DEF QueueReload, TypeInv, TypeOK, data
<1>12. ASSUME NEW s \in Plugins, SetPluginEnabled(s) PROVE TypeInv'
  BY <1>0, <1>11, <1>12 DEF SetPluginEnabled, TypeOK
<1>13. ASSUME SetPluginDirectory PROVE TypeInv'
  BY <1>0, <1>11, <1>13 DEF SetPluginDirectory, TypeOK
<1>14. ASSUME SetPluginValue PROVE TypeInv'
  BY <1>0, <1>11, <1>14 DEF SetPluginValue, TypeOK
<1>15. CASE UNCHANGED vars
  BY <1>0, <1>15 DEF vars, settings, data, TypeInv, TypeOK
<1>16. QED
  BY <1>1, <1>2, <1>3, <1>4, <1>5, <1>6, <1>7, <1>8, <1>9, <1>10, <1>12, <1>13,
     <1>14, <1>15 DEF Next, Answer, User

LEMMA TypeInvariant == Spec => []TypeInv
BY InitTypes, StepTypes, PTL DEF Spec

(* Every variable always has its type, whatever the plugins are and        *)
(* however many messages, answers, selections and reloads there were.      *)
THEOREM TypeCorrect == Spec => []TypeOK
<1>1. TypeInv => TypeOK
  BY DEF TypeInv
<1>2. QED
  BY <1>1, TypeInvariant, PTL

-----------------------------------------------------------------------------
(* The selected source.                                                    *)

LEMMA InitShown == Init => ShownIsSelected
<1> SUFFICES ASSUME Init PROVE ShownIsSelected
  OBVIOUS
<1>1. active \in Plugins \cup {None}
  BY InitTypes DEF TypeInv, TypeOK, ToSet
<1>2. QED
  BY <1>1 DEF Init, ShownIsSelected

LEMMA StepShown == TypeOK /\ ShownIsSelected /\ [Next]_vars => ShownIsSelected'
<1> SUFFICES ASSUME TypeOK, ShownIsSelected, [Next]_vars PROVE ShownIsSelected'
  OBVIOUS
<1>1. ASSUME Present PROVE ShownIsSelected'
  BY <1>1 DEF Present, ApplyActiveSource, ShownIsSelected
<1>2. ASSUME UNCHANGED <<shown, active, overlay>> PROVE ShownIsSelected'
  BY <1>2 DEF ShownIsSelected
<1>3. CASE \E t \in Times : SetObservationTime(t)
  BY <1>1, <1>3 DEF SetObservationTime
<1>4. CASE ClearObservationTime
  BY <1>1, <1>4 DEF ClearObservationTime
<1>5. CASE Tick
  BY <1>2, <1>5 DEF Tick, data
<1>6. CASE RequestRefresh
  BY <1>1, <1>2, <1>6 DEF RequestRefresh
<1>7. CASE QueuedReload \/ SetPluginsEnabled
  BY <1>1, <1>7 DEF QueuedReload, SetPluginsEnabled, Reload
<1>8. ASSUME NEW r \in requests, DataReady(r) PROVE ShownIsSelected'
  BY <1>1, <1>2, <1>8 DEF DataReady, Answered
<1>9. ASSUME NEW r \in requests, RenderFails(r) PROVE ShownIsSelected'
  BY <1>1, <1>9 DEF RenderFails
<1>10. ASSUME NEW r \in requests, ErrorOccurred(r) PROVE ShownIsSelected'
  <2>1. CASE r.plugin \in ToSet(sources)
    BY <1>1, <1>10, <2>1 DEF ErrorOccurred
  <2>2. CASE r.plugin \notin ToSet(sources)
    BY <1>2, <1>10, <2>2 DEF ErrorOccurred, Answered
  <2>3. QED
    BY <2>1, <2>2
<1>11. CASE \E i \in 1..Len(Order) : SetActiveSource(i)
  BY <1>1, <1>11 DEF SetActiveSource
<1>12. ASSUME QueueReload PROVE ShownIsSelected'
  BY <1>2, <1>12 DEF QueueReload, data
<1>13. CASE \/ \E s \in Plugins : SetPluginEnabled(s)
            \/ SetPluginDirectory \/ SetPluginValue
  BY <1>12, <1>13 DEF SetPluginEnabled, SetPluginDirectory, SetPluginValue
<1>14. CASE UNCHANGED vars
  BY <1>2, <1>14 DEF vars, data
<1>15. QED
  BY <1>3, <1>4, <1>5, <1>6, <1>7, <1>8, <1>9, <1>10, <1>11, <1>13, <1>14
     DEF Next, Answer, User

(* The map always shows the overlay of the selected source: whatever the   *)
(* order of answers, selections, cleared times and reloads, every handler  *)
(* that replaces one copies it to m_overlaySource.                         *)
THEOREM ShownOverlay == Spec => []ShownIsSelected
<1>1. TypeInv => TypeOK
  BY DEF TypeInv
<1>2. QED
  BY <1>1, TypeInvariant, InitShown, StepShown, PTL DEF Spec

-----------------------------------------------------------------------------
(* The overlay files.                                                      *)

(* No two sources hold one file, since the number of a new one is higher   *)
(* than those of all overlays: the file a source replaces is its own.      *)
OverlayInv ==
  /\ OverlaysAreHeld
  /\ \A s \in ToSet(sources) : overlay[s] # None => overlay[s].number <= revision
  /\ \A s, t \in ToSet(sources) :
       s # t /\ overlay[s] # None => overlay[s] # overlay[t]

LEMMA InitOverlays == Init => OverlayInv
<1> SUFFICES ASSUME Init PROVE OverlayInv
  OBVIOUS
<1>1. ToSet(sources) \subseteq Plugins
  BY InitTypes DEF TypeInv, TypeOK, ToSet
<1>2. QED
  BY <1>1 DEF Init, OverlayInv, OverlaysAreHeld

LEMMA StepOverlays == TypeOK /\ OverlayInv /\ [Next]_vars => OverlayInv'
<1> SUFFICES ASSUME TypeOK, OverlayInv, [Next]_vars PROVE OverlayInv'
  OBVIOUS
<1> DEFINE held == {overlay[s] : s \in ToSet(sources)} \ {None}
<1>0. ToSet(sources) \subseteq Plugins /\ files = held
  BY DEF TypeOK, ToSet, OverlayInv, OverlaysAreHeld
<1>1. ASSUME UNCHANGED <<files, overlay, dataset, sources>>, revision' \in Nat,
             revision <= revision'
      PROVE  OverlayInv'
  <2>1. OverlaysAreHeld'
    BY <1>1 DEF OverlayInv, OverlaysAreHeld
  <2>2. ASSUME NEW s \in ToSet(sources), overlay[s] # None
        PROVE  overlay[s].number <= revision'
    <3>1. overlay[s].number \in Nat /\ revision \in Nat
      BY <1>0, <2>2, BoundsAreNumbers DEF TypeOK, Files
    <3>2. overlay[s].number <= revision
      BY <2>2 DEF OverlayInv
    <3>3. QED
      BY <1>1, <3>1, <3>2
  <2>3. QED
    BY <1>1, <2>1, <2>2 DEF OverlayInv
<1>2. revision \in Nat /\ revision <= revision
  BY DEF TypeOK
<1>3. ASSUME ClearOverlays, dataset' = [s \in Plugins |-> None],
             ToSet(sources') \subseteq Plugins
      PROVE  OverlayInv'
  <2>1. files' = {}
    BY <1>0, <1>3 DEF ClearOverlays
  <2>2. \A s \in ToSet(sources') : overlay'[s] = None /\ dataset'[s] = None
    BY <1>3 DEF ClearOverlays
  <2>3. QED
    BY <2>1, <2>2 DEF OverlayInv, OverlaysAreHeld
<1>4. ASSUME NEW r \in requests, DataReady(r) PROVE OverlayInv'
  <2>1. CASE r.plugin \notin ToSet(sources)
    BY <1>1, <1>2, <1>4, <2>1 DEF DataReady, Answered
  <2>2. CASE r.plugin \in ToSet(sources)
    <3> DEFINE p    == r.plugin
               file == [number |-> revision + 1, time |-> r.time]
    <3>1. /\ revision < MaxWrites /\ revision' = revision + 1 /\ UNCHANGED sources
          /\ files' = (files \ {overlay[p]}) \cup {file}
          /\ overlay' = [overlay EXCEPT ![p] = file]
          /\ dataset' = [dataset EXCEPT ![p] = r.time]
      BY <1>4, <2>2 DEF DataReady, RenderDataset, Answered
    <3>2. r.time \in Times /\ p \in Plugins /\ p \in ToSet(sources)
      BY <1>0, <2>2 DEF TypeOK
    <3>3. file # None /\ file.number = revision + 1 /\ file.time = r.time
      <4>1. file \in Files
        BY <1>2, <3>1, <3>2, BoundsAreNumbers DEF Files
      <4>2. QED
        BY <4>1, NoneIsNothing
    <3> HIDE DEF p, file
    <3>4. /\ overlay'[p] = file /\ dataset'[p] = r.time
          /\ \A s \in ToSet(sources) : s # p => /\ overlay'[s] = overlay[s]
                                                /\ dataset'[s] = dataset[s]
      BY <1>0, <3>1, <3>2 DEF TypeOK
    <3>5. ASSUME NEW s \in ToSet(sources), overlay[s] # None
          PROVE  /\ overlay[s].number \in Nat /\ overlay[s].number <= revision
                 /\ overlay[s] # file
      <4>1. overlay[s].number \in Nat
        BY <1>0, <3>5, BoundsAreNumbers DEF TypeOK, Files
      <4>2. overlay[s].number <= revision
        BY <3>5 DEF OverlayInv
      <4>3. QED
        BY <1>2, <3>3, <4>1, <4>2
    <3>6. files' = {overlay'[s] : s \in ToSet(sources)} \ {None}
      <4>1. ASSUME NEW f \in files' PROVE \E s \in ToSet(sources) : f = overlay'[s] /\ f # None
        <5>1. CASE f = file
          BY <3>2, <3>3, <3>4, <5>1
        <5>2. CASE f # file
          <6>1. f \in files /\ f # overlay[p]
            BY <3>1, <4>1, <5>2
          <6>2. PICK s \in ToSet(sources) : f = overlay[s] /\ f # None
            BY <1>0, <6>1
          <6>3. QED
            BY <3>4, <6>1, <6>2
        <5>3. QED
          BY <5>1, <5>2
      <4>2. ASSUME NEW s \in ToSet(sources), overlay'[s] # None PROVE overlay'[s] \in files'
        <5>1. CASE s = p
          BY <3>1, <3>4, <5>1
        <5>2. CASE s # p
          <6>1. overlay'[s] = overlay[s] /\ overlay[s] \in files
            BY <1>0, <3>4, <4>2, <5>2
          <6>2. overlay[s] # overlay[p]
            BY <3>2, <4>2, <5>2, <6>1 DEF OverlayInv
          <6>3. QED
            BY <3>1, <6>1, <6>2
        <5>3. QED
          BY <5>1, <5>2
      <4>3. QED
        BY <4>1, <4>2
    <3>7. ASSUME NEW s \in ToSet(sources)
          PROVE  IF overlay'[s] = None THEN dataset'[s] = None
                                       ELSE overlay'[s].time = dataset'[s]
      <4>1. CASE s = p
        BY <3>3, <3>4, <4>1
      <4>2. CASE s # p
        BY <3>4, <4>2 DEF OverlayInv, OverlaysAreHeld
      <4>3. QED
        BY <4>1, <4>2
    <3>8. ASSUME NEW s \in ToSet(sources), overlay'[s] # None
          PROVE  overlay'[s].number <= revision'
      <4>1. CASE s = p
        BY <1>2, <3>1, <3>3, <3>4, <4>1
      <4>2. CASE s # p
        BY <1>2, <3>1, <3>4, <3>5, <3>8, <4>2
      <4>3. QED
        BY <4>1, <4>2
    <3>9. ASSUME NEW s \in ToSet(sources), NEW t \in ToSet(sources), s # t,
                 overlay'[s] # None
          PROVE  overlay'[s] # overlay'[t]
      <4>1. CASE s = p
        BY <3>3, <3>4, <3>5, <3>9, <4>1
      <4>2. CASE s # p /\ t = p
        BY <3>4, <3>5, <3>9, <4>2
      <4>3. CASE s # p /\ t # p
        BY <3>4, <3>9, <4>3 DEF OverlayInv
      <4>4. QED
        BY <4>1, <4>2, <4>3
    <3>10. OverlaysAreHeld'
      BY <3>1, <3>6, <3>7 DEF OverlaysAreHeld
    <3>11. QED
      BY <3>1, <3>8, <3>9, <3>10 DEF OverlayInv
  <2>3. QED
    BY <2>1, <2>2
<1>5. ASSUME NEW r \in requests, RenderFails(r) PROVE OverlayInv'
  BY <1>1, <1>2, <1>5 DEF RenderFails, Answered
<1>6. ASSUME NEW r \in requests, ErrorOccurred(r) PROVE OverlayInv'
  <2>1. CASE r.plugin \in ToSet(sources) /\ dataset[r.plugin] = None
    <3>1. overlay[r.plugin] = None
      <4>1. ASSUME overlay[r.plugin] # None PROVE FALSE
        <5>1. overlay[r.plugin].time \in Times
          BY <1>0, <2>1, <4>1 DEF TypeOK, Files
        <5>2. QED
          BY <2>1, <4>1, <5>1, NoneIsNothing DEF OverlayInv, OverlaysAreHeld
      <4>2. QED
        BY <4>1
    <3>2. files' = files /\ overlay' = overlay
      BY <1>0, <1>6, <2>1, <3>1 DEF ErrorOccurred, TypeOK
    <3>3. QED
      BY <1>1, <1>2, <1>6, <3>2 DEF ErrorOccurred, Answered
  <2>2. CASE ~(r.plugin \in ToSet(sources) /\ dataset[r.plugin] = None)
    BY <1>1, <1>2, <1>6, <2>2 DEF ErrorOccurred, Answered
  <2>3. QED
    BY <2>1, <2>2
<1>7. CASE ClearObservationTime
  BY <1>0, <1>3, <1>7 DEF ClearObservationTime
<1>8. CASE QueuedReload \/ SetPluginsEnabled
  <2>1. Reload /\ installed' \in SUBSET Plugins
    BY <1>8 DEF QueuedReload, SetPluginsEnabled, TypeOK
  <2>2. ToSet(sources') \subseteq Plugins
    BY <2>1, FoundPlugins DEF Reload
  <2>3. QED
    BY <1>3, <2>1, <2>2 DEF Reload
<1>9. CASE \/ \E t \in Times : SetObservationTime(t)
           \/ Tick \/ RequestRefresh
           \/ \E i \in 1..Len(Order) : SetActiveSource(i)
  BY <1>1, <1>2, <1>9 DEF SetObservationTime, Tick, RequestRefresh, SetActiveSource, data
<1>10. ASSUME QueueReload PROVE OverlayInv'
  BY <1>1, <1>2, <1>10 DEF QueueReload, data
<1>11. CASE \/ \E s \in Plugins : SetPluginEnabled(s)
            \/ SetPluginDirectory \/ SetPluginValue
  BY <1>10, <1>11 DEF SetPluginEnabled, SetPluginDirectory, SetPluginValue
<1>12. CASE UNCHANGED vars
  BY <1>1, <1>2, <1>12 DEF vars, data
<1>13. QED
  BY <1>4, <1>5, <1>6, <1>7, <1>8, <1>9, <1>11, <1>12 DEF Next, Answer, User

(* The files on disk are always those of the overlays: no answer, failure  *)
(* or reload leaves one behind or takes one away that is still shown.      *)
THEOREM OverlayFiles == Spec => []OverlaysAreHeld
<1>1. TypeInv => TypeOK
  BY DEF TypeInv
<1>2. OverlayInv => OverlaysAreHeld
  BY DEF OverlayInv
<1>3. QED
  BY <1>1, <1>2, TypeInvariant, InitOverlays, StepOverlays, PTL DEF Spec

-----------------------------------------------------------------------------
(* What is offered and selected.                                           *)

LEMMA InitSettled == Init => SettledSelection
<1> SUFFICES ASSUME Init PROVE SettledSelection
  OBVIOUS
<1>1. listed \in Seq(Plugins)
  BY InitTypes DEF TypeInv, TypeOK
<1>2. active \in IF listed = <<>> THEN {None} ELSE ToSet(listed)
  BY <1>1, EmptyList DEF Init
<1>3. QED
  BY <1>2 DEF Init, SettledSelection

(* A reload settles the selection, whatever it was. *)
LEMMA ReloadSettles ==
  ASSUME installed' \in SUBSET Plugins, Reload
  PROVE  SettledSelection'
<1> DEFINE found == LoadFromDirectories(installed')
           may   == ToSet(found) \cap Enabled'
<1>1. /\ sources' = found /\ active' = ActiveOf(found, may)
      /\ listed' = Only(found, Enabled')
  BY DEF Reload, Present, RebuildDescriptors
<1>2. found \in Seq(Plugins)
  BY FoundPlugins
<1>3. sources' = LoadFromDirectories(installed')
  BY <1>1
<1> HIDE DEF found
<1>4. ActiveOf(found, may) \in IF may = {} THEN {None} ELSE may
  BY <1>2, SelectionMayBe
<1>5. listed' \in Seq(Plugins) /\ ToSet(listed') = may
  BY <1>1, <1>2, OnlyMembers
<1>6. listed' = <<>> <=> may = {}
  BY <1>5, EmptyList
<1>7. active' \in IF listed' = <<>> THEN {None} ELSE ToSet(listed')
  BY <1>1, <1>4, <1>5, <1>6
<1>8. QED
  BY <1>1, <1>3, <1>7 DEF SettledSelection

LEMMA StepSettled == TypeInv /\ SettledSelection /\ [Next]_vars => SettledSelection'
<1> SUFFICES ASSUME TypeInv, SettledSelection, [Next]_vars PROVE SettledSelection'
  OBVIOUS
<1>0. TypeOK
  BY DEF TypeInv
<1>1. ASSUME UNCHANGED <<settings, sources, listed, active>>
      PROVE  SettledSelection'
  BY <1>1 DEF SettledSelection, settings, LoadFromDirectories, Enabled, IsEnabled
<1>2. ASSUME UNCHANGED <<settings, sources>>, Present,
             reloads = 0 => active' \in IF listed = <<>> THEN {None} ELSE ToSet(listed)
      PROVE  SettledSelection'
  <2>1. SUFFICES ASSUME reloads' = 0 PROVE SettledSelection'
    BY DEF SettledSelection
  <2>2. Enabled' = Enabled /\ reloads = 0
    BY <1>2, <2>1 DEF settings, Enabled, IsEnabled
  <2>3. sources' = LoadFromDirectories(installed') /\ listed' = Only(sources', Enabled')
    BY <1>2, <2>2 DEF SettledSelection, settings, Present, RebuildDescriptors
  <2>4. listed' = listed
    BY <1>2, <2>2, <2>3 DEF SettledSelection
  <2>5. QED
    BY <1>2, <2>2, <2>3, <2>4 DEF SettledSelection
<1>3. reloads = 0 => active \in IF listed = <<>> THEN {None} ELSE ToSet(listed)
  BY DEF SettledSelection
<1>4. CASE \E t \in Times : SetObservationTime(t)
  BY <1>2, <1>3, <1>4 DEF SetObservationTime
<1>5. CASE ClearObservationTime
  BY <1>2, <1>3, <1>5 DEF ClearObservationTime
<1>6. CASE Tick
  BY <1>1, <1>6 DEF Tick
<1>7. CASE RequestRefresh
  BY <1>1, <1>2, <1>3, <1>7 DEF RequestRefresh
<1>8. CASE QueuedReload \/ SetPluginsEnabled
  BY <1>0, <1>8, ReloadSettles DEF QueuedReload, SetPluginsEnabled, TypeOK
<1>9. ASSUME NEW r \in requests, DataReady(r) PROVE SettledSelection'
  BY <1>1, <1>2, <1>3, <1>9 DEF DataReady, Answered
<1>10. ASSUME NEW r \in requests, RenderFails(r) PROVE SettledSelection'
  BY <1>2, <1>3, <1>10 DEF RenderFails, Answered
<1>11. ASSUME NEW r \in requests, ErrorOccurred(r) PROVE SettledSelection'
  BY <1>1, <1>2, <1>3, <1>11 DEF ErrorOccurred, Answered
<1>12. ASSUME NEW i \in 1..Len(Order), SetActiveSource(i) PROVE SettledSelection'
  <2>1. i \in DOMAIN listed /\ active' = listed[i]
    BY <1>12 DEF SetActiveSource
  <2>2. listed # <<>> /\ active' \in ToSet(listed)
    BY <2>1 DEF ToSet
  <2>3. QED
    BY <1>2, <1>12, <2>2 DEF SetActiveSource
<1>13. ASSUME QueueReload PROVE SettledSelection'
  <2>1. reloads' # 0
    BY <1>0, <1>13 DEF QueueReload, TypeOK
  <2>2. QED
    BY <2>1 DEF SettledSelection
<1>14. CASE \/ \E s \in Plugins : SetPluginEnabled(s)
            \/ SetPluginDirectory \/ SetPluginValue
  BY <1>13, <1>14 DEF SetPluginEnabled, SetPluginDirectory, SetPluginValue
<1>15. CASE UNCHANGED vars
  BY <1>1, <1>15 DEF vars
<1>16. QED
  BY <1>4, <1>5, <1>6, <1>7, <1>8, <1>9, <1>10, <1>11, <1>12, <1>14, <1>15
     DEF Next, Answer, User

(* Whenever no reload is queued, the user is offered the sources installed *)
(* and enabled, in the order of the loader, and one of them is selected,   *)
(* however changes of the settings, reloads and selections interleave.     *)
THEOREM SelectionSettles == Spec => []SettledSelection
BY TypeInvariant, InitSettled, StepSettled, PTL DEF Spec

=============================================================================
