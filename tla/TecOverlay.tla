----------------------------- MODULE TecOverlay -----------------------------
(***************************************************************************)
(* The TEC overlay of the map (TecMapOverlayModel).                        *)
(*                                                                         *)
(* Every decoded message passes the observation time on.  A source (a TEC  *)
(* plugin) whose download interval has elapsed is asked for data, not at   *)
(* once but when a debounce timer expires, which every message restarts    *)
(* while a request is due.  The plugin answers later, with a dataset that  *)
(* is rendered to a file, or with an error; meanwhile the user may select  *)
(* another source, a session may clear the observation time, and changed   *)
(* settings reload the plugins.                                            *)
(*                                                                         *)
(* Time: observation times are in units of the seconds that the intervals  *)
(* are given in, ticks are fractions of the debounce time.  Texts and      *)
(* labels are left out.                                                    *)
(***************************************************************************)
EXTENDS Lists

CONSTANTS
  Order,       \* the TEC plugins in the order in which the loader finds them
  Interval,    \* downloadIntervalSeconds()
  Debounce,    \* the debounce time in ticks (250 ms)
  Gap,         \* ticks between the bursts of messages of a receiver
  MaxTime,     \* bound: observation times
  MaxWrites,   \* bound: files rendered
  MaxChanges,  \* bound: changes of the settings
  None         \* no time, no source, no file

Plugins == ToSet(Order)
Times   == 0..MaxTime
Files   == [number : 1..MaxWrites, time : Times]

ASSUME OrderIsList == Order \in Seq(Plugins)
ASSUME TimesAreNumbers == {Interval, Debounce, Gap, MaxTime} \subseteq Nat
ASSUME BoundsAreNumbers == {MaxWrites, MaxChanges} \subseteq Nat
ASSUME TimerRuns == Debounce > 0
ASSUME NoneIsNothing == None \notin Plugins /\ None \notin Times /\ None \notin Files

VARIABLES
  enabled,     \* pluginsEnabled of the settings, and m_pluginsEnabled
  off,         \* plugins disabled in the settings
  installed,   \* plugins in the plugin directory
  reloads,     \* reloadPlugin calls in the event queue
  changes,     \* changes of the settings so far
  pending,     \* m_pendingObservationTimeUtc
  sources,     \* m_sources: the ids
  last,        \* lastRequestObservationTimeUtc of each source
  dataset,     \* datasetTimestampUtc of each source
  overlay,     \* overlaySource and overlayPath of each source
  active,      \* the source at m_activeSourceIndex
  shown,       \* m_overlaySource
  listed,      \* m_activeTecSources, from which the user selects
  timer,       \* ticks until m_requestDebounceTimer expires, 0 if stopped
  quiet,       \* ticks since the last burst of messages, up to Gap
  requests,    \* requests that plugins have not answered yet
  files,       \* overlay files on disk
  revision     \* m_revision

settings == <<enabled, off, installed, reloads, changes>>
data     == <<last, dataset, overlay, files, revision>>
vars     == <<settings, data, pending, sources, active, shown, listed, timer,
              quiet, requests>>
-----------------------------------------------------------------------------
ShouldRequestRefresh(since, now) ==
  /\ now # None
  /\ since = None \/ Interval = 0 \/ now >= since + Interval

IsEnabled(s) == enabled /\ s \notin off

Enabled == {s \in Plugins : IsEnabled(s)}

(* The sources to ask at the observation time now. *)
Due(now) ==
  {s \in ToSet(sources) \cap Enabled : ShouldRequestRefresh(last[s], now)}

(* rebuildDescriptors.  The mutant lists the sources before a reload.      *)
DescriptorsBefore  == listed' = Only(sources, Enabled')
RebuildDescriptors == listed' = Only(sources', Enabled')

(* applyActiveSourceState.  The mutant shows the source selected before.   *)
ApplyOldSource ==
  shown' = IF active = None THEN None ELSE overlay'[active]
ApplyActiveSource ==
  shown' = IF active' = None THEN None ELSE overlay'[active']

Present == ApplyActiveSource /\ RebuildDescriptors

(* clearOverlay of every source. *)
ClearOverlays ==
  /\ files' = files \ {overlay[s] : s \in ToSet(sources)}
  /\ overlay' = [s \in Plugins |-> None]
-----------------------------------------------------------------------------
(* A burst of messages with the observation time t. *)
SetObservationTime(t) ==
  /\ quiet >= Gap
  /\ pending' = t
  /\ quiet' = 0
  /\ timer' = IF Due(t) # {} THEN Debounce ELSE timer
  /\ UNCHANGED <<settings, data, sources, active, requests>>
  /\ Present

(* A session that clears the user interface clears the observation time;   *)
(* the timer goes on.                                                      *)
ClearObservationTime ==
  /\ pending # None
  /\ pending' = None
  /\ ClearOverlays
  /\ last' = [s \in Plugins |-> None]
  /\ dataset' = [s \in Plugins |-> None]
  /\ UNCHANGED <<settings, sources, active, timer, quiet, requests, revision>>
  /\ Present

(* Time passes; an expired timer is served before more of it does. *)
Tick ==
  /\ timer # 1
  /\ timer > 0 \/ quiet < Gap
  /\ timer' = IF timer > 0 THEN timer - 1 ELSE 0
  /\ quiet' = IF quiet < Gap THEN quiet + 1 ELSE quiet
  /\ UNCHANGED <<settings, data, pending, sources, active, shown, listed, requests>>

(* requestRefreshForEnabledSources, when the timer has expired. *)
RequestRefresh ==
  /\ timer = 1
  /\ timer' = 0
  /\ UNCHANGED <<settings, dataset, overlay, files, revision, pending, sources,
                 active, quiet>>
  /\ IF pending = None \/ ~enabled
     THEN UNCHANGED <<last, requests, shown, listed>>
     ELSE /\ last' = [s \in Plugins |-> IF s \in Due(pending) THEN pending ELSE last[s]]
          /\ requests' = requests \cup {[plugin |-> s, time |-> pending] : s \in Due(pending)}
          /\ Present
-----------------------------------------------------------------------------
(* The answers.  The signals of a plugin are connected while it is among   *)
(* the sources; a plugin found again by a reload is the same object.       *)

(* renderDataset writes a new file and removes the one it replaces.  Bound: *)
(* MaxWrites.  The mutant leaves the old file.                             *)
RenderBesideOld(s, time) ==
  LET file == [number |-> revision + 1, time |-> time]
  IN  /\ files' = files \cup {file}
      /\ overlay' = [overlay EXCEPT ![s] = file]
      /\ dataset' = [dataset EXCEPT ![s] = time]
RenderDataset(s, time) ==
  LET file == [number |-> revision + 1, time |-> time]
  IN  /\ files' = (files \ {overlay[s]}) \cup {file}
      /\ overlay' = [overlay EXCEPT ![s] = file]
      /\ dataset' = [dataset EXCEPT ![s] = time]

Answered(r) ==
  /\ requests' = requests \ {r}
  /\ UNCHANGED <<settings, pending, sources, active, last, timer, quiet>>

DataReady(r) ==
  /\ Answered(r)
  /\ IF r.plugin \in ToSet(sources)
     THEN /\ revision < MaxWrites
          /\ revision' = revision + 1
          /\ RenderDataset(r.plugin, r.time)
          /\ Present
     ELSE UNCHANGED <<dataset, overlay, files, revision, shown, listed>>

(* The directory or, with a number already taken, the file cannot be       *)
(* written.                                                                *)
RenderFails(r) ==
  /\ r.plugin \in ToSet(sources)
  /\ Answered(r)
  /\ revision < MaxWrites /\ revision' \in {revision, revision + 1}
  /\ UNCHANGED <<dataset, overlay, files>>
  /\ Present

(* An error takes away the overlay only if there is no dataset. *)
ErrorOccurred(r) ==
  /\ Answered(r)
  /\ LET drops == r.plugin \in ToSet(sources) /\ dataset[r.plugin] = None
     IN  /\ files' = IF drops THEN files \ {overlay[r.plugin]} ELSE files
         /\ overlay' = IF drops THEN [overlay EXCEPT ![r.plugin] = None] ELSE overlay
  /\ IF r.plugin \in ToSet(sources) THEN Present ELSE UNCHANGED <<shown, listed>>
  /\ UNCHANGED <<dataset, revision>>
-----------------------------------------------------------------------------
(* The user and the settings.                                              *)

SetActiveSource(i) ==
  /\ i \in DOMAIN listed
  /\ listed[i] \in ToSet(sources) /\ listed[i] # active
  /\ active' = listed[i]
  /\ UNCHANGED <<settings, data, pending, sources, timer, quiet, requests>>
  /\ Present

(* ensureActiveSourceSelection: the source selected before, if it may be,  *)
(* or the first that may.  The mutant does not look whether it may.        *)
ActiveKept(found, may) ==
  IF active # None THEN active ELSE IF found = <<>> THEN None ELSE Head(found)
ActiveOf(found, may) ==
  IF active \in may THEN active
  ELSE IF may = {} THEN None
  ELSE found[CHOOSE i \in DOMAIN found :
               found[i] \in may /\ \A j \in 1..i - 1 : found[j] \notin may]

(* The timer starts after a reload because every request is forgotten.     *)
(* The mutant leaves it alone.                                             *)
TimerKept(may) == timer
TimerAfterReload(may) == IF pending # None /\ may # {} THEN Debounce ELSE timer

(* What TecPluginLoader finds in the directories. *)
LoadFromDirectories(present) == Only(Order, present)

(* reloadPlugin, with the settings as they are after the step. *)
Reload ==
  LET may == ToSet(sources') \cap Enabled'
  IN  /\ sources' = LoadFromDirectories(installed')
      /\ active' = ActiveOf(sources', may)
      /\ timer' = TimerAfterReload(may)
      /\ ClearOverlays
      /\ last' = [s \in Plugins |-> None]
      /\ dataset' = [s \in Plugins |-> None]
      /\ Present
      /\ UNCHANGED <<pending, quiet, requests, revision>>

(* Bound: MaxChanges. *)
Change ==
  /\ changes < MaxChanges
  /\ changes' = changes + 1

(* The switch for all plugins reloads at once ... *)
SetPluginsEnabled ==
  /\ Change
  /\ enabled' = ~enabled
  /\ UNCHANGED <<off, installed, reloads>>
  /\ Reload

(* ... the plugin directory and the settings of a plugin by a queued call. *)
QueueReload ==
  /\ Change
  /\ reloads' = reloads + 1
  /\ UNCHANGED <<enabled, data, pending, sources, active, shown, listed, timer,
                 quiet, requests>>

SetPluginEnabled(s) ==
  /\ QueueReload
  /\ off' = IF s \in off THEN off \ {s} ELSE off \cup {s}
  /\ UNCHANGED installed

SetPluginDirectory ==
  /\ QueueReload
  /\ \E found \in SUBSET Plugins : installed' = found
  /\ UNCHANGED off

SetPluginValue == QueueReload /\ UNCHANGED <<off, installed>>

QueuedReload ==
  /\ reloads > 0
  /\ reloads' = reloads - 1
  /\ UNCHANGED <<enabled, off, installed, changes>>
  /\ Reload
-----------------------------------------------------------------------------
Init ==
  /\ enabled \in BOOLEAN /\ off \in SUBSET Plugins /\ installed = Plugins
  /\ reloads = 0 /\ changes = 0
  /\ pending = None
  /\ sources = LoadFromDirectories(installed)
  /\ last = [s \in Plugins |-> None]
  /\ dataset = [s \in Plugins |-> None]
  /\ overlay = [s \in Plugins |-> None]
  /\ listed = Only(sources, Enabled)
  /\ active = IF listed = <<>> THEN None ELSE Head(listed)
  /\ shown = None
  /\ timer = 0 /\ quiet = Gap
  /\ requests = {} /\ files = {} /\ revision = 0

Answer == \E r \in requests : DataReady(r) \/ RenderFails(r) \/ ErrorOccurred(r)

User ==
  \/ \E i \in 1..Len(Order) : SetActiveSource(i)
  \/ SetPluginsEnabled
  \/ \E s \in Plugins : SetPluginEnabled(s)
  \/ SetPluginDirectory
  \/ SetPluginValue

Next ==
  \/ \E t \in Times : SetObservationTime(t)
  \/ ClearObservationTime
  \/ Tick
  \/ RequestRefresh
  \/ QueuedReload
  \/ Answer
  \/ User

Spec == Init /\ [][Next]_vars

(* Time passes, and the event loop serves the timer and queued calls. *)
FairSpec == Spec /\ WF_vars(Tick) /\ WF_vars(RequestRefresh) /\ WF_vars(QueuedReload)
-----------------------------------------------------------------------------
(* Types of the variables. *)
TypeOK ==
  /\ enabled \in BOOLEAN /\ off \subseteq Plugins /\ installed \subseteq Plugins
  /\ reloads \in 0..MaxChanges /\ changes \in 0..MaxChanges
  /\ pending \in Times \cup {None}
  /\ sources \in Seq(Plugins) /\ listed \in Seq(Plugins)
  /\ last \in [Plugins -> Times \cup {None}]
  /\ dataset \in [Plugins -> Times \cup {None}]
  /\ overlay \in [Plugins -> Files \cup {None}]
  /\ active \in ToSet(sources) \cup {None}
  /\ shown \in Files \cup {None}
  /\ timer \in 0..Debounce /\ quiet \in 0..Gap
  /\ requests \subseteq [plugin : Plugins, time : Times]
  /\ files \subseteq Files /\ revision \in 0..MaxWrites

(***************************************************************************)
(* The map shows the overlay of the selected source, or none: the copy in  *)
(* m_overlaySource follows answers to either source, selections, cleared   *)
(* times and reloads.                                                      *)
(***************************************************************************)
ShownIsSelected == shown = IF active = None THEN None ELSE overlay[active]

(***************************************************************************)
(* The files on disk are those of the overlays, so nothing leaks and       *)
(* nothing shown is missing, and an overlay is the picture of the dataset  *)
(* its source holds, whatever fails in between.                            *)
(***************************************************************************)
OverlaysAreHeld ==
  /\ files = {overlay[s] : s \in ToSet(sources)} \ {None}
  /\ \A s \in ToSet(sources) :
       IF overlay[s] = None THEN dataset[s] = None ELSE overlay[s].time = dataset[s]

(***************************************************************************)
(* When no reload is outstanding the sources are those installed, the user *)
(* is offered those enabled, and one of them is selected if there is any.  *)
(***************************************************************************)
SettledSelection ==
  reloads = 0 =>
    /\ sources = LoadFromDirectories(installed)
    /\ listed = Only(sources, Enabled)
    /\ active \in IF listed = <<>> THEN {None} ELSE ToSet(listed)

(***************************************************************************)
(* A source for which a request is due is asked, or stops being due: if    *)
(* the bursts of messages are further apart than the debounce time, no     *)
(* order of messages, answers, selections and reloads starves it.          *)
(***************************************************************************)
DueRequestIsMade ==
  \A s \in Plugins : (s \in Due(pending)) ~> (s \notin Due(pending))

=============================================================================
