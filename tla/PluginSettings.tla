--------------------------- MODULE PluginSettings ---------------------------
(***************************************************************************)
(* Which plugins run: AppSettings with its file, the loaders that scan the *)
(* plugin directories, and the reloads of protocol, automation and         *)
(* transport plugins that a change of the settings brings about - some in  *)
(* the same call, most of them later, from the event queue.                *)
(*                                                                         *)
(* A plugin file is a model value; two files may hold a plugin of the same *)
(* id.  Of a plugin's own settings the model keeps whether and which       *)
(* values were chosen.  TEC plugins are in TecOverlay.                     *)
(***************************************************************************)
EXTENDS Lists, FiniteSets

CONSTANTS
  Files,         \* plugin files
  KindOf,        \* the interface that a file implements
  IdOf,          \* the id of its plugin
  Configurable,  \* ids of plugins that have settings
  Broken,        \* files whose library cannot be loaded
  EnvDirs,       \* HDGNSS_PLUGIN_DIR and HDGNSS_PLUGIN_PATH
  UserDirs,      \* directories that the user may choose
  DefaultDir,    \* the plugin directory of the user's application data
  AppDir,        \* the plugin directory beside the program
  Listing,       \* the files of a directory, by name
  ValuesOf,      \* the settings that a plugin may be given
  Empty,         \* no settings
  Unset,         \* no directory
  MaxQueue       \* bound: reloads in the event queue

Ids   == {IdOf[f] : f \in Files}
Kinds == {"protocol", "automation", "transport"}
Dirs  == UserDirs \cup {DefaultDir, Unset}

ASSUME PluginAssumption ==
  /\ KindOf \in [Files -> Kinds] /\ DOMAIN IdOf = Files /\ Broken \subseteq Files
  /\ \A f, g \in Files : IdOf[f] = IdOf[g] => KindOf[f] = KindOf[g]
  /\ Configurable \subseteq {IdOf[f] : f \in {g \in Files : KindOf[g] # "automation"}}
ASSUME DirectoryAssumption ==
  /\ Unset \notin UserDirs
  /\ EnvDirs \in Seq(DOMAIN Listing)
  /\ UserDirs \cup {DefaultDir, AppDir} \subseteq DOMAIN Listing
  /\ \A dir \in DOMAIN Listing : Listing[dir] \in Seq(Files)

VARIABLES
  running,   \* the program runs
  settings,  \* AppSettings: [on, dir, checkOnStartup, enabled, values]
  stored,    \* its file: [on, dir, checkOnStartup, groups]
  queue,     \* reloads in the event queue
  inUse,     \* the files whose plugins are registered, by kind
  listed,    \* m_availableAutomationPlugins
  applied    \* history: the settings that a plugin was given last

pluginVars == <<running, settings, stored, queue, inUse, listed, applied>>
-----------------------------------------------------------------------------
(* The loaders, which differ in the interface they look for.               *)

SearchPaths(dir) ==
  Unique(EnvDirs \o <<IF dir = Unset THEN DefaultDir ELSE dir, AppDir>>)

(* Every file once, though two directories link to it. *)
LoadFromDirectories(kind, dir) ==
  LET paths == SearchPaths(dir)
      found == FlattenSeq([i \in DOMAIN paths |-> Listing[paths[i]]])
  IN  Only(Unique(found), {f \in Files \ Broken : KindOf[f] = kind})

ProtocolPlugins(s)   == LoadFromDirectories("protocol", s.dir)
AutomationPlugins(s) == LoadFromDirectories("automation", s.dir)
TransportPlugins(s)  == LoadFromDirectories("transport", s.dir)
-----------------------------------------------------------------------------
(* The reloads, as what they make of settings s.                           *)

Allowed(s) == {f \in Files : IdOf[f] \in Configurable => s.enabled[IdOf[f]]}

(* reloadProtocolPlugins, which gives their settings to all plugins. *)
ProtocolsOf(s) == IF s.on THEN Only(ProtocolPlugins(s), Allowed(s)) ELSE <<>>

Given(s, files) ==
  [f \in Files |-> IF f \in ToSet(files) /\ IdOf[f] \in Configurable
                   THEN s.values[IdOf[f]] ELSE applied[f]]

(* reloadAutomationPlugins: the first plugin that is enabled is selected,  *)
(* and every file that holds it initialized.                               *)
AutomationOf(s) ==
  LET enabled == Only(AutomationPlugins(s), {f \in Files : s.enabled[IdOf[f]]})
  IN  IF s.on /\ enabled # <<>>
      THEN Only(enabled, {f \in Files : IdOf[f] = IdOf[Head(enabled)]}) ELSE <<>>

AutomationIds(s) ==
  LET files == AutomationPlugins(s) IN [i \in DOMAIN files |-> IdOf[files[i]]]

(* reloadTransportPlugins: one plugin of each id.  Those passed over       *)
(* because their id is taken are not given settings.                       *)
FirstOfEachId(files) ==
  Pick(files, {i \in DOMAIN files :
                 \A j \in 1..i - 1 : IdOf[files[j]] # IdOf[files[i]]})

TransportsOf(s) ==
  IF s.on THEN FirstOfEachId(Only(TransportPlugins(s), Allowed(s))) ELSE <<>>

TransportsGiven(s) ==
  LET asked == (Files \ Allowed(s)) \cup ToSet(TransportsOf(s))
  IN  IF s.on THEN Only(TransportPlugins(s), asked) ELSE <<>>

ReloadProtocolPlugins ==
  /\ inUse' = [inUse EXCEPT !["protocol"] = ProtocolsOf(settings)]
  /\ applied' = Given(settings, ProtocolPlugins(settings))
  /\ UNCHANGED listed

ReloadAutomationPlugins ==
  /\ inUse' = [inUse EXCEPT !["automation"] = AutomationOf(settings)]
  /\ listed' = AutomationIds(settings)
  /\ UNCHANGED applied

ReloadTransportPlugins(s) ==
  /\ inUse' = [inUse EXCEPT !["transport"] = TransportsOf(s)]
  /\ applied' = Given(s, TransportsGiven(s))
  /\ UNCHANGED listed

(* The event loop serves the next reload. *)
ServeReload ==
  /\ queue # <<>>
  /\ queue' = Tail(queue)
  /\ CASE Head(queue) = "protocol"   -> ReloadProtocolPlugins
       [] Head(queue) = "automation" -> ReloadAutomationPlugins
       [] Head(queue) = "transport"  -> ReloadTransportPlugins(settings)
  /\ UNCHANGED <<running, settings, stored>>
-----------------------------------------------------------------------------
(* The settings and their file.  What has its default value has no group.  *)

NoGroup == [present |-> FALSE, enabled |-> TRUE, values |-> Empty]

(* storePluginConfiguration: the group of a plugin with s in memory.  The  *)
(* mutant forgets the values of an enabled plugin.                         *)
StoreDisabled(s, id) ==
  IF s.enabled[id] THEN NoGroup
  ELSE [present |-> TRUE, enabled |-> FALSE, values |-> s.values[id]]
StorePlugin(s, id) ==
  IF s.enabled[id] /\ s.values[id] = Empty THEN NoGroup
  ELSE [present |-> TRUE, enabled |-> s.enabled[id], values |-> s.values[id]]

(* The file when the groups of these plugins are written. *)
Stored(s, ids) ==
  [stored EXCEPT !.groups = [id \in Ids |-> IF id \in ids THEN StorePlugin(s, id)
                                            ELSE stored.groups[id]]]

Load(file) ==
  [on |-> file.on,
   dir |-> IF file.dir = Unset THEN DefaultDir ELSE file.dir,
   checkOnStartup |-> file.checkOnStartup,
   enabled |-> [id \in Ids |-> file.groups[id].present => file.groups[id].enabled],
   values |-> [id \in Ids |-> IF file.groups[id].present
                              THEN file.groups[id].values ELSE Empty]]

Post(reloads) ==
  /\ Len(queue \o reloads) <= MaxQueue
  /\ queue' = queue \o reloads

(* pluginsEnabledChanged, pluginDirectoryChanged. *)
PostAll == Post(<<"protocol", "automation", "transport">>)

(* pluginSettingsChanged with pluginAvailabilityChanged.  In the mutant    *)
(* they are emitted before the setting is made.                            *)
AvailabilityChanges(s) ==
  Post(<<"protocol", "automation">>) /\ ReloadTransportPlugins(settings)
AvailabilityChanged(s) ==
  Post(<<"protocol", "automation">>) /\ ReloadTransportPlugins(s)

SetPluginsEnabled ==
  /\ running
  /\ settings' = [settings EXCEPT !.on = ~@]
  /\ stored' = [stored EXCEPT !.on = ~settings.on]
  /\ PostAll
  /\ UNCHANGED <<running, inUse, listed, applied>>

SetPluginDirectory(dir) ==
  /\ running /\ dir # settings.dir
  /\ settings' = [settings EXCEPT !.dir = dir]
  /\ stored' = [stored EXCEPT !.dir = dir]
  /\ PostAll
  /\ UNCHANGED <<running, inUse, listed, applied>>

(* One of the switches that nothing is reloaded for; the others of         *)
(* AppSettings are alike.                                                  *)
SetCheckForUpdatesOnStartup ==
  /\ running
  /\ settings' = [settings EXCEPT !.checkOnStartup = ~@]
  /\ stored' = [stored EXCEPT !.checkOnStartup = ~settings.checkOnStartup]
  /\ UNCHANGED <<running, queue, inUse, listed, applied>>

(* Plugins with settings have a card with a switch. *)
SetPluginEnabled(id) ==
  LET s == [settings EXCEPT !.enabled[id] = ~@]
  IN  /\ running
      /\ settings' = s
      /\ stored' = Stored(s, {id})
      /\ AvailabilityChanged(s)
      /\ UNCHANGED running

SetPluginPrivateSettings(id, values) ==
  LET s == [settings EXCEPT !.values[id] = values]
  IN  /\ running /\ values # settings.values[id]
      /\ settings' = s
      /\ stored' = Stored(s, {id})
      /\ Post(<<"protocol">>)
      /\ UNCHANGED <<running, inUse, listed, applied>>

(* setExclusivePluginEnabled goes through the plugins on the list and      *)
(* stores each that changes, in a file operation of its own.               *)
Exclusive(target, enabled) ==
  [settings EXCEPT !.enabled = [id \in Ids |-> IF id \in ToSet(listed)
                                               THEN enabled /\ id = target ELSE @[id]]]

Changing(s) == Only(Unique(listed), {id \in Ids : s.enabled[id] # settings.enabled[id]})

SetExclusivePluginEnabled(target, enabled) ==
  LET s == Exclusive(target, enabled)
  IN  /\ running /\ Changing(s) # <<>>
      /\ settings' = s
      /\ stored' = Stored(s, ToSet(Changing(s)))
      /\ AvailabilityChanged(s)
      /\ UNCHANGED running

NotInUse == [kind \in Kinds |-> <<>>]

(* The program ends and its event queue with it. *)
Quit ==
  /\ running /\ running' = FALSE
  /\ queue' = <<>> /\ inUse' = NotInUse /\ listed' = <<>>
  /\ applied' = [f \in Files |-> Empty]
  /\ UNCHANGED <<settings, stored>>

(* It ends when only the first n of these file operations are done. *)
CrashInSetExclusive(target, enabled, n) ==
  LET s == Exclusive(target, enabled)
  IN  /\ running /\ n < Len(Changing(s)) /\ running' = FALSE
      /\ stored' = Stored(s, ToSet(SubSeq(Changing(s), 1, n)))
      /\ queue' = <<>> /\ inUse' = NotInUse /\ listed' = <<>>
      /\ applied' = [f \in Files |-> Empty]
      /\ UNCHANGED settings

(* What a start makes of the file; transport plugins are loaded first, but *)
(* no plugin is loaded by two of the loaders.                              *)
LoadedFrom(file) ==
  LET s == Load(file)
  IN  /\ running' = TRUE /\ settings' = s /\ queue' = <<>>
      /\ inUse' = [protocol |-> ProtocolsOf(s), automation |-> AutomationOf(s),
                   transport |-> TransportsOf(s)]
      /\ listed' = AutomationIds(s)
      /\ applied' = Given(s, ProtocolPlugins(s) \o TransportsGiven(s))

StartProgram == ~running /\ LoadedFrom(stored) /\ UNCHANGED stored
-----------------------------------------------------------------------------
NoFile == [on |-> TRUE, dir |-> DefaultDir, checkOnStartup |-> TRUE,
           groups |-> [id \in Ids |-> NoGroup]]

PluginInit ==
  /\ running = FALSE
  /\ stored = NoFile /\ settings = Load(NoFile)
  /\ queue = <<>> /\ inUse = NotInUse /\ listed = <<>>
  /\ applied = [f \in Files |-> Empty]

ChangeSettings ==
  \/ SetPluginsEnabled
  \/ \E dir \in Dirs : SetPluginDirectory(dir)
  \/ SetCheckForUpdatesOnStartup
  \/ \E id \in Configurable : SetPluginEnabled(id)
  \/ \E id \in Configurable : \E values \in ValuesOf[id] \cup {Empty} :
       SetPluginPrivateSettings(id, values)
  \/ \E id \in ToSet(listed), enabled \in BOOLEAN : SetExclusivePluginEnabled(id, enabled)
-----------------------------------------------------------------------------
(***************************************************************************)
(* The settings that the user sees are those that a restart would find,    *)
(* after any sequence of changes; an empty plugin directory comes back as  *)
(* the default one, which is searched in its place before, too.            *)
(***************************************************************************)
SettingsSurvive ==
  running =>
    Load(stored) = [settings EXCEPT !.dir = IF @ = Unset THEN DefaultDir ELSE @]

(* The files that the loaders may take. *)
Found(kind) ==
  {f \in Files \ Broken : KindOf[f] = kind /\
     \E dir \in ToSet(SearchPaths(settings.dir)) : f \in ToSet(Listing[dir])}

Wanted(kind) ==
  {f \in Found(kind) : settings.on /\
     (kind = "automation" \/ IdOf[f] \in Configurable => settings.enabled[IdOf[f]])}

(***************************************************************************)
(* When no reload of a kind is queued, the plugins in use are those that   *)
(* the settings and the directories ask for now: all such protocols, with  *)
(* their settings as they are now; one transport of each id; and one       *)
(* automation plugin where there is any.  It takes every setter to post    *)
(* every reload that its setting bears on, after the setting is made.      *)
(***************************************************************************)
PluginsFollowSettings ==
  LET due(kind) == running /\ ~Contains(queue, kind)
      used(kind) == ToSet(inUse[kind])
      ids(files) == {IdOf[f] : f \in files}
  IN  /\ due("protocol") =>
           /\ used("protocol") = Wanted("protocol")
           /\ \A f \in Found("protocol") : IdOf[f] \in Configurable =>
                applied[f] = settings.values[IdOf[f]]
      /\ due("transport") =>
           /\ used("transport") \subseteq Wanted("transport")
           /\ ids(used("transport")) = ids(Wanted("transport"))
           /\ Len(inUse["transport"]) = Cardinality(ids(Wanted("transport")))
      /\ due("automation") =>
           /\ used("automation") \subseteq Wanted("automation")
           /\ ids(used("automation")) = {} <=> Wanted("automation") = {}
           /\ Cardinality(ids(used("automation"))) <= 1

=============================================================================
