------------------------- MODULE Application_proofs --------------------------
(***************************************************************************)
(* Proofs about the program of Application: the update checker, for any    *)
(* releases and any order of requests, answers, ends and starts; and the   *)
(* settings with their file and the plugins that follow them, for any      *)
(* plugins, directories and order of changes and reloads.                  *)
(***************************************************************************)
EXTENDS Application, Lists_proofs

(* The silence of the check under way is the one it was asked for with.    *)
SilenceAsAsked ==
  /\ asked \in {"silent", "explicit"}
  /\ checking => (silent <=> asked = "silent")

UpdateInv == SilenceAsAsked /\ AnswersAsAsked

-----------------------------------------------------------------------------
(* A program that starts over knows of no check.                           *)
LEMMA FreshIsSound ==
  /\ UpdateInit => UpdateInv
  /\ UpdateReset => UpdateInv'
<1>1. UpdateInit => UpdateInv
  BY DEF UpdateInit, UpdateInv, SilenceAsAsked, AnswersAsAsked, NothingShown
<1>2. UpdateReset => UpdateInv'
  BY DEF UpdateReset, UpdateInv, SilenceAsAsked, AnswersAsAsked, NothingShown
<1>3. QED
  BY <1>1, <1>2

LEMMA CheckKeeps ==
  ASSUME UpdateInv, NEW quietly \in BOOLEAN, CheckForUpdates(quietly)
  PROVE  UpdateInv'
<1>1. CASE checking
  BY <1>1 DEF CheckForUpdates, updateVars, UpdateInv, SilenceAsAsked, AnswersAsAsked,
              NothingShown
<1>2. CASE ~checking
  <2>1. /\ checking' = TRUE /\ silent' = quietly /\ lastError' = FALSE
        /\ asked' = IF quietly THEN "silent" ELSE "explicit"
        /\ UNCHANGED <<latest, hasUpdate, signalled>>
    BY <1>2 DEF CheckForUpdates
  <2>2. SilenceAsAsked'
    BY <2>1 DEF SilenceAsAsked
  <2>3. AnswersAsAsked'
    BY <2>1 DEF UpdateInv, AnswersAsAsked
  <2>4. QED
    BY <2>2, <2>3 DEF UpdateInv
<1>3. QED
  BY <1>1, <1>2

LEMMA ReplyKeeps ==
  ASSUME UpdateInv, NEW release \in Releases, ReplyRelease(release)
  PROVE  UpdateInv'
<1> DEFINE newer == CompareVersions(CurrentVersion, StripTagPrefix(release.tag)) < 0
           signal == IF newer THEN "updateAvailable"
                     ELSE IF silent THEN "none" ELSE "noUpdateAvailable"
<1>1. /\ checking /\ checking' = FALSE /\ lastError' = FALSE
      /\ latest' = Shown(release)
      /\ signalled' = [asked |-> asked, signal |-> signal, release |-> release]
      /\ UNCHANGED <<silent, asked>>
  BY DEF ReplyRelease, Signal
<1>2. SilenceAsAsked'
  BY <1>1 DEF UpdateInv, SilenceAsAsked
<1>3. latest'.release = release
  BY <1>1 DEF Shown
<1>4. /\ asked = "silent" => signal \in {"updateAvailable", "none"}
      /\ asked = "explicit" => signal # "none"
  BY <1>1 DEF UpdateInv, SilenceAsAsked
<1> HIDE DEF newer, signal
<1>5. AnswersAsAsked'
  BY <1>1, <1>3, <1>4 DEF AnswersAsAsked
<1>6. QED
  BY <1>2, <1>5 DEF UpdateInv

LEMMA FailureKeeps == UpdateInv /\ ReplyFails => UpdateInv'
<1> SUFFICES ASSUME UpdateInv, ReplyFails PROVE UpdateInv'
  OBVIOUS
<1>1. /\ checking /\ checking' = FALSE
      /\ latest' = NothingShown /\ hasUpdate' = FALSE /\ lastError' = TRUE
      /\ signalled' = [asked |-> asked, release |-> NoRelease,
                       signal |-> IF silent THEN "none" ELSE "checkFailed"]
      /\ UNCHANGED <<silent, asked>>
  BY DEF ReplyFails, Signal
<1>2. SilenceAsAsked'
  BY <1>1 DEF UpdateInv, SilenceAsAsked
<1>3. AnswersAsAsked'
  BY <1>1 DEF UpdateInv, SilenceAsAsked, AnswersAsAsked, NothingShown
<1>4. QED
  BY <1>2, <1>3 DEF UpdateInv

LEMMA UpdateKept == UpdateInv /\ [ApplicationNext]_applicationVars => UpdateInv'
<1> SUFFICES ASSUME UpdateInv, [ApplicationNext]_applicationVars PROVE UpdateInv'
  OBVIOUS
<1>1. CASE UNCHANGED updateVars
  BY <1>1 DEF updateVars, UpdateInv, SilenceAsAsked, AnswersAsAsked, NothingShown
<1>2. CASE UpdateReset
  BY <1>2, FreshIsSound
<1>3. CASE \E quietly \in BOOLEAN : CheckForUpdates(quietly)
  BY <1>3, CheckKeeps
<1>4. CASE Replies
  BY <1>4, ReplyKeeps, FailureKeeps DEF Replies
<1>5. \/ UNCHANGED updateVars \/ UpdateReset \/ Replies
      \/ \E quietly \in BOOLEAN : CheckForUpdates(quietly)
  BY DEF ApplicationNext, applicationVars, Start, End, StartupCheck, UserCheck
<1>6. QED
  BY <1>1, <1>2, <1>3, <1>4, <1>5

(* In every reachable state the last answer is the one to the check it     *)
(* answers, signalled as that was asked for.                               *)
THEOREM AnsweredAsAsked == ApplicationSpec => []AnswersAsAsked
<1>1. ApplicationInit => UpdateInv
  BY FreshIsSound DEF ApplicationInit
<1>2. UpdateInv => AnswersAsAsked
  BY DEF UpdateInv
<1>3. QED
  BY <1>1, <1>2, UpdateKept, PTL DEF ApplicationSpec

-----------------------------------------------------------------------------
(* What is offered.                                                        *)

LEMMA PartType ==
  ASSUME NEW version \in Seq(Nat), NEW i \in Nat \ {0}
  PROVE  Part(version, i) \in Nat /\ (Part(version, i) > 0 => i \in 1..Len(version))
BY DEF Part

(* compareVersions puts the version that runs before another one if and    *)
(* only if that one is later.                                              *)
LEMMA ComparedVersions ==
  ASSUME NEW left \in Seq(Nat), NEW right \in Seq(Nat)
  PROVE  CompareVersions(left, right) < 0 <=> Later(right, left)
<1> DEFINE N == Len(left) + Len(right)
           differ == {i \in 1..N : Part(left, i) # Part(right, i)}
           least == Min(differ)
<1>1. /\ N \in Nat /\ Len(right) \in Nat /\ Len(right) <= N
      /\ CompareVersions(left, right) =
           IF differ = {} THEN 0
           ELSE IF Part(left, least) < Part(right, least) THEN -1 ELSE 1
  BY DEF CompareVersions
<1>2. \A i \in Nat \ {0} : Part(left, i) \in Nat /\ Part(right, i) \in Nat
  BY PartType
<1>3. ASSUME NEW i \in 1..N, Part(left, i) < Part(right, i),
             \A j \in 1..i - 1 : Part(left, j) = Part(right, j)
      PROVE  Later(right, left)
  <2>1. i \in 1..Len(right)
    BY <1>2, <1>3, PartType
  <2>2. QED
    BY <1>2, <1>3, <2>1 DEF Later
<1>4. ASSUME Later(right, left)
      PROVE  \E i \in 1..N : /\ Part(left, i) < Part(right, i)
                             /\ \A j \in 1..i - 1 : Part(left, j) = Part(right, j)
  <2>1. PICK i \in 1..Len(right) :
          /\ Part(right, i) > Part(left, i)
          /\ \A j \in 1..i - 1 : Part(right, j) = Part(left, j)
    BY <1>4 DEF Later
  <2>2. i \in 1..N /\ i \in Nat \ {0}
    BY <1>1
  <2>3. Part(left, i) < Part(right, i)
    BY <1>2, <2>1, <2>2
  <2>4. QED
    BY <2>1, <2>2, <2>3
<1>5. CASE differ = {}
  <2>1. ~ Later(right, left)
    <3>1. \A i \in 1..N : Part(left, i) = Part(right, i)
      BY <1>5
    <3>2. \A i \in 1..N : ~(Part(left, i) < Part(right, i))
      BY <1>2, <3>1
    <3>3. QED
      BY <1>4, <3>2
  <2>2. QED
    BY <1>1, <1>5, <2>1
<1>6. CASE differ # {}
  <2>1. least \in differ /\ \A k \in differ : least <= k
    <3>1. differ \in SUBSET Nat
      BY <1>1
    <3> HIDE DEF differ
    <3>2. \E m \in differ : \A k \in differ : m <= k
      BY <1>6, <3>1, LeastNatural
    <3>3. QED
      BY <3>2 DEF Min
  <2> HIDE DEF least
  <2>2. least \in 1..N /\ Part(left, least) # Part(right, least)
    BY <2>1
  <2>3. ASSUME NEW j \in 1..least - 1 PROVE Part(left, j) = Part(right, j)
    <3>1. j \in 1..N /\ ~(least <= j)
      BY <2>2
    <3>2. QED
      BY <2>1, <3>1
  <2>4. CASE Part(left, least) < Part(right, least)
    BY <1>1, <1>3, <1>6, <2>2, <2>3, <2>4
  <2>5. CASE ~(Part(left, least) < Part(right, least))
    <3>1. ASSUME NEW i \in 1..N, Part(left, i) < Part(right, i),
                 \A j \in 1..i - 1 : Part(left, j) = Part(right, j)
          PROVE  FALSE
      <4>1. i \in differ
        BY <1>2, <3>1
      <4>2. least <= i /\ least # i
        BY <2>1, <2>5, <3>1, <4>1
      <4>3. least \in 1..i - 1
        BY <2>2, <4>2
      <4>4. QED
        BY <2>2, <3>1, <4>3
    <3>2. ~ Later(right, left)
      BY <1>4, <3>1
    <3>3. QED
      BY <1>1, <1>6, <2>5, <3>2
  <2>6. QED
    BY <2>4, <2>5
<1>7. QED
  BY <1>5, <1>6

(* preferredAssetUrl takes one of the assets with the best score. *)
LEMMA PreferredIsBest ==
  ASSUME NEW assets \in Seq(Int)
  PROVE  \A i \in DOMAIN assets : assets[i] <= assets[PreferredAsset(assets)]
<1> DEFINE best == {i \in DOMAIN assets : \A j \in DOMAIN assets : assets[j] <= assets[i]}
<1>1. CASE assets = <<>>
  BY <1>1
<1>2. CASE assets # <<>>
  <2>1. best # {} /\ best \in SUBSET Nat
    BY <1>2, Greatest
  <2>2. PreferredAsset(assets) = Min(best)
    BY <2>1 DEF PreferredAsset
  <2>3. Min(best) \in best
    <3> HIDE DEF best
    <3>1. \E m \in best : \A k \in best : m <= k
      BY <2>1, LeastNatural
    <3>2. QED
      BY <3>1 DEF Min
  <2>4. QED
    BY <2>2, <2>3
<1>3. QED
  BY <1>1, <1>2

LEMMA ReplyOffers ==
  ASSUME NEW release \in Releases, ReplyRelease(release)
  PROVE  OffersAreNewer'
<1> DEFINE numbers == release.tag.numbers
           newer == CompareVersions(CurrentVersion, StripTagPrefix(release.tag)) < 0
           signal == IF newer THEN "updateAvailable"
                     ELSE IF silent THEN "none" ELSE "noUpdateAvailable"
<1>1. /\ numbers \in Seq(Nat) /\ release.assets \in Seq(Int) /\ release # NoRelease
      /\ CurrentVersion \in Seq(Nat)
  BY ReleaseAssumption
<1>2. newer <=> IsNewer(release)
  <2>1. newer <=> Later(numbers, CurrentVersion)
    BY <1>1, ComparedVersions DEF StripTagPrefix
  <2>2. QED
    BY <1>1, <2>1 DEF IsNewer
<1>3. /\ latest' = Shown(release) /\ hasUpdate' = newer
      /\ signalled' = [asked |-> asked, signal |-> signal, release |-> release]
  BY DEF ReplyRelease, Signal
<1>4. signal = "updateAvailable" <=> newer
  OBVIOUS
<1>5. latest'.release = release /\ latest'.download = PreferredAsset(release.assets)
  BY <1>3 DEF Shown
<1> HIDE DEF newer, signal
<1>6. signalled'.signal = "updateAvailable" <=> IsNewer(signalled'.release)
  BY <1>2, <1>3, <1>4
<1>7. hasUpdate' => IsNewer(latest'.release)
  BY <1>2, <1>3, <1>5
<1>8. \A i \in DOMAIN latest'.release.assets :
        latest'.release.assets[i] <= latest'.release.assets[latest'.download]
  BY <1>1, <1>5, PreferredIsBest
<1>9. QED
  BY <1>6, <1>7, <1>8 DEF OffersAreNewer, IsNewer

LEMMA OffersKept == OffersAreNewer /\ [ApplicationNext]_applicationVars => OffersAreNewer'
<1> SUFFICES ASSUME OffersAreNewer, [ApplicationNext]_applicationVars
             PROVE  OffersAreNewer'
  OBVIOUS
<1>1. CASE UNCHANGED <<latest, hasUpdate, signalled>>
  BY <1>1 DEF OffersAreNewer, IsNewer
<1>2. CASE UpdateReset
  BY <1>2 DEF UpdateReset, NothingShown, OffersAreNewer, IsNewer
<1>3. CASE ReplyFails
  <2>1. /\ latest' = NothingShown /\ hasUpdate' = FALSE
        /\ signalled' = [asked |-> asked, release |-> NoRelease,
                         signal |-> IF silent THEN "none" ELSE "checkFailed"]
    BY <1>3 DEF ReplyFails, Signal
  <2>2. signalled'.signal # "updateAvailable" /\ signalled'.release = NoRelease
    BY <2>1
  <2>3. latest'.release = NoRelease
    BY <2>1 DEF NothingShown
  <2>4. QED
    BY <2>1, <2>2, <2>3 DEF OffersAreNewer, IsNewer
<1>4. CASE \E release \in Releases : ReplyRelease(release)
  BY <1>4, ReplyOffers
<1>5. CASE \E quietly \in BOOLEAN : CheckForUpdates(quietly)
  BY <1>1, <1>5 DEF CheckForUpdates, updateVars
<1>6. \/ UNCHANGED updateVars \/ UpdateReset \/ Replies
      \/ \E quietly \in BOOLEAN : CheckForUpdates(quietly)
  BY DEF ApplicationNext, applicationVars, Start, End, StartupCheck, UserCheck
<1>7. QED
  BY <1>1, <1>2, <1>3, <1>4, <1>5, <1>6 DEF updateVars, Replies

(* In every reachable state an update is announced and offered exactly     *)
(* when the release answered is later than the program, for versions of    *)
(* any length, the button opens an asset with the best score, and the      *)
(* answer is signalled as the check was asked for.                         *)
THEOREM AnswersAreRight == ApplicationSpec => []AnswersMatchRequests
<1>1. ApplicationInit => OffersAreNewer
  BY DEF ApplicationInit, UpdateInit, NothingShown, OffersAreNewer, IsNewer
<1>2. AnswersAsAsked /\ OffersAreNewer => AnswersMatchRequests
  BY DEF AnswersMatchRequests
<1>3. QED
  BY <1>1, <1>2, OffersKept, AnsweredAsAsked, PTL DEF ApplicationSpec
-----------------------------------------------------------------------------
(* What the loaders find.                                                  *)

(* The types of the settings, of their file, and of what follows them. *)
Values == {Empty} \cup UNION {ValuesOf[id] : id \in Configurable}

Settings == [on : BOOLEAN, dir : Dirs, checkOnStartup : BOOLEAN,
             enabled : [Ids -> BOOLEAN], values : [Ids -> Values]]

Groups == [present : BOOLEAN, enabled : BOOLEAN, values : Values]

SettingsFiles == [on : BOOLEAN, dir : Dirs, checkOnStartup : BOOLEAN,
                  groups : [Ids -> Groups]]

PluginTypes ==
  /\ running \in BOOLEAN /\ settings \in Settings /\ stored \in SettingsFiles
  /\ queue \in Seq(Kinds) /\ inUse \in [Kinds -> Seq(Files)]
  /\ listed \in Seq(Ids) /\ applied \in [Files -> Values]

(* The files of a kind that can be loaded from the directories searched.   *)
FoundIn(kind, dir) ==
  {f \in Files \ Broken : KindOf[f] = kind /\
     \E d \in ToSet(SearchPaths(dir)) : f \in ToSet(Listing[d])}

LEMMA LoadedFiles ==
  ASSUME NEW kind \in Kinds, NEW dir \in Dirs
  PROVE  /\ LoadFromDirectories(kind, dir) \in Seq(Files)
         /\ ToSet(LoadFromDirectories(kind, dir)) = FoundIn(kind, dir)
<1> DEFINE paths == SearchPaths(dir)
           lists == [i \in DOMAIN paths |-> Listing[paths[i]]]
           found == FlattenSeq(lists)
           right == {f \in Files \ Broken : KindOf[f] = kind}
<1>1. LoadFromDirectories(kind, dir) = Only(Unique(found), right)
  BY DEF LoadFromDirectories
<1>2. paths \in Seq(DOMAIN Listing)
  <2> DEFINE all == EnvDirs \o <<IF dir = Unset THEN DefaultDir ELSE dir, AppDir>>
  <2>1. all \in Seq(DOMAIN Listing)
    BY DirectoryAssumption DEF Dirs
  <2> HIDE DEF all
  <2>2. Unique(all) \in Seq(DOMAIN Listing)
    BY <2>1, UniqueMembers
  <2>3. QED
    BY <2>2 DEF SearchPaths, all
<1>3. lists \in Seq(Seq(Files)) /\ DOMAIN lists = DOMAIN paths
  <2> HIDE DEF paths
  <2>1. \A i \in 1..Len(paths) : Listing[paths[i]] \in Seq(Files)
    BY <1>2, DirectoryAssumption
  <2>2. Len(paths) \in Nat /\ DOMAIN paths = 1..Len(paths)
    BY <1>2
  <2>3. QED
    BY <2>1, <2>2
<1>4. found \in Seq(Files) /\ ToSet(found) = UNION {ToSet(lists[i]) : i \in DOMAIN lists}
  <2> HIDE DEF lists
  <2>1. QED
    BY <1>3, FlattenType, FlattenMembers
<1>5. \A f : f \in ToSet(found) <=> \E d \in ToSet(paths) : f \in ToSet(Listing[d])
  <2> HIDE DEF found
  <2>1. \A i \in DOMAIN paths : lists[i] = Listing[paths[i]]
    OBVIOUS
  <2> HIDE DEF lists, paths
  <2>2. ToSet(paths) = {paths[i] : i \in DOMAIN paths}
    BY DEF ToSet
  <2>3. QED
    BY <1>3, <1>4, <2>1, <2>2
<1> HIDE DEF found, paths
<1>6. Unique(found) \in Seq(Files) /\ ToSet(Unique(found)) = ToSet(found)
  BY <1>4, UniqueMembers
<1>7. /\ Only(Unique(found), right) \in Seq(Files)
      /\ ToSet(Only(Unique(found), right)) = ToSet(found) \cap right
  BY <1>6, OnlyMembers
<1>8. QED
  BY <1>1, <1>5, <1>7 DEF FoundIn, paths

LEMMA FirstOfEachIdMembers ==
  ASSUME NEW files \in Seq(Files)
  PROVE  /\ FirstOfEachId(files) \in Seq(Files)
         /\ ToSet(FirstOfEachId(files)) \subseteq ToSet(files)
         /\ \A f \in ToSet(files) : \E g \in ToSet(FirstOfEachId(files)) : IdOf[g] = IdOf[f]
         /\ \A i, j \in 1..Len(FirstOfEachId(files)) :
              i # j => IdOf[FirstOfEachId(files)[i]] # IdOf[FirstOfEachId(files)[j]]
<1> DEFINE P == {i \in DOMAIN files : \A j \in 1..i - 1 : IdOf[files[j]] # IdOf[files[i]]}
           r == FirstOfEachId(files)
<1>1. DOMAIN files = 1..Len(files) /\ Len(files) \in Nat /\ P \in SUBSET (1..Len(files))
  OBVIOUS
<1>2. r = Pick(files, P)
  BY DEF FirstOfEachId
<1>3. \A i, j \in P : i < j => IdOf[files[i]] # IdOf[files[j]]
  <2> TAKE i \in P, j \in P
  <2>1. i < j => i \in 1..j - 1
    BY <1>1
  <2>2. QED
    BY <2>1
<1>4. ASSUME NEW i \in DOMAIN files PROVE \E k \in P : IdOf[files[k]] = IdOf[files[i]]
  <2> DEFINE Q == {k \in 1..Len(files) : IdOf[files[k]] = IdOf[files[i]]}
  <2>1. Q \in SUBSET Nat /\ Q # {}
    BY <1>1
  <2>2. PICK k \in Q : \A j \in Q : k <= j
    <3> HIDE DEF Q
    <3>1. QED
      BY <2>1, LeastNatural
  <2>3. k \in P
    BY <1>1, <2>2
  <2>4. QED
    BY <2>3
<1> HIDE DEF P, r
<1>5. r \in Seq(Files) /\ ToSet(r) = {files[i] : i \in P}
  BY <1>1, <1>2, PickMembers
<1>6. PICK at \in [1..Len(r) -> P] : Places(at, r, files, P, Len(files))
  BY <1>1, <1>2, PickProperties
<1>7. ASSUME NEW i \in 1..Len(r), NEW j \in 1..Len(r), i # j PROVE IdOf[r[i]] # IdOf[r[j]]
  <2>1. /\ at[i] \in P /\ at[j] \in P /\ r[i] = files[at[i]] /\ r[j] = files[at[j]]
        /\ (i < j => at[i] < at[j]) /\ (j < i => at[j] < at[i])
    BY <1>6 DEF Places
  <2>2. i < j \/ j < i
    BY <1>7
  <2>3. QED
    BY <1>3, <2>1, <2>2
<1>8. ToSet(r) \subseteq ToSet(files)
  BY <1>1, <1>5 DEF ToSet, P
<1>9. \A f \in ToSet(files) : \E g \in ToSet(r) : IdOf[g] = IdOf[f]
  <2>1. ASSUME NEW f \in ToSet(files) PROVE \E g \in ToSet(r) : IdOf[g] = IdOf[f]
    <3>1. PICK i \in DOMAIN files : f = files[i]
      BY DEF ToSet
    <3>2. PICK k \in P : IdOf[files[k]] = IdOf[files[i]]
      BY <1>4
    <3>3. files[k] \in ToSet(r)
      BY <1>5
    <3>4. QED
      BY <3>1, <3>2, <3>3
  <2>2. QED
    BY <2>1
<1>10. QED
  BY <1>5, <1>7, <1>8, <1>9 DEF r

-----------------------------------------------------------------------------
(* What the reloads make of settings.                                      *)

LEMMA ReloadFiles ==
  ASSUME NEW s \in Settings
  PROVE  /\ ProtocolPlugins(s) \in Seq(Files)
         /\ ToSet(ProtocolPlugins(s)) = FoundIn("protocol", s.dir)
         /\ AutomationPlugins(s) \in Seq(Files)
         /\ ToSet(AutomationPlugins(s)) = FoundIn("automation", s.dir)
         /\ TransportPlugins(s) \in Seq(Files)
         /\ ToSet(TransportPlugins(s)) = FoundIn("transport", s.dir)
<1>1. s.dir \in Dirs /\ {"protocol", "automation", "transport"} \subseteq Kinds
  BY DEF Settings, Kinds
<1>2. QED
  BY <1>1, LoadedFiles DEF ProtocolPlugins, AutomationPlugins, TransportPlugins

(* The protocol plugins in use are those found and allowed. *)
LEMMA ProtocolsFollow ==
  ASSUME NEW s \in Settings
  PROVE  /\ ProtocolsOf(s) \in Seq(Files)
         /\ ToSet(ProtocolsOf(s)) =
              IF s.on THEN FoundIn("protocol", s.dir) \cap Allowed(s) ELSE {}
<1>1. CASE s.on
  <2>1. /\ Only(ProtocolPlugins(s), Allowed(s)) \in Seq(Files)
        /\ ToSet(Only(ProtocolPlugins(s), Allowed(s))) = ToSet(ProtocolPlugins(s)) \cap Allowed(s)
    BY ReloadFiles, OnlyMembers
  <2>2. QED
    BY <1>1, <2>1, ReloadFiles DEF ProtocolsOf
<1>2. CASE ~s.on
  BY <1>2 DEF ProtocolsOf, ToSet
<1>3. QED
  BY <1>1, <1>2

(* The automation plugins in use are found and enabled, are files of one   *)
(* plugin, and are there if any may be used.                               *)
LEMMA AutomationFollows ==
  ASSUME NEW s \in Settings
  PROVE  LET may == {f \in FoundIn("automation", s.dir) : s.on /\ s.enabled[IdOf[f]]}
         IN  /\ AutomationOf(s) \in Seq(Files)
             /\ ToSet(AutomationOf(s)) \subseteq may
             /\ may # {} => ToSet(AutomationOf(s)) # {}
             /\ \A f, g \in ToSet(AutomationOf(s)) : IdOf[f] = IdOf[g]
<1> DEFINE may     == {f \in FoundIn("automation", s.dir) : s.on /\ s.enabled[IdOf[f]]}
           enabled == Only(AutomationPlugins(s), {f \in Files : s.enabled[IdOf[f]]})
           same    == {f \in Files : IdOf[f] = IdOf[Head(enabled)]}
<1>1. /\ enabled \in Seq(Files)
      /\ ToSet(enabled) = ToSet(AutomationPlugins(s)) \cap {f \in Files : s.enabled[IdOf[f]]}
  BY ReloadFiles, OnlyMembers
<1>2. ToSet(enabled) = {f \in FoundIn("automation", s.dir) : s.enabled[IdOf[f]]}
  BY <1>1, ReloadFiles DEF FoundIn
<1>3. AutomationOf(s) = IF s.on /\ enabled # <<>> THEN Only(enabled, same) ELSE <<>>
  BY DEF AutomationOf
<1> HIDE DEF enabled
<1>4. CASE s.on /\ enabled # <<>>
  <2>1. Only(enabled, same) \in Seq(Files) /\ ToSet(Only(enabled, same)) = ToSet(enabled) \cap same
    BY <1>1, OnlyMembers
  <2>2. Head(enabled) \in ToSet(enabled)
    BY <1>1, <1>4, EmptyList
  <2>3. Head(enabled) \in same
    BY <1>1, <1>4
  <2>4. QED
    BY <1>2, <1>3, <1>4, <2>1, <2>2, <2>3
<1>5. CASE ~(s.on /\ enabled # <<>>)
  <2>1. AutomationOf(s) = <<>> /\ ToSet(AutomationOf(s)) = {}
    BY <1>3, <1>5 DEF ToSet
  <2>2. enabled = <<>> => ToSet(enabled) = {}
    BY DEF ToSet
  <2>3. may = {}
    BY <1>2, <1>5, <2>2
  <2>4. QED
    BY <2>1, <2>3
<1>6. QED
  BY <1>4, <1>5

(* The transport plugins in use are found and allowed, one of each id.     *)
LEMMA TransportsFollow ==
  ASSUME NEW s \in Settings
  PROVE  LET may == {f \in FoundIn("transport", s.dir) : s.on /\ f \in Allowed(s)}
             used == TransportsOf(s)
         IN  /\ used \in Seq(Files)
             /\ ToSet(used) \subseteq may
             /\ \A f \in may : \E g \in ToSet(used) : IdOf[g] = IdOf[f]
             /\ \A i, j \in 1..Len(used) : i # j => IdOf[used[i]] # IdOf[used[j]]
             /\ TransportsGiven(s) \in Seq(Files)
             /\ ToSet(TransportsGiven(s)) \subseteq FoundIn("transport", s.dir)
<1> DEFINE allowed == Only(TransportPlugins(s), Allowed(s))
           given   == (Files \ Allowed(s)) \cup ToSet(TransportsOf(s))
<1>1. /\ allowed \in Seq(Files)
      /\ ToSet(allowed) = FoundIn("transport", s.dir) \cap Allowed(s)
  BY ReloadFiles, OnlyMembers
<1>2. /\ Only(TransportPlugins(s), given) \in Seq(Files)
      /\ ToSet(Only(TransportPlugins(s), given)) \subseteq FoundIn("transport", s.dir)
  BY ReloadFiles, OnlyMembers
<1>3. CASE s.on
  <2>1. TransportsOf(s) = FirstOfEachId(allowed)
    BY <1>3 DEF TransportsOf
  <2>2. TransportsGiven(s) = Only(TransportPlugins(s), given)
    BY <1>3 DEF TransportsGiven
  <2> HIDE DEF allowed, given
  <2>3. QED
    BY <1>1, <1>2, <1>3, <2>1, <2>2, FirstOfEachIdMembers
<1>4. CASE ~s.on
  <2>1. TransportsOf(s) = <<>> /\ TransportsGiven(s) = <<>> /\ ToSet(<<>>) = {}
    BY <1>4 DEF TransportsOf, TransportsGiven, ToSet
  <2>2. QED
    BY <1>4, <2>1
<1>5. QED
  BY <1>3, <1>4

LEMMA GivenTypes ==
  ASSUME applied \in [Files -> Values], NEW s \in Settings, NEW files
  PROVE  Given(s, files) \in [Files -> Values]
BY DEF Given, Settings, Ids

LEMMA ListedTypes ==
  ASSUME NEW s \in Settings
  PROVE  AutomationIds(s) \in Seq(Ids)
<1> DEFINE files == AutomationPlugins(s)
<1>1. files \in Seq(Files)
  BY ReloadFiles
<1>2. AutomationIds(s) = [i \in DOMAIN files |-> IdOf[files[i]]]
  BY DEF AutomationIds
<1> HIDE DEF files
<1>3. [i \in DOMAIN files |-> IdOf[files[i]]] \in Seq(Ids)
  BY <1>1 DEF Ids
<1>4. QED
  BY <1>2, <1>3

LEMMA LoadTypes ==
  ASSUME NEW file \in SettingsFiles
  PROVE  Load(file) \in Settings
BY DEF Load, Settings, SettingsFiles, Groups, Values, Dirs

LEMMA StoredTypes ==
  ASSUME stored \in SettingsFiles, NEW s \in Settings, NEW ids
  PROVE  /\ Stored(s, ids) \in SettingsFiles
         /\ Stored(s, ids).on = stored.on /\ Stored(s, ids).dir = stored.dir
         /\ Stored(s, ids).checkOnStartup = stored.checkOnStartup
         /\ \A id \in Ids : Stored(s, ids).groups[id] =
                              IF id \in ids THEN StorePlugin(s, id) ELSE stored.groups[id]
<1>1. \A id \in Ids : StorePlugin(s, id) \in Groups
  BY DEF StorePlugin, NoGroup, Groups, Settings, Values
<1>2. [id \in Ids |-> IF id \in ids THEN StorePlugin(s, id) ELSE stored.groups[id]]
        \in [Ids -> Groups]
  BY <1>1 DEF SettingsFiles
<1>3. QED
  BY <1>2 DEF Stored, SettingsFiles

-----------------------------------------------------------------------------
(* The types.                                                              *)

LEMMA QueueTypes ==
  ASSUME queue \in Seq(Kinds), NEW reloads \in Seq(Kinds), Post(reloads)
  PROVE  queue' \in Seq(Kinds)
BY DEF Post

LEMMA ReloadTypes ==
  ASSUME PluginTypes
  PROVE  /\ ReloadProtocolPlugins =>
              inUse' \in [Kinds -> Seq(Files)] /\ listed' \in Seq(Ids)
                /\ applied' \in [Files -> Values]
         /\ ReloadAutomationPlugins =>
              inUse' \in [Kinds -> Seq(Files)] /\ listed' \in Seq(Ids)
                /\ applied' \in [Files -> Values]
         /\ \A s \in Settings : ReloadTransportPlugins(s) =>
              inUse' \in [Kinds -> Seq(Files)] /\ listed' \in Seq(Ids)
                /\ applied' \in [Files -> Values]
<1>1. /\ inUse \in [Kinds -> Seq(Files)] /\ listed \in Seq(Ids)
      /\ applied \in [Files -> Values] /\ settings \in Settings
  BY DEF PluginTypes
<1>2. ASSUME ReloadProtocolPlugins
      PROVE  inUse' \in [Kinds -> Seq(Files)] /\ listed' \in Seq(Ids)
               /\ applied' \in [Files -> Values]
  BY <1>1, <1>2, ProtocolsFollow, GivenTypes DEF ReloadProtocolPlugins
<1>3. ASSUME ReloadAutomationPlugins
      PROVE  inUse' \in [Kinds -> Seq(Files)] /\ listed' \in Seq(Ids)
               /\ applied' \in [Files -> Values]
  BY <1>1, <1>3, AutomationFollows, ListedTypes DEF ReloadAutomationPlugins
<1>4. ASSUME NEW s \in Settings, ReloadTransportPlugins(s)
      PROVE  inUse' \in [Kinds -> Seq(Files)] /\ listed' \in Seq(Ids)
               /\ applied' \in [Files -> Values]
  BY <1>1, <1>4, TransportsFollow, GivenTypes DEF ReloadTransportPlugins
<1>5. QED
  BY <1>2, <1>3, <1>4

(* The settings that each setter makes are settings. *)
LEMMA SetterTypes ==
  ASSUME settings \in Settings
  PROVE  /\ [settings EXCEPT !.on = ~@] \in Settings
         /\ \A dir \in Dirs : [settings EXCEPT !.dir = dir] \in Settings
         /\ [settings EXCEPT !.checkOnStartup = ~@] \in Settings
         /\ \A id \in Ids : [settings EXCEPT !.enabled[id] = ~@] \in Settings
         /\ \A id \in Ids, v \in Values : [settings EXCEPT !.values[id] = v] \in Settings
         /\ \A target \in Ids, enabled \in BOOLEAN :
              Exclusive(target, enabled) \in Settings
<1>1. [settings EXCEPT !.on = ~@] \in Settings
  BY DEF Settings
<1>2. \A dir \in Dirs : [settings EXCEPT !.dir = dir] \in Settings
  BY DEF Settings
<1>3. [settings EXCEPT !.checkOnStartup = ~@] \in Settings
  BY DEF Settings
<1>4. \A id \in Ids : [settings EXCEPT !.enabled[id] = ~@] \in Settings
  BY DEF Settings
<1>5. \A id \in Ids, v \in Values : [settings EXCEPT !.values[id] = v] \in Settings
  BY DEF Settings
<1>6. ASSUME NEW target \in Ids, NEW enabled \in BOOLEAN PROVE Exclusive(target, enabled) \in Settings
  <2> DEFINE chosen == [id \in Ids |-> IF id \in ToSet(listed) THEN enabled /\ id = target
                                       ELSE settings.enabled[id]]
  <2>1. chosen \in [Ids -> BOOLEAN]
    BY DEF Settings
  <2>2. Exclusive(target, enabled) = [settings EXCEPT !.enabled = chosen]
    BY DEF Exclusive
  <2> HIDE DEF chosen
  <2>3. QED
    BY <2>1, <2>2 DEF Settings
<1>7. QED
  BY <1>1, <1>2, <1>3, <1>4, <1>5, <1>6

(* Nothing is in use before the program starts and when it has ended. *)
LEMMA NothingTypes ==
  /\ NotInUse \in [Kinds -> Seq(Files)]
  /\ [f \in Files |-> Empty] \in [Files -> Values]
  /\ <<>> \in Seq(Kinds) /\ <<>> \in Seq(Ids)
<1>1. <<>> \in Seq(Files) /\ <<>> \in Seq(Kinds) /\ <<>> \in Seq(Ids)
  OBVIOUS
<1>2. QED
  BY <1>1 DEF NotInUse, Values

LEMMA InitPluginTypes == PluginInit => PluginTypes
<1> SUFFICES ASSUME PluginInit PROVE PluginTypes
  OBVIOUS
<1>1. NoFile \in SettingsFiles
  BY DEF NoFile, NoGroup, SettingsFiles, Groups, Values, Dirs
<1>2. Load(NoFile) \in Settings
  BY <1>1, LoadTypes
<1>3. QED
  BY <1>1, <1>2, NothingTypes DEF PluginInit, PluginTypes

(* The actions on the plugins and their settings. *)
PluginNext ==
  \/ StartProgram
  \/ Quit
  \/ \E id \in ToSet(listed), enabled \in BOOLEAN, n \in 1..Len(listed) :
       CrashInSetExclusive(id, enabled, n)
  \/ ChangeSettings
  \/ ServeReload

LEMMA PluginSteps == [ApplicationNext]_applicationVars => [PluginNext]_pluginVars
BY DEF ApplicationNext, applicationVars, PluginNext, Start, End, StartupCheck, UserCheck

LEMMA StepPluginTypes == PluginTypes /\ [PluginNext]_pluginVars => PluginTypes'
<1> SUFFICES ASSUME PluginTypes, [PluginNext]_pluginVars PROVE PluginTypes'
  OBVIOUS
<1>0. /\ running \in BOOLEAN /\ settings \in Settings /\ stored \in SettingsFiles
      /\ queue \in Seq(Kinds) /\ inUse \in [Kinds -> Seq(Files)]
      /\ listed \in Seq(Ids) /\ applied \in [Files -> Values]
  BY DEF PluginTypes
<1>a. /\ <<"protocol", "automation", "transport">> \in Seq(Kinds)
      /\ <<"protocol", "automation">> \in Seq(Kinds) /\ <<"protocol">> \in Seq(Kinds)
  BY DEF Kinds
<1>b. Configurable \subseteq Ids
  BY PluginAssumption DEF Ids
<1>d. ToSet(listed) \subseteq Ids
  BY <1>0 DEF ToSet
<1>1. CASE StartProgram
  <2>1. Load(stored) \in Settings
    BY <1>0, LoadTypes
  <2> DEFINE s == Load(stored)
  <2>2. /\ running' = TRUE /\ settings' = s /\ queue' = <<>> /\ stored' = stored
        /\ inUse' = [protocol |-> ProtocolsOf(s), automation |-> AutomationOf(s),
                     transport |-> TransportsOf(s)]
        /\ listed' = AutomationIds(s)
        /\ applied' = Given(s, ProtocolPlugins(s) \o TransportsGiven(s))
    BY <1>1 DEF StartProgram, LoadedFrom
  <2> HIDE DEF s
  <2>3. /\ ProtocolsOf(s) \in Seq(Files) /\ AutomationOf(s) \in Seq(Files)
        /\ TransportsOf(s) \in Seq(Files) /\ AutomationIds(s) \in Seq(Ids)
    BY <2>1, ProtocolsFollow, AutomationFollows, TransportsFollow, ListedTypes DEF s
  <2>4. applied' \in [Files -> Values]
    BY <1>0, <2>1, <2>2, GivenTypes DEF s
  <2>5. inUse' \in [Kinds -> Seq(Files)]
    BY <2>2, <2>3 DEF Kinds
  <2>6. QED
    BY <1>0, <2>1, <2>2, <2>3, <2>4, <2>5 DEF PluginTypes, s
<1>2. CASE Quit
  BY <1>0, <1>2, NothingTypes DEF Quit, PluginTypes
<1>3. ASSUME NEW id \in ToSet(listed), NEW enabled \in BOOLEAN, NEW n \in 1..Len(listed),
             CrashInSetExclusive(id, enabled, n)
      PROVE  PluginTypes'
  <2>1. Exclusive(id, enabled) \in Settings
    BY <1>0, <1>d, SetterTypes
  <2>2. stored' \in SettingsFiles
    BY <1>0, <1>3, <2>1, StoredTypes DEF CrashInSetExclusive
  <2>3. QED
    BY <1>0, <1>3, <2>2, NothingTypes DEF CrashInSetExclusive, PluginTypes
<1>4. CASE SetPluginsEnabled
  <2>1. settings' \in Settings
    BY <1>0, <1>4, SetterTypes DEF SetPluginsEnabled
  <2>2. stored' \in SettingsFiles
    BY <1>0, <1>4 DEF SetPluginsEnabled, SettingsFiles, Settings
  <2>3. queue' \in Seq(Kinds)
    BY <1>0, <1>a, <1>4, QueueTypes DEF SetPluginsEnabled, PostAll
  <2>4. QED
    BY <1>0, <1>4, <2>1, <2>2, <2>3 DEF SetPluginsEnabled, PluginTypes
<1>5. ASSUME NEW dir \in Dirs, SetPluginDirectory(dir) PROVE PluginTypes'
  <2>1. settings' \in Settings
    BY <1>0, <1>5, SetterTypes DEF SetPluginDirectory
  <2>2. stored' \in SettingsFiles
    BY <1>0, <1>5 DEF SetPluginDirectory, SettingsFiles
  <2>3. queue' \in Seq(Kinds)
    BY <1>0, <1>a, <1>5, QueueTypes DEF SetPluginDirectory, PostAll
  <2>4. QED
    BY <1>0, <1>5, <2>1, <2>2, <2>3 DEF SetPluginDirectory, PluginTypes
<1>6. CASE SetCheckForUpdatesOnStartup
  <2>1. settings' \in Settings
    BY <1>0, <1>6, SetterTypes DEF SetCheckForUpdatesOnStartup
  <2>2. stored' \in SettingsFiles
    BY <1>0, <1>6 DEF SetCheckForUpdatesOnStartup, SettingsFiles, Settings
  <2>3. QED
    BY <1>0, <1>6, <2>1, <2>2 DEF SetCheckForUpdatesOnStartup, PluginTypes
<1>c. ASSUME NEW s \in Settings, NEW ids, running' = running, settings' = s,
             stored' = Stored(s, ids), AvailabilityChanged(s)
      PROVE  PluginTypes'
  <2>1. stored' \in SettingsFiles
    BY <1>0, <1>c, StoredTypes
  <2>2. queue' \in Seq(Kinds)
    BY <1>0, <1>a, <1>c, QueueTypes DEF AvailabilityChanged
  <2>3. inUse' \in [Kinds -> Seq(Files)] /\ listed' \in Seq(Ids) /\ applied' \in [Files -> Values]
    BY <1>c, ReloadTypes DEF AvailabilityChanged
  <2>4. QED
    BY <1>0, <1>c, <2>1, <2>2, <2>3 DEF PluginTypes
<1>7. ASSUME NEW id \in Configurable, SetPluginEnabled(id) PROVE PluginTypes'
  <2>1. [settings EXCEPT !.enabled[id] = ~@] \in Settings
    BY <1>0, <1>b, SetterTypes
  <2>2. QED
    BY <1>7, <1>c, <2>1 DEF SetPluginEnabled
<1>8. ASSUME NEW id \in Configurable, NEW values \in ValuesOf[id] \cup {Empty},
             SetPluginPrivateSettings(id, values)
      PROVE  PluginTypes'
  <2>1. id \in Ids /\ values \in Values
    BY <1>b DEF Values
  <2>2. [settings EXCEPT !.values[id] = values] \in Settings
    BY <1>0, <2>1, SetterTypes
  <2>3. settings' \in Settings /\ stored' \in SettingsFiles
    BY <1>0, <1>8, <2>2, StoredTypes DEF SetPluginPrivateSettings
  <2>4. queue' \in Seq(Kinds)
    BY <1>0, <1>a, <1>8, QueueTypes DEF SetPluginPrivateSettings
  <2>5. QED
    BY <1>0, <1>8, <2>3, <2>4 DEF SetPluginPrivateSettings, PluginTypes
<1>9. ASSUME NEW id \in ToSet(listed), NEW enabled \in BOOLEAN,
             SetExclusivePluginEnabled(id, enabled)
      PROVE  PluginTypes'
  <2>1. Exclusive(id, enabled) \in Settings
    BY <1>0, <1>d, SetterTypes
  <2>2. QED
    BY <1>9, <1>c, <2>1 DEF SetExclusivePluginEnabled
<1>10. CASE ServeReload
  <2>1. queue' \in Seq(Kinds)
    BY <1>0, <1>10 DEF ServeReload
  <2>2. Head(queue) \in Kinds
    BY <1>0, <1>10 DEF ServeReload
  <2>3. \/ ReloadProtocolPlugins \/ ReloadAutomationPlugins
        \/ ReloadTransportPlugins(settings)
    BY <1>10, <2>2 DEF ServeReload, Kinds
  <2>4. inUse' \in [Kinds -> Seq(Files)] /\ listed' \in Seq(Ids) /\ applied' \in [Files -> Values]
    BY <1>0, <2>3, ReloadTypes
  <2>5. QED
    BY <1>0, <1>10, <2>1, <2>4 DEF ServeReload, PluginTypes
<1>11. CASE UNCHANGED pluginVars
  BY <1>0, <1>11 DEF pluginVars, PluginTypes
<1>12. QED
  BY <1>1, <1>2, <1>3, <1>4, <1>5, <1>6, <1>7, <1>8, <1>9, <1>10, <1>11
     DEF PluginNext, ChangeSettings

LEMMA PluginTypesHold == ApplicationSpec => []PluginTypes
<1>1. ApplicationInit => PluginTypes
  BY InitPluginTypes DEF ApplicationInit
<1>2. QED
  BY <1>1, PluginSteps, StepPluginTypes, PTL DEF ApplicationSpec

-----------------------------------------------------------------------------
(* The settings and their file.                                            *)

DirOf(dir) == IF dir = Unset THEN DefaultDir ELSE dir

(* What a start would make of the file are the settings s. *)
Holds(file, s) ==
  /\ file.on = s.on /\ DirOf(file.dir) = DirOf(s.dir)
  /\ file.checkOnStartup = s.checkOnStartup
  /\ \A id \in Ids :
       /\ (file.groups[id].present => file.groups[id].enabled) = s.enabled[id]
       /\ (IF file.groups[id].present THEN file.groups[id].values ELSE Empty) = s.values[id]

LEMMA HoldsMeansLoads ==
  ASSUME NEW file \in SettingsFiles, NEW s \in Settings
  PROVE  Holds(file, s) => Load(file) = [s EXCEPT !.dir = IF @ = Unset THEN DefaultDir ELSE @]
<1> SUFFICES ASSUME Holds(file, s)
             PROVE  Load(file) = [s EXCEPT !.dir = IF @ = Unset THEN DefaultDir ELSE @]
  OBVIOUS
<1> DEFINE enabled == [id \in Ids |-> file.groups[id].present => file.groups[id].enabled]
           values  == [id \in Ids |-> IF file.groups[id].present
                                      THEN file.groups[id].values ELSE Empty]
<1>1. Load(file) = [on |-> file.on, dir |-> DirOf(file.dir),
                    checkOnStartup |-> file.checkOnStartup,
                    enabled |-> enabled, values |-> values]
  BY DEF Load, DirOf
<1>2. enabled = s.enabled
  <2>1. \A id \in Ids : enabled[id] = s.enabled[id]
    BY DEF Holds
  <2>2. s.enabled = [id \in Ids |-> s.enabled[id]]
    BY DEF Settings
  <2>3. QED
    BY <2>1, <2>2
<1>3. values = s.values
  <2>1. \A id \in Ids : values[id] = s.values[id]
    BY DEF Holds
  <2>2. s.values = [id \in Ids |-> s.values[id]]
    BY DEF Settings
  <2>3. QED
    BY <2>1, <2>2
<1> HIDE DEF enabled, values
<1>4. [s EXCEPT !.dir = IF @ = Unset THEN DefaultDir ELSE @] =
        [on |-> s.on, dir |-> DirOf(s.dir), checkOnStartup |-> s.checkOnStartup,
         enabled |-> s.enabled, values |-> s.values]
  BY DEF Settings, DirOf
<1>5. QED
  BY <1>1, <1>2, <1>3, <1>4 DEF Holds

(* A start takes the settings from the file. *)
LEMMA LoadedHolds ==
  ASSUME NEW file \in SettingsFiles
  PROVE  Holds(file, Load(file))
<1>1. Load(file).dir = DirOf(file.dir) /\ DirOf(DirOf(file.dir)) = DirOf(file.dir)
  BY DEF Load, DirOf
<1>2. Load(file).on = file.on /\ Load(file).checkOnStartup = file.checkOnStartup
  BY DEF Load
<1>3. ASSUME NEW id \in Ids
      PROVE  /\ Load(file).enabled[id] = (file.groups[id].present => file.groups[id].enabled)
             /\ Load(file).values[id] = IF file.groups[id].present
                                        THEN file.groups[id].values ELSE Empty
  BY DEF Load
<1>4. QED
  BY <1>1, <1>2, <1>3 DEF Holds

(* To write the groups of the plugins that change is enough. *)
LEMMA StoredHolds ==
  ASSUME stored \in SettingsFiles, settings \in Settings, Holds(stored, settings),
         NEW s \in Settings, NEW ids,
         s.on = settings.on, s.dir = settings.dir,
         s.checkOnStartup = settings.checkOnStartup,
         \A id \in Ids \ ids : /\ s.enabled[id] = settings.enabled[id]
                               /\ s.values[id] = settings.values[id]
  PROVE  Holds(Stored(s, ids), s)
<1> DEFINE file == Stored(s, ids)
<1>1. /\ file.on = stored.on /\ file.dir = stored.dir
      /\ file.checkOnStartup = stored.checkOnStartup
      /\ \A id \in Ids : file.groups[id] = IF id \in ids THEN StorePlugin(s, id)
                                           ELSE stored.groups[id]
  BY StoredTypes
<1> HIDE DEF file
<1>2. ASSUME NEW id \in Ids
      PROVE  /\ (file.groups[id].present => file.groups[id].enabled) = s.enabled[id]
             /\ (IF file.groups[id].present THEN file.groups[id].values ELSE Empty)
                  = s.values[id]
  <2>1. CASE id \in ids
    <3>1. file.groups[id] = StorePlugin(s, id)
      BY <1>1, <2>1
    <3>2. s.enabled[id] \in BOOLEAN
      BY DEF Settings
    <3>3. CASE s.enabled[id] /\ s.values[id] = Empty
      <4>1. file.groups[id] = NoGroup /\ s.enabled[id] = TRUE
        BY <3>1, <3>2, <3>3 DEF StorePlugin
      <4>2. file.groups[id].present = FALSE
        BY <4>1 DEF NoGroup
      <4>3. QED
        BY <3>3, <4>1, <4>2
    <3>4. CASE ~(s.enabled[id] /\ s.values[id] = Empty)
      BY <3>1, <3>2, <3>4 DEF StorePlugin
    <3>5. QED
      BY <3>3, <3>4
  <2>2. CASE id \notin ids
    BY <1>1, <2>2 DEF Holds
  <2>3. QED
    BY <2>1, <2>2
<1>3. QED
  BY <1>1, <1>2 DEF Holds, file

(* The file holds the settings while the program runs. *)
FileHolds == running => Holds(stored, settings)

LEMMA StepFileHolds == PluginTypes /\ FileHolds /\ [PluginNext]_pluginVars => FileHolds'
<1> SUFFICES ASSUME PluginTypes, FileHolds, [PluginNext]_pluginVars PROVE FileHolds'
  OBVIOUS
<1>0. settings \in Settings /\ stored \in SettingsFiles /\ listed \in Seq(Ids)
  BY DEF PluginTypes
<1>1. CASE StartProgram
  BY <1>0, <1>1, LoadedHolds DEF StartProgram, LoadedFrom, FileHolds
<1>2. CASE ~running'
  BY <1>2 DEF FileHolds
<1>3. CASE SetPluginsEnabled
  <2>1. /\ settings'.on = ~settings.on /\ settings'.dir = settings.dir
        /\ settings'.checkOnStartup = settings.checkOnStartup
        /\ settings'.enabled = settings.enabled /\ settings'.values = settings.values
    BY <1>0, <1>3 DEF SetPluginsEnabled, Settings
  <2>2. /\ stored'.on = ~settings.on /\ stored'.dir = stored.dir
        /\ stored'.checkOnStartup = stored.checkOnStartup /\ stored'.groups = stored.groups
    BY <1>0, <1>3 DEF SetPluginsEnabled, SettingsFiles
  <2>3. QED
    BY <1>3, <2>1, <2>2 DEF SetPluginsEnabled, FileHolds, Holds
<1>4. ASSUME NEW dir \in Dirs, SetPluginDirectory(dir) PROVE FileHolds'
  <2>1. /\ settings'.on = settings.on /\ settings'.dir = dir
        /\ settings'.checkOnStartup = settings.checkOnStartup
        /\ settings'.enabled = settings.enabled /\ settings'.values = settings.values
    BY <1>0, <1>4 DEF SetPluginDirectory, Settings
  <2>2. /\ stored'.on = stored.on /\ stored'.dir = dir
        /\ stored'.checkOnStartup = stored.checkOnStartup /\ stored'.groups = stored.groups
    BY <1>0, <1>4 DEF SetPluginDirectory, SettingsFiles
  <2>3. QED
    BY <1>4, <2>1, <2>2 DEF SetPluginDirectory, FileHolds, Holds
<1>5. CASE SetCheckForUpdatesOnStartup
  <2>1. /\ settings'.on = settings.on /\ settings'.dir = settings.dir
        /\ settings'.checkOnStartup = ~settings.checkOnStartup
        /\ settings'.enabled = settings.enabled /\ settings'.values = settings.values
    BY <1>0, <1>5 DEF SetCheckForUpdatesOnStartup, Settings
  <2>2. /\ stored'.on = stored.on /\ stored'.dir = stored.dir
        /\ stored'.checkOnStartup = ~settings.checkOnStartup
        /\ stored'.groups = stored.groups
    BY <1>0, <1>5 DEF SetCheckForUpdatesOnStartup, SettingsFiles
  <2>3. QED
    BY <1>5, <2>1, <2>2 DEF SetCheckForUpdatesOnStartup, FileHolds, Holds
<1>a. Configurable \subseteq Ids
  BY PluginAssumption DEF Ids
<1>6. ASSUME NEW id \in Configurable, SetPluginEnabled(id) PROVE FileHolds'
  <2> DEFINE s == [settings EXCEPT !.enabled[id] = ~@]
  <2>1. s \in Settings
    BY <1>0, <1>a, SetterTypes
  <2>2. /\ s.on = settings.on /\ s.dir = settings.dir
        /\ s.checkOnStartup = settings.checkOnStartup
        /\ \A other \in Ids \ {id} : /\ s.enabled[other] = settings.enabled[other]
                                     /\ s.values[other] = settings.values[other]
    BY <1>0, <1>a DEF Settings
  <2>3. running /\ settings' = s /\ stored' = Stored(s, {id})
    BY <1>6 DEF SetPluginEnabled
  <2> HIDE DEF s
  <2>4. Holds(Stored(s, {id}), s)
    BY <1>0, <2>1, <2>2, <2>3, StoredHolds DEF FileHolds
  <2>5. QED
    BY <2>3, <2>4 DEF FileHolds
<1>7. ASSUME NEW id \in Configurable, NEW values \in ValuesOf[id] \cup {Empty},
             SetPluginPrivateSettings(id, values)
      PROVE  FileHolds'
  <2> DEFINE s == [settings EXCEPT !.values[id] = values]
  <2>1. s \in Settings
    <3>1. id \in Ids /\ values \in Values
      BY <1>a DEF Values
    <3>2. QED
      BY <1>0, <3>1, SetterTypes
  <2>2. /\ s.on = settings.on /\ s.dir = settings.dir
        /\ s.checkOnStartup = settings.checkOnStartup
        /\ \A other \in Ids \ {id} : /\ s.enabled[other] = settings.enabled[other]
                                     /\ s.values[other] = settings.values[other]
    BY <1>0, <1>a DEF Settings
  <2>3. running /\ settings' = s /\ stored' = Stored(s, {id})
    BY <1>7 DEF SetPluginPrivateSettings
  <2> HIDE DEF s
  <2>4. Holds(Stored(s, {id}), s)
    BY <1>0, <2>1, <2>2, <2>3, StoredHolds DEF FileHolds
  <2>5. QED
    BY <2>3, <2>4 DEF FileHolds
<1>8. ASSUME NEW id \in ToSet(listed), NEW enabled \in BOOLEAN,
             SetExclusivePluginEnabled(id, enabled)
      PROVE  FileHolds'
  <2> DEFINE s   == Exclusive(id, enabled)
             ids == ToSet(Changing(s))
  <2>1. s \in Settings
    <3>1. id \in Ids
      BY <1>0 DEF ToSet
    <3>2. QED
      BY <1>0, <3>1, SetterTypes
  <2>2. /\ s.on = settings.on /\ s.dir = settings.dir
        /\ s.checkOnStartup = settings.checkOnStartup /\ s.values = settings.values
        /\ \A other \in Ids : other \notin ToSet(listed) =>
             s.enabled[other] = settings.enabled[other]
    BY <1>0 DEF Exclusive, Settings
  <2> HIDE DEF s
  <2>3. ids = ToSet(listed) \cap {other \in Ids : s.enabled[other] # settings.enabled[other]}
    <3>1. Unique(listed) \in Seq(Ids) /\ ToSet(Unique(listed)) = ToSet(listed)
      BY <1>0, UniqueMembers
    <3>2. QED
      BY <3>1, OnlyMembers DEF Changing
  <2>4. running /\ settings' = s /\ stored' = Stored(s, ids)
    BY <1>8 DEF SetExclusivePluginEnabled, s
  <2> HIDE DEF ids
  <2>5. \A other \in Ids \ ids : /\ s.enabled[other] = settings.enabled[other]
                                 /\ s.values[other] = settings.values[other]
    BY <2>2, <2>3
  <2>6. Holds(Stored(s, ids), s)
    BY <1>0, <2>1, <2>2, <2>4, <2>5, StoredHolds DEF FileHolds
  <2>7. QED
    BY <2>4, <2>6 DEF FileHolds
<1>9. CASE UNCHANGED <<running, settings, stored>>
  BY <1>9 DEF FileHolds
<1>10. CASE Quit \/ ServeReload \/ UNCHANGED pluginVars
  BY <1>2, <1>9, <1>10 DEF Quit, ServeReload, pluginVars
<1>11. CASE \E id \in ToSet(listed), enabled \in BOOLEAN, n \in 1..Len(listed) :
              CrashInSetExclusive(id, enabled, n)
  BY <1>2, <1>11 DEF CrashInSetExclusive
<1>12. QED
  BY <1>1, <1>3, <1>4, <1>5, <1>6, <1>7, <1>8, <1>10, <1>11 DEF PluginNext, ChangeSettings

(* Whatever the user changes, a restart finds the settings as they are     *)
(* now: every setter writes what it changes, for any plugins and values.   *)
THEOREM SettingsAreKept == ApplicationSpec => []SettingsSurvive
<1>1. ApplicationInit => FileHolds
  BY DEF ApplicationInit, PluginInit, FileHolds
<1>2. PluginTypes /\ FileHolds => SettingsSurvive
  BY HoldsMeansLoads DEF PluginTypes, FileHolds, SettingsSurvive
<1>3. QED
  BY <1>1, <1>2, PluginTypesHold, PluginSteps, StepFileHolds, PTL DEF ApplicationSpec

-----------------------------------------------------------------------------
(* The plugins and the settings.                                           *)

LEMMA ContainsMembers ==
  ASSUME NEW V, NEW s \in Seq(V), NEW x
  PROVE  Contains(s, x) <=> x \in ToSet(s)
<1>1. DOMAIN s = 1..Len(s)
  OBVIOUS
<1>2. QED
  BY <1>1 DEF Contains, ToSet

(* A posted reload is queued, and no other one is lost. *)
LEMMA PostedReloads ==
  ASSUME queue \in Seq(Kinds), NEW reloads \in Seq(Kinds), Post(reloads), NEW kind
  PROVE  Contains(queue', kind) <=> Contains(queue, kind) \/ Contains(reloads, kind)
<1>1. queue' = queue \o reloads /\ queue' \in Seq(Kinds)
  BY DEF Post
<1>2. ToSet(queue') = ToSet(queue) \cup ToSet(reloads)
  BY <1>1, ConcatMembers
<1>3. QED
  BY <1>1, <1>2, ContainsMembers

LEMMA ServedReload ==
  ASSUME queue \in Seq(Kinds), queue # <<>>, queue' = Tail(queue), NEW kind,
         ~Contains(queue', kind)
  PROVE  kind = Head(queue) \/ ~Contains(queue, kind)
<1> SUFFICES ASSUME NEW i \in 1..Len(queue), queue[i] = kind, i # 1 PROVE FALSE
  BY DEF Contains
<1>1. i - 1 \in 1..Len(queue') /\ queue'[i - 1] = queue[i]
  OBVIOUS
<1>2. QED
  BY <1>1 DEF Contains

(* Which plugins are used depends on three of the settings. *)
LEMMA SameReloads ==
  ASSUME NEW s, NEW t, s.on = t.on, s.dir = t.dir, s.enabled = t.enabled
  PROVE  /\ ProtocolsOf(s) = ProtocolsOf(t) /\ AutomationOf(s) = AutomationOf(t)
         /\ TransportsOf(s) = TransportsOf(t)
<1>1. /\ ProtocolPlugins(s) = ProtocolPlugins(t)
      /\ AutomationPlugins(s) = AutomationPlugins(t)
      /\ TransportPlugins(s) = TransportPlugins(t)
  BY DEF ProtocolPlugins, AutomationPlugins, TransportPlugins
<1>2. Allowed(s) = Allowed(t)
  BY DEF Allowed
<1>3. QED
  BY <1>1, <1>2 DEF ProtocolsOf, AutomationOf, TransportsOf

(* A plugin without a reload in the queue is as the settings ask. *)
ProtocolsCurrent ==
  running /\ ~Contains(queue, "protocol") =>
    /\ inUse["protocol"] = ProtocolsOf(settings)
    /\ \A f \in FoundIn("protocol", settings.dir) :
         IdOf[f] \in Configurable => applied[f] = settings.values[IdOf[f]]

AutomationCurrent ==
  running /\ ~Contains(queue, "automation") =>
    inUse["automation"] = AutomationOf(settings)

TransportsCurrent ==
  running /\ ~Contains(queue, "transport") =>
    inUse["transport"] = TransportsOf(settings)

PluginsCurrent == ProtocolsCurrent /\ AutomationCurrent /\ TransportsCurrent

(* A reload of the transports is none of the other plugins. *)
LEMMA TransportReloadKeeps ==
  ASSUME PluginTypes, NEW s \in Settings, ReloadTransportPlugins(s)
  PROVE  /\ inUse'["transport"] = TransportsOf(s)
         /\ inUse'["protocol"] = inUse["protocol"]
         /\ inUse'["automation"] = inUse["automation"]
         /\ \A f \in Files : KindOf[f] = "protocol" => applied'[f] = applied[f]
<1>1. inUse' = [inUse EXCEPT !["transport"] = TransportsOf(s)]
  BY DEF ReloadTransportPlugins
<1>2. inUse \in [Kinds -> Seq(Files)] /\ applied \in [Files -> Values]
  BY DEF PluginTypes
<1>3. ASSUME NEW f \in Files, KindOf[f] = "protocol" PROVE applied'[f] = applied[f]
  <2>1. f \notin ToSet(TransportsGiven(s))
    BY <1>3, TransportsFollow DEF FoundIn
  <2>2. applied' = Given(s, TransportsGiven(s))
    BY DEF ReloadTransportPlugins
  <2>3. QED
    BY <2>1, <2>2 DEF Given
<1>4. QED
  BY <1>1, <1>2, <1>3 DEF Kinds

LEMMA ServeKeepsCurrent ==
  ASSUME PluginTypes, PluginsCurrent, ServeReload
  PROVE  PluginsCurrent'
<1>0. /\ settings \in Settings /\ queue \in Seq(Kinds)
      /\ inUse \in [Kinds -> Seq(Files)] /\ applied \in [Files -> Values]
  BY DEF PluginTypes
<1>1. /\ queue # <<>> /\ queue' = Tail(queue)
      /\ UNCHANGED <<running, settings, stored>>
  BY DEF ServeReload
<1>2. \A kind : ~Contains(queue', kind) => kind = Head(queue) \/ ~Contains(queue, kind)
  BY <1>0, <1>1, ServedReload
<1>3. Head(queue) \in Kinds
  BY <1>0, <1>1
<1>4. CASE Head(queue) = "protocol"
  <2>1. ReloadProtocolPlugins
    BY <1>4 DEF ServeReload
  <2>2. inUse' = [inUse EXCEPT !["protocol"] = ProtocolsOf(settings)]
    BY <2>1 DEF ReloadProtocolPlugins
  <2>3. /\ inUse'["protocol"] = ProtocolsOf(settings)
        /\ inUse'["automation"] = inUse["automation"]
        /\ inUse'["transport"] = inUse["transport"]
    BY <1>0, <2>2 DEF Kinds
  <2>4. \A f \in FoundIn("protocol", settings.dir) :
          IdOf[f] \in Configurable => applied'[f] = settings.values[IdOf[f]]
    <3>1. applied' = Given(settings, ProtocolPlugins(settings))
      BY <2>1 DEF ReloadProtocolPlugins
    <3>2. ToSet(ProtocolPlugins(settings)) = FoundIn("protocol", settings.dir)
      BY <1>0, ReloadFiles
    <3>3. QED
      BY <3>1, <3>2 DEF Given, FoundIn
  <2>5. ProtocolsCurrent'
    BY <1>1, <2>3, <2>4 DEF ProtocolsCurrent, FoundIn
  <2>6. AutomationCurrent' /\ TransportsCurrent'
    BY <1>1, <1>2, <1>4, <2>3 DEF PluginsCurrent, AutomationCurrent, TransportsCurrent
  <2>7. QED
    BY <2>5, <2>6 DEF PluginsCurrent
<1>5. CASE Head(queue) = "automation"
  <2>1. ReloadAutomationPlugins
    BY <1>5 DEF ServeReload
  <2>2. inUse' = [inUse EXCEPT !["automation"] = AutomationOf(settings)] /\ applied' = applied
    BY <2>1 DEF ReloadAutomationPlugins
  <2>3. /\ inUse'["protocol"] = inUse["protocol"]
        /\ inUse'["automation"] = AutomationOf(settings)
        /\ inUse'["transport"] = inUse["transport"]
    BY <1>0, <2>2 DEF Kinds
  <2>4. ProtocolsCurrent'
    BY <1>1, <1>2, <1>5, <2>2, <2>3 DEF PluginsCurrent, ProtocolsCurrent, FoundIn
  <2>5. AutomationCurrent' /\ TransportsCurrent'
    BY <1>1, <1>2, <1>5, <2>3 DEF PluginsCurrent, AutomationCurrent, TransportsCurrent
  <2>6. QED
    BY <2>4, <2>5 DEF PluginsCurrent
<1>6. CASE Head(queue) = "transport"
  <2>1. ReloadTransportPlugins(settings)
    BY <1>6 DEF ServeReload
  <2>2. /\ inUse'["transport"] = TransportsOf(settings)
        /\ inUse'["protocol"] = inUse["protocol"]
        /\ inUse'["automation"] = inUse["automation"]
        /\ \A f \in Files : KindOf[f] = "protocol" => applied'[f] = applied[f]
    BY <1>0, <2>1, TransportReloadKeeps
  <2>3. ProtocolsCurrent'
    BY <1>1, <1>2, <1>6, <2>2 DEF PluginsCurrent, ProtocolsCurrent, FoundIn
  <2>4. AutomationCurrent' /\ TransportsCurrent'
    BY <1>1, <1>2, <1>6, <2>2 DEF PluginsCurrent, AutomationCurrent, TransportsCurrent
  <2>5. QED
    BY <2>3, <2>4 DEF PluginsCurrent
<1>7. QED
  BY <1>3, <1>4, <1>5, <1>6 DEF Kinds

LEMMA StepCurrent == PluginTypes /\ PluginsCurrent /\ [PluginNext]_pluginVars => PluginsCurrent'
<1> SUFFICES ASSUME PluginTypes, PluginsCurrent, [PluginNext]_pluginVars
             PROVE  PluginsCurrent'
  OBVIOUS
<1>0. /\ settings \in Settings /\ stored \in SettingsFiles /\ queue \in Seq(Kinds)
      /\ listed \in Seq(Ids) /\ applied \in [Files -> Values]
      /\ Configurable \subseteq Ids
  BY PluginAssumption DEF PluginTypes, Ids
<1>1. CASE StartProgram
  <2> DEFINE s == Load(stored)
  <2>1. s \in Settings
    BY <1>0, LoadTypes
  <2>2. /\ settings' = s
        /\ inUse' = [protocol |-> ProtocolsOf(s), automation |-> AutomationOf(s),
                     transport |-> TransportsOf(s)]
        /\ applied' = Given(s, ProtocolPlugins(s) \o TransportsGiven(s))
    BY <1>1 DEF StartProgram, LoadedFrom
  <2> HIDE DEF s
  <2>3. FoundIn("protocol", s.dir) \subseteq ToSet(ProtocolPlugins(s) \o TransportsGiven(s))
    BY <2>1, ReloadFiles, TransportsFollow, ConcatMembers
  <2>4. \A f \in FoundIn("protocol", s.dir) :
          IdOf[f] \in Configurable => applied'[f] = s.values[IdOf[f]]
    BY <2>2, <2>3 DEF Given, FoundIn
  <2>5. ProtocolsCurrent'
    BY <2>2, <2>4 DEF ProtocolsCurrent, FoundIn
  <2>6. QED
    BY <2>2, <2>5 DEF PluginsCurrent, AutomationCurrent, TransportsCurrent
<1>2. CASE ~running'
  BY <1>2 DEF PluginsCurrent, ProtocolsCurrent, AutomationCurrent, TransportsCurrent
<1>3. ASSUME PostAll PROVE PluginsCurrent'
  <2> DEFINE all == <<"protocol", "automation", "transport">>
  <2>1. all \in Seq(Kinds)
    BY DEF Kinds
  <2>2. Contains(all, "protocol") /\ Contains(all, "automation") /\ Contains(all, "transport")
    BY DEF Contains
  <2>3. Post(all)
    BY <1>3 DEF PostAll
  <2> HIDE DEF all
  <2>4. /\ Contains(queue', "protocol") /\ Contains(queue', "automation")
        /\ Contains(queue', "transport")
    BY <1>0, <2>1, <2>2, <2>3, PostedReloads
  <2>5. QED
    BY <2>4 DEF PluginsCurrent, ProtocolsCurrent, AutomationCurrent, TransportsCurrent
<1>4. ASSUME NEW s \in Settings, settings' = s, AvailabilityChanged(s) PROVE PluginsCurrent'
  <2> DEFINE two == <<"protocol", "automation">>
  <2>1. two \in Seq(Kinds)
    BY DEF Kinds
  <2>2. Contains(two, "protocol") /\ Contains(two, "automation")
    BY DEF Contains
  <2>3. Post(two) /\ ReloadTransportPlugins(s)
    BY <1>4 DEF AvailabilityChanged
  <2> HIDE DEF two
  <2>4. Contains(queue', "protocol") /\ Contains(queue', "automation")
    BY <1>0, <2>1, <2>2, <2>3, PostedReloads
  <2>5. inUse'["transport"] = TransportsOf(s)
    BY <2>3, TransportReloadKeeps
  <2>6. QED
    BY <1>4, <2>4, <2>5
       DEF PluginsCurrent, ProtocolsCurrent, AutomationCurrent, TransportsCurrent
<1>5. CASE SetPluginsEnabled \/ \E dir \in Dirs : SetPluginDirectory(dir)
  BY <1>3, <1>5 DEF SetPluginsEnabled, SetPluginDirectory
<1>6. CASE SetCheckForUpdatesOnStartup
  <2>1. /\ settings'.on = settings.on /\ settings'.dir = settings.dir
        /\ settings'.enabled = settings.enabled /\ settings'.values = settings.values
        /\ UNCHANGED <<running, queue, inUse, applied>>
    BY <1>0, <1>6 DEF SetCheckForUpdatesOnStartup, Settings
  <2>2. /\ ProtocolsOf(settings') = ProtocolsOf(settings)
        /\ AutomationOf(settings') = AutomationOf(settings)
        /\ TransportsOf(settings') = TransportsOf(settings)
    BY <2>1, SameReloads
  <2>3. QED
    BY <2>1, <2>2 DEF PluginsCurrent, ProtocolsCurrent, AutomationCurrent, TransportsCurrent
<1>7. ASSUME NEW id \in Configurable, SetPluginEnabled(id) PROVE PluginsCurrent'
  <2>1. [settings EXCEPT !.enabled[id] = ~@] \in Settings
    BY <1>0, SetterTypes
  <2>2. QED
    BY <1>4, <1>7, <2>1 DEF SetPluginEnabled
<1>8. ASSUME NEW id \in Configurable, NEW values, SetPluginPrivateSettings(id, values)
      PROVE  PluginsCurrent'
  <2>1. /\ settings'.on = settings.on /\ settings'.dir = settings.dir
        /\ settings'.enabled = settings.enabled
        /\ Post(<<"protocol">>) /\ UNCHANGED <<running, inUse>>
    BY <1>0, <1>8 DEF SetPluginPrivateSettings, Settings
  <2>2. /\ AutomationOf(settings') = AutomationOf(settings)
        /\ TransportsOf(settings') = TransportsOf(settings)
    BY <2>1, SameReloads
  <2>3. <<"protocol">> \in Seq(Kinds) /\ Contains(<<"protocol">>, "protocol")
    BY DEF Kinds, Contains
  <2>4. \A kind : Contains(queue', kind) <=> Contains(queue, kind) \/ Contains(<<"protocol">>, kind)
    BY <1>0, <2>1, <2>3, PostedReloads
  <2>5. QED
    BY <2>1, <2>2, <2>3, <2>4
       DEF PluginsCurrent, ProtocolsCurrent, AutomationCurrent, TransportsCurrent
<1>9. ASSUME NEW id \in ToSet(listed), NEW enabled \in BOOLEAN,
             SetExclusivePluginEnabled(id, enabled)
      PROVE  PluginsCurrent'
  <2>1. id \in Ids
    BY <1>0 DEF ToSet
  <2>2. Exclusive(id, enabled) \in Settings
    BY <1>0, <2>1, SetterTypes
  <2>3. QED
    BY <1>4, <1>9, <2>2 DEF SetExclusivePluginEnabled
<1>10. CASE UNCHANGED pluginVars
  BY <1>10 DEF pluginVars, PluginsCurrent, ProtocolsCurrent, AutomationCurrent,
               TransportsCurrent
<1>11. CASE \/ Quit
            \/ \E id \in ToSet(listed), enabled \in BOOLEAN, n \in 1..Len(listed) :
                 CrashInSetExclusive(id, enabled, n)
  BY <1>2, <1>11 DEF Quit, CrashInSetExclusive
<1>12. QED
  BY <1>1, <1>5, <1>6, <1>7, <1>8, <1>9, <1>10, <1>11, ServeKeepsCurrent
     DEF PluginNext, ChangeSettings

(* The files in use have as many ids as there are files. *)
LEMMA OneOfEachId ==
  ASSUME NEW used \in Seq(Files),
         \A i, j \in 1..Len(used) : i # j => IdOf[used[i]] # IdOf[used[j]]
  PROVE  Len(used) = Cardinality({IdOf[f] : f \in ToSet(used)})
<1> DEFINE ids == {IdOf[f] : f \in ToSet(used)}
           idAt == [i \in 1..Len(used) |-> IdOf[used[i]]]
<1>1. Len(used) \in Nat /\ DOMAIN used = 1..Len(used)
  OBVIOUS
<1>2. idAt \in [1..Len(used) -> ids]
  BY <1>1 DEF ToSet
<1>3. \A i, j \in 1..Len(used) : idAt[i] = idAt[j] => i = j
  OBVIOUS
<1>4. \A id \in ids : \E i \in 1..Len(used) : idAt[i] = id
  BY <1>1 DEF ToSet
<1> HIDE DEF idAt, ids
<1>5. idAt \in Bijection(1..Len(used), ids)
  BY <1>2, <1>3, <1>4 DEF Bijection, Injection, Surjection, IsInjective
<1>6. ExistsBijection(1..Len(used), ids)
  BY <1>5 DEF ExistsBijection
<1>7. IsFiniteSet(1..Len(used)) /\ Cardinality(1..Len(used)) = Len(used)
  BY <1>1, FS_Interval
<1>8. Cardinality(ids) = Len(used)
  BY <1>6, <1>7, FS_Bijection
<1>9. QED
  BY <1>8 DEF ids

LEMMA CurrentFollows == PluginTypes /\ PluginsCurrent => PluginsFollowSettings
<1> SUFFICES ASSUME PluginTypes, PluginsCurrent PROVE PluginsFollowSettings
  OBVIOUS
<1> DEFINE due(kind) == running /\ ~Contains(queue, kind)
           used(kind) == ToSet(inUse[kind])
           ids(files) == {IdOf[f] : f \in files}
<1>0. settings \in Settings
  BY DEF PluginTypes
<1>1. \A kind \in Kinds : Found(kind) = FoundIn(kind, settings.dir)
  BY DEF Found, FoundIn
<1>2. ASSUME due("protocol")
      PROVE  /\ used("protocol") = Wanted("protocol")
             /\ \A f \in Found("protocol") : IdOf[f] \in Configurable =>
                  applied[f] = settings.values[IdOf[f]]
  <2>1. /\ inUse["protocol"] = ProtocolsOf(settings)
        /\ \A f \in FoundIn("protocol", settings.dir) :
             IdOf[f] \in Configurable => applied[f] = settings.values[IdOf[f]]
    BY <1>2 DEF PluginsCurrent, ProtocolsCurrent
  <2>2. Found("protocol") = FoundIn("protocol", settings.dir)
    BY <1>1 DEF Kinds
  <2>3. Wanted("protocol") = IF settings.on THEN FoundIn("protocol", settings.dir) \cap Allowed(settings)
                             ELSE {}
    BY <2>2 DEF Wanted, Allowed, FoundIn
  <2>4. QED
    BY <1>0, <2>1, <2>2, <2>3, ProtocolsFollow
<1>3. ASSUME due("transport")
      PROVE  /\ used("transport") \subseteq Wanted("transport")
             /\ ids(used("transport")) = ids(Wanted("transport"))
             /\ Len(inUse["transport"]) = Cardinality(ids(Wanted("transport")))
  <2>1. inUse["transport"] = TransportsOf(settings)
    BY <1>3 DEF PluginsCurrent, TransportsCurrent
  <2>2. Found("transport") = FoundIn("transport", settings.dir)
    BY <1>1 DEF Kinds
  <2>3. Wanted("transport") =
          {f \in FoundIn("transport", settings.dir) : settings.on /\ f \in Allowed(settings)}
    BY <2>2 DEF Wanted, Allowed, FoundIn
  <2>4. /\ TransportsOf(settings) \in Seq(Files)
        /\ used("transport") \subseteq Wanted("transport")
        /\ \A f \in Wanted("transport") : \E g \in used("transport") : IdOf[g] = IdOf[f]
    BY <1>0, <2>1, <2>3, TransportsFollow
  <2>5. \A i, j \in 1..Len(TransportsOf(settings)) :
          i # j => IdOf[TransportsOf(settings)[i]] # IdOf[TransportsOf(settings)[j]]
    BY <1>0, TransportsFollow
  <2>6. ids(used("transport")) = ids(Wanted("transport"))
    BY <2>4
  <2>7. Len(TransportsOf(settings)) = Cardinality(ids(used("transport")))
    BY <2>1, <2>4, <2>5, OneOfEachId
  <2>8. QED
    BY <2>1, <2>4, <2>6, <2>7
<1>4. ASSUME due("automation")
      PROVE  /\ used("automation") \subseteq Wanted("automation")
             /\ ids(used("automation")) = {} <=> Wanted("automation") = {}
             /\ Cardinality(ids(used("automation"))) <= 1
  <2>1. inUse["automation"] = AutomationOf(settings)
    BY <1>4 DEF PluginsCurrent, AutomationCurrent
  <2>2. Found("automation") = FoundIn("automation", settings.dir)
    BY <1>1 DEF Kinds
  <2>3. Wanted("automation") =
          {f \in FoundIn("automation", settings.dir) : settings.on /\ settings.enabled[IdOf[f]]}
    BY <2>2 DEF Wanted
  <2>4. /\ used("automation") \subseteq Wanted("automation")
        /\ Wanted("automation") # {} => used("automation") # {}
        /\ \A f, g \in used("automation") : IdOf[f] = IdOf[g]
    BY <1>0, <2>1, <2>3, AutomationFollows
  <2>5. ids(used("automation")) = {} <=> Wanted("automation") = {}
    BY <2>4
  <2>6. Cardinality(ids(used("automation"))) <= 1
    <3>1. CASE used("automation") = {}
      <4>1. ids(used("automation")) = {}
        BY <3>1
      <4>2. QED
        BY <4>1, FS_EmptySet
    <3>2. CASE used("automation") # {}
      <4>1. PICK f \in used("automation") : TRUE
        BY <3>2
      <4>2. ids(used("automation")) = {IdOf[f]}
        BY <2>4, <4>1
      <4>3. Cardinality({IdOf[f]}) = 1
        BY FS_Singleton
      <4>4. QED
        BY <4>2, <4>3
    <3>3. QED
      BY <3>1, <3>2
  <2>7. QED
    BY <2>4, <2>5, <2>6
<1>5. QED
  BY <1>2, <1>3, <1>4 DEF PluginsFollowSettings

(* Once no reload of a kind is queued, its plugins are those that the      *)
(* settings ask for, for any plugins, directories and duplicates and any   *)
(* order of changes and reloads.                                           *)
THEOREM PluginsAreCurrent == ApplicationSpec => []PluginsFollowSettings
<1>1. ApplicationInit => PluginsCurrent
  BY DEF ApplicationInit, PluginInit, PluginsCurrent, ProtocolsCurrent,
         AutomationCurrent, TransportsCurrent
<1>2. QED
  BY <1>1, PluginTypesHold, PluginSteps, StepCurrent, CurrentFollows, PTL DEF ApplicationSpec

=============================================================================
