--------------------------- MODULE UpdateChecker ----------------------------
(***************************************************************************)
(* The update checker: a request to the release service at a time, its     *)
(* answer or failure, and what is shown and signalled then.                *)
(*                                                                         *)
(* A release is [tag, assets]: the tag a version, its numbers and whether  *)
(* a suffix such as "-beta.1" follows; the assets a sequence of scores for *)
(* this platform.                                                          *)
(***************************************************************************)
EXTENDS Integers, Sequences, FiniteSetsExt, SequencesExt

CONSTANTS
  CurrentVersion,  \* the numbers of the version that runs
  Releases,        \* releases that the service may answer with
  NoRelease        \* no release

ASSUME ReleaseAssumption ==
  /\ CurrentVersion \in Seq(Nat) /\ NoRelease \notin Releases
  /\ \A release \in Releases :
       release.tag.numbers \in Seq(Nat) /\ release.assets \in Seq(Int)

VARIABLES
  checking,    \* m_checking
  silent,      \* m_silent
  latest,      \* the release shown: m_latestVersion and its URLs
  hasUpdate,   \* m_hasUpdate
  lastError,   \* there is an m_lastError
  asked,       \* history: how the check under way was asked for
  signalled    \* history: the last answer, [asked, signal, release]

updateVars == <<checking, silent, latest, hasUpdate, lastError, asked, signalled>>
-----------------------------------------------------------------------------
StripTagPrefix(tag) == tag.numbers

(* numericVersionParts gives 0 for a number that is not there. *)
Part(version, i) == IF i <= Len(version) THEN version[i] ELSE 0

CompareVersions(left, right) ==
  LET differ == {i \in 1..(Len(left) + Len(right)) : Part(left, i) # Part(right, i)}
  IN  IF differ = {} THEN 0
      ELSE IF Part(left, Min(differ)) < Part(right, Min(differ)) THEN -1 ELSE 1

(* The place of the first asset with the best score, 0 if there is none. *)
PreferredAsset(assets) ==
  LET best == {i \in DOMAIN assets : \A j \in DOMAIN assets : assets[j] <= assets[i]}
  IN  IF best = {} THEN 0 ELSE Min(best)

NothingShown == [version |-> <<>>, release |-> NoRelease, download |-> 0]

Shown(release) ==
  [version |-> StripTagPrefix(release.tag), release |-> release,
   download |-> PreferredAsset(release.assets)]

(* checkForUpdates returns at once while a check is under way.  In the     *)
(* mutant it has taken the new request's silence by then.                  *)
CheckLateGuard(quietly) ==
  IF checking
  THEN silent' = quietly /\ UNCHANGED <<checking, latest, hasUpdate, lastError, asked, signalled>>
  ELSE /\ checking' = TRUE /\ silent' = quietly /\ lastError' = FALSE
       /\ asked' = IF quietly THEN "silent" ELSE "explicit"
       /\ UNCHANGED <<latest, hasUpdate, signalled>>
CheckForUpdates(quietly) ==
  IF checking THEN UNCHANGED updateVars
  ELSE /\ checking' = TRUE /\ silent' = quietly /\ lastError' = FALSE
       /\ asked' = IF quietly THEN "silent" ELSE "explicit"
       /\ UNCHANGED <<latest, hasUpdate, signalled>>

Signal(signal, release) ==
  signalled' = [asked |-> asked, signal |-> signal, release |-> release]

(* handleNetworkReply with a release that has a version. *)
ReplyRelease(release) ==
  LET newer == CompareVersions(CurrentVersion, StripTagPrefix(release.tag)) < 0
  IN  /\ checking /\ checking' = FALSE
      /\ latest' = Shown(release) /\ hasUpdate' = newer /\ lastError' = FALSE
      /\ Signal(IF newer THEN "updateAvailable"
                ELSE IF silent THEN "none" ELSE "noUpdateAvailable", release)
      /\ UNCHANGED <<silent, asked>>

(* handleNetworkReply and failCheck: no connection, no answer in 15 s,     *)
(* not JSON, no tag.                                                       *)
ReplyFails ==
  /\ checking /\ checking' = FALSE
  /\ latest' = NothingShown /\ hasUpdate' = FALSE /\ lastError' = TRUE
  /\ Signal(IF silent THEN "none" ELSE "checkFailed", NoRelease)
  /\ UNCHANGED <<silent, asked>>

UpdateReset ==
  /\ checking' = FALSE /\ silent' = FALSE /\ latest' = NothingShown
  /\ hasUpdate' = FALSE /\ lastError' = FALSE /\ asked' = "silent"
  /\ signalled' = [asked |-> "silent", signal |-> "none", release |-> NoRelease]

UpdateInit ==
  /\ checking = FALSE /\ silent = FALSE /\ latest = NothingShown
  /\ hasUpdate = FALSE /\ lastError = FALSE /\ asked = "silent"
  /\ signalled = [asked |-> "silent", signal |-> "none", release |-> NoRelease]

Replies == ReplyFails \/ \E release \in Releases : ReplyRelease(release)
-----------------------------------------------------------------------------
(* A version is later than one that it exceeds in the first number in      *)
(* which they differ.                                                      *)
Later(version, than) ==
  \E i \in 1..Len(version) :
    /\ Part(version, i) > Part(than, i)
    /\ \A j \in 1..i - 1 : Part(version, j) = Part(than, j)

IsNewer(release) ==
  release # NoRelease /\ Later(release.tag.numbers, CurrentVersion)

(* What is signalled and shown goes with how the check was asked for and   *)
(* with the answer to it.                                                  *)
AnswersAsAsked ==
  /\ signalled.asked = "silent" => signalled.signal \in {"updateAvailable", "none"}
  /\ signalled.asked = "explicit" => signalled.signal # "none"
  /\ ~checking => latest.release = signalled.release
  /\ lastError => ~hasUpdate /\ latest = NothingShown

(* Updates are newer than the program, and their button opens the asset    *)
(* that fits best.                                                         *)
OffersAreNewer ==
  /\ signalled.signal = "updateAvailable" <=> IsNewer(signalled.release)
  /\ hasUpdate => IsNewer(latest.release)
  /\ latest.release # NoRelease =>
       \A i \in DOMAIN latest.release.assets :
         latest.release.assets[i] <= latest.release.assets[latest.download]

(***************************************************************************)
(* An answer is signalled as the check was asked for that it answers,      *)
(* whatever else was asked for while it was under way: the user who asked  *)
(* is told of an update, that there is none, or of a failure; the check    *)
(* of the start-up speaks of updates only; and the update that the buttons *)
(* offer is newer than the program and is the release they open.           *)
(***************************************************************************)
AnswersMatchRequests == AnswersAsAsked /\ OffersAreNewer

=============================================================================
