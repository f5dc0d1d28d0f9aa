-------------------------- MODULE Recording_proofs --------------------------
(***************************************************************************)
(* Proofs about Transports and, from its theorems, about Recording, whose  *)
(* steps make those of Transports: for all sets of transport plugins and   *)
(* scan orders, all log directories and times, and every value of the      *)
(* bounds.                                                                 *)
(***************************************************************************)
EXTENDS Recording, SequenceTheorems, TLAPS

-----------------------------------------------------------------------------
(* Transports.                                                             *)

Selections == [locked : Names \cup {NoName}, active : Names]

(* A selection in which the lock, if any, is the active transport.         *)
Coherent(s) ==
  /\ s \in Selections
  /\ s.locked # NoName => s.active = s.locked

(* What the properties need besides themselves: only TCP is ever between   *)
(* closed and open, and the controller is attached to whatever may open.   *)
OnlyTcpConnects == \A t \in Names : link[t] = "connecting" => t = "TCP"
OpenIsKnown     == \A t \in Names : link[t] = "open" => t \in Known
KnownIsAttached == \A t \in Known : attached[t] > 0

IndInv ==
  /\ TypeOK
  /\ OnlyTcpConnects
  /\ OpenIsKnown
  /\ KnownIsAttached
  /\ ActiveFollowsLock
  /\ LockHeldWhileOpen
  /\ OnlyTcpLocksUnopened
  /\ TwoOpenOnlyByTcp

-----------------------------------------------------------------------------
(* Lemmas about the operators of the selection.                            *)

LEMMA NoNameIsNoName == NoName \notin Names
BY TransportsAssumption DEF Names, Builtins, NoName

(* The scan finds an open transport exactly when there is one.             *)
LEMMA CurrentOpenFinds ==
  ASSUME NEW lk \in [Names -> LinkStates]
  PROVE  /\ CurrentOpen(lk) \in Names \cup {NoName}
         /\ CurrentOpen(lk) = NoName <=> OpenOnes(lk) = {}
         /\ CurrentOpen(lk) # NoName => CurrentOpen(lk) \in OpenOnes(lk)
<1>1. CASE OpenOnes(lk) = {}
  BY <1>1 DEF CurrentOpen
<1>2. CASE OpenOnes(lk) # {}
  <2>1. OpenOnes(lk) \in SUBSET Names
    BY DEF OpenOnes
  <2>2. \E t \in OpenOnes(lk) : \A u \in OpenOnes(lk) : Rank[t] <= Rank[u]
    BY <1>2, <2>1, TransportsAssumption
  <2>3. CurrentOpen(lk) \in OpenOnes(lk)
    BY <1>2, <2>2 DEF CurrentOpen
  <2>4. QED
    BY <1>2, <2>3, NoNameIsNoName DEF OpenOnes
<1>3. QED
  BY <1>1, <1>2

LEMMA LockIsCoherent ==
  ASSUME NEW s, Coherent(s), NEW n \in Names \cup {NoName}
  PROVE  Coherent(Lock(s, n)) /\ Lock(s, n).locked = n
<1>1. CASE s.locked = n
  BY <1>1 DEF Lock
<1>2. CASE s.locked # n
  BY <1>2 DEF Lock, Coherent, Selections
<1>3. QED
  BY <1>1, <1>2

LEMMA ActivateIsCoherent ==
  ASSUME NEW s, Coherent(s), NEW n \in Names
  PROVE  Coherent(Activate(s, n))
BY DEF Activate, Coherent, Selections

LEMMA OpenChangedIsCoherent ==
  ASSUME NEW s, Coherent(s), NEW lk \in [Names -> LinkStates]
  PROVE  Coherent(OpenChanged(s, lk)) /\ OpenChanged(s, lk).locked = CurrentOpen(lk)
BY CurrentOpenFinds, LockIsCoherent DEF OpenChanged

LEMMA ClosedFirstIsCoherent ==
  ASSUME TypeOK, Coherent(sel), NEW t \in Names
  PROVE  Coherent(ClosedFirst(t))
<1>1. [link EXCEPT ![t] = "closed"] \in [Names -> LinkStates]
  BY DEF TypeOK, LinkStates
<1>2. QED
  BY <1>1, ActivateIsCoherent, OpenChangedIsCoherent DEF ClosedFirst

-----------------------------------------------------------------------------
(* The invariant.                                                          *)

LEMMA InitInd == Init => IndInv
<1> SUFFICES ASSUME Init PROVE IndInv
  OBVIOUS
<1> USE DEF Init
<1>1. TypeOK
  BY DEF TypeOK, LinkStates, Names, Builtins
<1>2. OnlyTcpConnects /\ OpenIsKnown /\ TwoOpenOnlyByTcp /\ LockHeldWhileOpen
  BY DEF OnlyTcpConnects, OpenIsKnown, TwoOpenOnlyByTcp, LockHeldWhileOpen, OpenOnes
<1>3. KnownIsAttached
  BY DEF KnownIsAttached, Known, Names
<1>4. ActiveFollowsLock /\ OnlyTcpLocksUnopened
  BY DEF ActiveFollowsLock, OnlyTcpLocksUnopened
<1>5. QED
  BY <1>1, <1>2, <1>3, <1>4 DEF IndInv

(* A step that closes transports and lets the view model look afterwards.  *)
LEMMA Settles ==
  ASSUME IndInv, NEW s, Coherent(s),
         link' \in [Names -> LinkStates],
         \A t \in Names : link'[t] \in {"closed", link[t]},
         sel' = OpenChanged(s, link')
  PROVE  /\ sel' \in Selections
         /\ ActiveFollowsLock' /\ LockHeldWhileOpen'
         /\ OnlyTcpLocksUnopened' /\ TwoOpenOnlyByTcp' /\ OnlyTcpConnects'
<1>1. Coherent(sel') /\ sel'.locked = CurrentOpen(link')
  BY OpenChangedIsCoherent
<1>2. sel' \in Selections /\ ActiveFollowsLock'
  BY <1>1 DEF Coherent, ActiveFollowsLock
<1>3. /\ sel'.locked = NoName <=> OpenOnes(link') = {}
      /\ sel'.locked # NoName => sel'.locked \in OpenOnes(link')
  BY <1>1, CurrentOpenFinds
<1>4. LockHeldWhileOpen' /\ OnlyTcpLocksUnopened'
  BY <1>3 DEF LockHeldWhileOpen, OnlyTcpLocksUnopened, OpenOnes
<1>5. TwoOpenOnlyByTcp'
  BY DEF IndInv, TwoOpenOnlyByTcp, OpenOnes
<1>6. OnlyTcpConnects'
  BY DEF IndInv, OnlyTcpConnects
<1>7. QED
  BY <1>2, <1>4, <1>5, <1>6

LEMMA SelIsCoherent == IndInv => Coherent(sel)
BY DEF IndInv, TypeOK, ActiveFollowsLock, Coherent, Selections

LEMMA RefusedKeepsInd ==
  ASSUME IndInv, NEW t \in Names, OpenRefused(t)
  PROVE  IndInv'
<1> USE DEF OpenRefused
<1>1. link \in [Names -> LinkStates]
  BY DEF IndInv, TypeOK
<1>2. CASE sel.locked # NoName
  <2>1. UNCHANGED vars
    BY <1>2 DEF vars
  <2>2. QED
    BY <2>1 DEF vars, IndInv, TypeOK, OnlyTcpConnects, OpenIsKnown, KnownIsAttached, Known,
         ActiveFollowsLock, LockHeldWhileOpen, OnlyTcpLocksUnopened, TwoOpenOnlyByTcp
<1>3. CASE sel.locked = NoName
  <2>1. CurrentOpen(link) = NoName
    BY <1>1, <1>3, CurrentOpenFinds DEF IndInv, LockHeldWhileOpen
  <2>2. QED
    BY <1>3, <2>1 DEF MayOpen
<1>4. QED
  BY <1>2, <1>3

LEMMA ActivateKeepsInd ==
  ASSUME IndInv, NEW t \in Names, SetActiveTransport(t)
  PROVE  IndInv'
<1> USE DEF SetActiveTransport
<1>1. Coherent(sel')
  BY SelIsCoherent, ActivateIsCoherent
<1>2. sel'.locked = sel.locked
  BY DEF Activate, IndInv, TypeOK
<1>3. TypeOK' /\ ActiveFollowsLock'
  BY <1>1 DEF IndInv, TypeOK, Coherent, Selections, ActiveFollowsLock
<1>4. QED
  BY <1>2, <1>3 DEF IndInv, OnlyTcpConnects, OpenIsKnown, KnownIsAttached, Known,
       LockHeldWhileOpen, OnlyTcpLocksUnopened, TwoOpenOnlyByTcp

(* Close and Lost.                                                         *)
LEMMA CloseKeepsInd ==
  ASSUME IndInv, NEW t \in Names,
         link' = [link EXCEPT ![t] = "closed"],
         sel' = OpenChanged(sel, link'),
         UNCHANGED <<registered, attached, session, sessions>>
  PROVE  IndInv'
<1>1. /\ link' \in [Names -> LinkStates]
      /\ \A u \in Names : link'[u] \in {"closed", link[u]}
  BY DEF IndInv, TypeOK, LinkStates
<1>2. /\ sel' \in Selections
      /\ ActiveFollowsLock' /\ LockHeldWhileOpen'
      /\ OnlyTcpLocksUnopened' /\ TwoOpenOnlyByTcp' /\ OnlyTcpConnects'
  BY <1>1, SelIsCoherent, Settles
<1>3. TypeOK'
  BY <1>1, <1>2 DEF IndInv, TypeOK, Selections
<1>4. OpenIsKnown' /\ KnownIsAttached'
  BY <1>1 DEF IndInv, OpenIsKnown, KnownIsAttached, Known
<1>5. QED
  BY <1>2, <1>3, <1>4 DEF IndInv

LEMMA SessionTypes ==
  ASSUME TypeOK, NEW t \in Names, NEW s, ControllerReacts(t, s)
  PROVE  session' \in Names \cup {NoName} /\ sessions' \in Nat
BY DEF TypeOK, ControllerReacts, StartSession

LEMMA OpenSucceedsKeepsInd ==
  ASSUME IndInv, NEW t \in Names, OpenSucceeds(t)
  PROVE  IndInv'
<1> USE DEF OpenSucceeds
<1> DEFINE s == OpenChanged(ClosedFirst(t), link')
<1>1. link' \in [Names -> LinkStates] /\ link'[t] = "open"
  BY DEF IndInv, TypeOK, LinkStates
<1>2. Coherent(s)
  BY <1>1, ClosedFirstIsCoherent, SelIsCoherent, OpenChangedIsCoherent DEF IndInv
<1>3. Coherent(sel') /\ sel'.locked = t
  BY <1>2, LockIsCoherent
<1>4. TypeOK'
  <2>1. session' \in Names \cup {NoName} /\ sessions' \in Nat
    BY SessionTypes DEF IndInv
  <2>2. QED
    BY <1>1, <1>3, <2>1 DEF IndInv, TypeOK, Coherent, Selections
<1>5. ActiveFollowsLock' /\ LockHeldWhileOpen' /\ OnlyTcpLocksUnopened'
  BY <1>1, <1>3, NoNameIsNoName
  DEF Coherent, ActiveFollowsLock, LockHeldWhileOpen, OnlyTcpLocksUnopened
<1>6. TwoOpenOnlyByTcp'
  <2>1. OpenOnes(link') = OpenOnes(link) \cup {t}
    BY DEF OpenOnes, IndInv, TypeOK
  <2>2. CASE CurrentOpen(link) = NoName
    <3>1. OpenOnes(link) = {}
      BY <2>2, CurrentOpenFinds DEF IndInv, TypeOK
    <3>2. QED
      BY <2>1, <3>1 DEF TwoOpenOnlyByTcp
  <2>3. CASE CurrentOpen(link) = t
    <3>1. t \in OpenOnes(link)
      BY <2>3, CurrentOpenFinds, NoNameIsNoName DEF IndInv, TypeOK
    <3>2. QED
      BY <2>1, <3>1 DEF IndInv, TwoOpenOnlyByTcp
  <2>4. QED
    BY <2>2, <2>3 DEF MayOpen
<1>7. OnlyTcpConnects' /\ OpenIsKnown' /\ KnownIsAttached'
  BY DEF IndInv, TypeOK, OnlyTcpConnects, OpenIsKnown, KnownIsAttached, Known
<1>8. QED
  BY <1>4, <1>5, <1>6, <1>7 DEF IndInv

LEMMA OpenFailsKeepsInd ==
  ASSUME IndInv, NEW t \in Names, OpenFails(t)
  PROVE  IndInv'
<1> USE DEF OpenFails
<1>1. /\ link' \in [Names -> LinkStates]
      /\ \A u \in Names : link'[u] \in {"closed", link[u]}
  BY DEF IndInv, TypeOK, LinkStates
<1>2. Coherent(ClosedFirst(t))
  BY ClosedFirstIsCoherent, SelIsCoherent DEF IndInv
<1>3. /\ sel' \in Selections
      /\ ActiveFollowsLock' /\ LockHeldWhileOpen'
      /\ OnlyTcpLocksUnopened' /\ TwoOpenOnlyByTcp' /\ OnlyTcpConnects'
  BY <1>1, <1>2, Settles
<1>4. TypeOK' /\ OpenIsKnown' /\ KnownIsAttached'
  BY <1>1, <1>3 DEF IndInv, TypeOK, Selections, OpenIsKnown, KnownIsAttached, Known
<1>5. QED
  BY <1>3, <1>4 DEF IndInv

LEMMA OpenTcpKeepsInd == IndInv /\ OpenTcp => IndInv'
<1> SUFFICES ASSUME IndInv, OpenTcp PROVE IndInv'
  OBVIOUS
<1> USE DEF OpenTcp
<1>0. "TCP" \in Names
  BY DEF Names, Builtins
<1>1. link' \in [Names -> LinkStates]
  BY DEF IndInv, TypeOK, LinkStates
<1>2. Coherent(sel') /\ sel'.locked = "TCP"
  BY <1>0, ClosedFirstIsCoherent, SelIsCoherent, LockIsCoherent DEF IndInv
<1>3. TypeOK' /\ ActiveFollowsLock' /\ LockHeldWhileOpen' /\ OnlyTcpLocksUnopened'
  BY <1>1, <1>2
  DEF IndInv, TypeOK, Coherent, Selections, NoName, ActiveFollowsLock,
      LockHeldWhileOpen, OnlyTcpLocksUnopened
<1>4. TwoOpenOnlyByTcp' /\ OnlyTcpConnects' /\ OpenIsKnown' /\ KnownIsAttached'
  BY DEF IndInv, TypeOK, TwoOpenOnlyByTcp, OpenOnes, OnlyTcpConnects,
     OpenIsKnown, KnownIsAttached, Known
<1>5. QED
  BY <1>3, <1>4 DEF IndInv

LEMMA TcpConnectedKeepsInd == IndInv /\ TcpConnected => IndInv'
<1> SUFFICES ASSUME IndInv, TcpConnected PROVE IndInv'
  OBVIOUS
<1> USE DEF TcpConnected
<1>0. "TCP" \in Names /\ "TCP" \in Known
  BY DEF Names, Builtins, Known
<1>1. link' \in [Names -> LinkStates]
  BY DEF IndInv, TypeOK, LinkStates
<1>2. Coherent(sel') /\ sel'.locked = CurrentOpen(link')
  BY <1>1, SelIsCoherent, OpenChangedIsCoherent
<1>3. /\ sel'.locked = NoName <=> OpenOnes(link') = {}
      /\ sel'.locked # NoName => sel'.locked \in OpenOnes(link')
  BY <1>1, <1>2, CurrentOpenFinds
<1>4. TypeOK'
  <2>1. session' \in Names \cup {NoName} /\ sessions' \in Nat
    BY <1>0, SessionTypes DEF IndInv
  <2>2. QED
    BY <1>1, <1>2, <2>1 DEF IndInv, TypeOK, Coherent, Selections
<1>5. ActiveFollowsLock' /\ LockHeldWhileOpen' /\ OnlyTcpLocksUnopened'
  BY <1>2, <1>3
  DEF Coherent, ActiveFollowsLock, LockHeldWhileOpen, OnlyTcpLocksUnopened, OpenOnes
<1>6. TwoOpenOnlyByTcp'
  BY <1>0 DEF IndInv, TypeOK, TwoOpenOnlyByTcp, OpenOnes
<1>7. OnlyTcpConnects' /\ OpenIsKnown' /\ KnownIsAttached'
  BY <1>0 DEF IndInv, TypeOK, OnlyTcpConnects, OpenIsKnown, KnownIsAttached, Known
<1>8. QED
  BY <1>4, <1>5, <1>6, <1>7 DEF IndInv

LEMMA TcpConnectFailsKeepsInd == IndInv /\ TcpConnectFails => IndInv'
<1> SUFFICES ASSUME IndInv, TcpConnectFails PROVE IndInv'
  OBVIOUS
<1> USE DEF TcpConnectFails
<1>1. TypeOK'
  BY DEF IndInv, TypeOK, LinkStates
<1>2. OnlyTcpConnects' /\ OpenIsKnown' /\ KnownIsAttached'
  BY DEF IndInv, TypeOK, OnlyTcpConnects, OpenIsKnown, KnownIsAttached, Known
<1>3. ActiveFollowsLock' /\ LockHeldWhileOpen' /\ OnlyTcpLocksUnopened' /\ TwoOpenOnlyByTcp'
  BY DEF IndInv, TypeOK, ActiveFollowsLock, LockHeldWhileOpen, OnlyTcpLocksUnopened,
     TwoOpenOnlyByTcp, OpenOnes
<1>4. QED
  BY <1>1, <1>2, <1>3 DEF IndInv

LEMMA ReloadKeepsInd ==
  ASSUME IndInv, NEW found \in SUBSET Plugins, ReloadPlugins(found)
  PROVE  IndInv'
<1> USE DEF ReloadPlugins
<1> DEFINE s == IF ClosedBeforeOpenOne THEN OpenChanged(sel, link) ELSE sel
<1>1. /\ link' \in [Names -> LinkStates]
      /\ \A u \in Names : link'[u] \in {"closed", link[u]}
  BY DEF IndInv, TypeOK, LinkStates
<1>2. Coherent(s)
  BY SelIsCoherent, OpenChangedIsCoherent DEF IndInv, TypeOK
<1>3. /\ sel' \in Selections
      /\ ActiveFollowsLock' /\ LockHeldWhileOpen'
      /\ OnlyTcpLocksUnopened' /\ TwoOpenOnlyByTcp' /\ OnlyTcpConnects'
  BY <1>1, <1>2, Settles
<1>4. TypeOK'
  <2>1. attached' \in [Names -> Nat]
    BY DEF IndInv, TypeOK
  <2>2. QED
    BY <1>1, <1>3, <2>1 DEF IndInv, TypeOK, Selections
<1>5. OpenIsKnown'
  BY DEF IndInv, TypeOK, OpenIsKnown, Known
<1>6. KnownIsAttached'
  BY DEF IndInv, TypeOK, KnownIsAttached, Known, Names
<1>7. QED
  BY <1>3, <1>4, <1>5, <1>6 DEF IndInv

LEMMA NextKeepsInd == IndInv /\ [Next]_vars => IndInv'
<1> SUFFICES ASSUME IndInv, [Next]_vars PROVE IndInv'
  OBVIOUS
<1>1. ASSUME NEW t \in Names, TransportEvent(t) PROVE IndInv'
  <2>1. CASE Close(t) \/ Lost(t)
    BY <2>1, CloseKeepsInd DEF Close, Lost
  <2>2. QED
    BY <1>1, <2>1, RefusedKeepsInd, OpenSucceedsKeepsInd, OpenFailsKeepsInd,
       ActivateKeepsInd DEF TransportEvent
<1>2. CASE UNCHANGED vars
  BY <1>2 DEF vars, IndInv, TypeOK, OnlyTcpConnects, OpenIsKnown, KnownIsAttached, Known,
     ActiveFollowsLock, LockHeldWhileOpen, OnlyTcpLocksUnopened, TwoOpenOnlyByTcp
<1>3. QED
  BY <1>1, <1>2, OpenTcpKeepsInd, TcpConnectedKeepsInd, TcpConnectFailsKeepsInd,
     ReloadKeepsInd DEF Next

(* IndInv holds in every reachable state.                                  *)
THEOREM Invariance == Spec => []IndInv
BY InitInd, NextKeepsInd, PTL DEF Spec

(* Selection, links, attachments and sessions keep their types.            *)
THEOREM TypeCorrect == Spec => []TypeOK
<1>1. IndInv => TypeOK
  BY DEF IndInv
<1>2. QED
  BY <1>1, Invariance, PTL

(* Whatever is opened, closed, lost, clicked or reloaded, in any order,    *)
(* "Active" stays the locked transport.                                    *)
THEOREM CommandsGoToTheLock == Spec => []ActiveFollowsLock
<1>1. IndInv => ActiveFollowsLock
  BY DEF IndInv
<1>2. QED
  BY <1>1, Invariance, PTL

(* setLockedTransport never leaves an open transport without a lock.       *)
THEOREM OpenMeansLocked == Spec => []LockHeldWhileOpen
<1>1. IndInv => LockHeldWhileOpen
  BY DEF IndInv
<1>2. QED
  BY <1>1, Invariance, PTL

(* A lock that outlives its device can only be TCP's.                      *)
THEOREM StaleLockIsTcp == Spec => []OnlyTcpLocksUnopened
<1>1. IndInv => OnlyTcpLocksUnopened
  BY DEF IndInv
<1>2. QED
  BY <1>1, Invariance, PTL

(* openTransport's test keeps any two transports but TCP from being open   *)
(* at the same time.                                                       *)
THEOREM ExclusiveButForTcp == Spec => []TwoOpenOnlyByTcp
<1>1. IndInv => TwoOpenOnlyByTcp
  BY DEF IndInv
<1>2. QED
  BY <1>1, Invariance, PTL

-----------------------------------------------------------------------------
(* The sessions.                                                           *)

(* A selection with the lock on t makes the controller start the session.  *)
LEMMA LockedReactionStarts ==
  ASSUME IndInv, NEW t \in Known, link'[t] = "open",
         NEW s, Coherent(s), s.locked = t, ControllerReacts(t, s)
  PROVE  session' = t /\ sessions' > sessions
<1>1. t # NoName
  BY NoNameIsNoName DEF Known, Names, IndInv, TypeOK
<1>2. s.active = t
  BY <1>1 DEF Coherent
<1>3. attached[t] \in Nat /\ attached[t] > 0
  BY DEF IndInv, TypeOK, KnownIsAttached, Known, Names
<1>4. QED
  BY <1>2, <1>3 DEF ControllerReacts, StartSession, IndInv, TypeOK

LEMMA LoneConnectionStep ==
  ASSUME IndInv, Next, NEW t \in Names,
         link[t] # "open", OpenOnes(link') = {t}
  PROVE  sel'.active = t /\ session' = t /\ sessions' > sessions
<1>1. link'[t] = "open"
  BY DEF OpenOnes
<1>2. t # NoName
  BY NoNameIsNoName
<1>3. ASSUME OpenSucceeds(t)
      PROVE  sel'.active = t /\ session' = t /\ sessions' > sessions
  <2> USE <1>3 DEF OpenSucceeds
  <2> DEFINE s == OpenChanged(ClosedFirst(t), link')
  <2>1. link' \in [Names -> LinkStates]
    BY DEF IndInv, TypeOK, LinkStates
  <2>2. Coherent(s) /\ s.locked = CurrentOpen(link')
    BY <2>1, ClosedFirstIsCoherent, SelIsCoherent, OpenChangedIsCoherent DEF IndInv
  <2>3. s.locked = t
    BY <2>1, <2>2, CurrentOpenFinds
  <2>4. session' = t /\ sessions' > sessions
    BY <1>1, <2>2, <2>3, LockedReactionStarts
  <2>5. Coherent(sel') /\ sel'.locked = t
    BY <2>2, LockIsCoherent
  <2>6. QED
    BY <1>2, <2>4, <2>5 DEF Coherent
<1>4. ASSUME TcpConnected, t = "TCP"
      PROVE  sel'.active = t /\ session' = t /\ sessions' > sessions
  <2> USE <1>4 DEF TcpConnected
  <2>1. link' \in [Names -> LinkStates] /\ t \in Known
    BY DEF IndInv, TypeOK, LinkStates, Known, Builtins
  <2>2. Coherent(sel') /\ sel'.locked = CurrentOpen(link')
    BY <2>1, SelIsCoherent, OpenChangedIsCoherent
  <2>3. sel'.locked = t
    BY <2>1, <2>2, CurrentOpenFinds
  <2>4. session' = t /\ sessions' > sessions
    BY <1>1, <2>1, <2>2, <2>3, LockedReactionStarts
  <2>5. QED
    BY <1>2, <2>2, <2>3, <2>4 DEF Coherent
<1>5. OpenSucceeds(t) \/ (TcpConnected /\ t = "TCP")
  <2>1. ASSUME NEW u \in Names, TransportEvent(u)
        PROVE  u = t /\ OpenSucceeds(t)
    BY <1>1, <2>1
    DEF TransportEvent, OpenRefused, OpenSucceeds, OpenFails, Close, Lost,
        SetActiveTransport, IndInv, TypeOK
  <2>2. CASE TcpConnected
    BY <1>1, <2>2 DEF TcpConnected, IndInv, TypeOK
  <2>3. ~OpenTcp /\ ~TcpConnectFails
    BY <1>1 DEF OpenTcp, TcpConnectFails, IndInv, TypeOK
  <2>4. ASSUME NEW found \in SUBSET Plugins PROVE ~ReloadPlugins(found)
    BY <1>1 DEF ReloadPlugins
  <2>5. QED
    BY <2>1, <2>2, <2>3, <2>4 DEF Next
<1>6. QED
  BY <1>3, <1>4, <1>5

(* A connection that is the only one becomes active and gets a session of  *)
(* its own, in every step of every behaviour.                              *)
THEOREM LoneConnectionIsRecorded == Spec => LoneConnectionStartsSession
<1>1. IndInv /\ [Next]_vars =>
        [\A t \in Names :
           link[t] # "open" /\ OpenOnes(link') = {t}
             => sel'.active = t /\ session' = t /\ sessions' > sessions]_vars
  BY LoneConnectionStep
<1>2. QED
  BY <1>1, Invariance, PTL DEF Spec, LoneConnectionStartsSession

-----------------------------------------------------------------------------
(* Recording.                                                              *)

(* The suffixes of the directories of a root and time are 0, 1, ... *)
SuffixesAreInitial ==
  \A root \in Roots, stamp \in Stamps :
    \E k \in 0..Len(dirs) : Used(root, stamp) = 0..(k - 1)

(* The session directory was made for the latest session ... *)
DirectoryOfSession == dir # NoDir => dirs[dir].transport = session

(* ... which is that of any open transport, but for TCP. *)
SessionOfOpen ==
  \A t \in OpenOnes(link) : t = "TCP" \/ session \in {t, "TCP"}

RecInv ==
  /\ IndInv
  /\ RecordingTypeOK
  /\ SwitchesNeedRoot
  /\ SessionUnderCurrentRoot
  /\ SuffixesAreInitial
  /\ OwnDirectories
  /\ DirectoryOfSession
  /\ SessionOfOpen
  /\ MisfiledOnlyWithTcp

Row == [file : Files, frame : 1..MaxFrames, via : Names, dir : 1..Len(dirs)]

-----------------------------------------------------------------------------
(* Lemmas about the operators.                                             *)

LEMMA UsedTypes ==
  ASSUME RecordingTypeOK, NEW root \in Roots, NEW stamp \in Stamps
  PROVE  Used(root, stamp) \in SUBSET Nat
<1>1. \A i \in 1..Len(dirs) : dirs[i] \in Directories
  BY DEF RecordingTypeOK
<1>2. \A i \in 1..Len(dirs) : dirs[i].suffix \in Nat
  BY <1>1 DEF Directories
<1>3. QED
  BY <1>2 DEF Used

(* The first suffix is the one after the initial ones. *)
LEMMA FirstSuffixIsNext ==
  ASSUME RecordingTypeOK, NEW root \in Roots, NEW stamp \in Stamps,
         NEW k \in 0..Len(dirs), Used(root, stamp) = 0..(k - 1)
  PROVE  FirstSuffix(root, stamp) = k
<1> DEFINE U == Used(root, stamp)
           First(n) == n \notin U /\ \A m \in 0..(n - 1) : m \in U
<1>0. Len(dirs) \in Nat
  BY DEF RecordingTypeOK
<1>1. First(k)
  OBVIOUS
<1>2. ASSUME NEW n \in 0..Len(dirs), First(n) PROVE n = k
  BY <1>0, <1>2
<1>3. (CHOOSE n \in 0..Len(dirs) : First(n)) = k
  <2> HIDE DEF First
  <2>1. QED
    BY <1>1, <1>2
<1>4. QED
  BY <1>3 DEF FirstSuffix

LEMMA ShiftedInterval ==
  ASSUME NEW k \in Nat, NEW times \in Nat
  PROVE  {k + j - 1 : j \in 1..times} = k..(k + times - 1)
<1> DEFINE shifted == {k + j - 1 : j \in 1..times}
<1>1. ASSUME NEW m \in shifted PROVE m \in k..(k + times - 1)
  OBVIOUS
<1>2. ASSUME NEW m \in k..(k + times - 1) PROVE m \in shifted
  <2>1. m - k + 1 \in 1..times /\ m = k + (m - k + 1) - 1
    OBVIOUS
  <2>2. QED
    BY <2>1
<1> HIDE DEF shifted
<1>3. shifted = k..(k + times - 1)
  BY <1>1, <1>2
<1>4. QED
  BY <1>3 DEF shifted

(* The directories that a number of sessions add. *)
Added(root, stamp, t, times) ==
  [i \in 1..times |-> [root |-> root, stamp |-> stamp,
                       suffix |-> FirstSuffix(root, stamp) + i - 1, transport |-> t]]

(* Adding directories keeps their types, suffixes and the old ones. *)
LEMMA AddingDirectories ==
  ASSUME RecordingTypeOK, SuffixesAreInitial, OwnDirectories,
         NEW root \in Roots, NEW stamp \in Stamps, NEW t \in Names,
         NEW times \in Nat, times > 0, dirs' = dirs \o Added(root, stamp, t, times)
  PROVE  /\ dirs' \in Seq(Directories)
         /\ Len(dirs') = Len(dirs) + times
         /\ \A i \in 1..Len(dirs) : dirs'[i] = dirs[i]
         /\ dirs'[Len(dirs')].transport = t /\ dirs'[Len(dirs')].root = root
         /\ SuffixesAreInitial'
         /\ OwnDirectories'
<1>1. PICK k \in 0..Len(dirs) : Used(root, stamp) = 0..(k - 1)
  BY DEF SuffixesAreInitial
<1>2. FirstSuffix(root, stamp) = k
  BY <1>1, FirstSuffixIsNext
<1> DEFINE new(i) == [root |-> root, stamp |-> stamp, suffix |-> k + i - 1, transport |-> t]
           new_dirs == [i \in 1..times |-> new(i)]
<1>3. /\ dirs \in Seq(Directories) /\ Len(dirs) \in Nat /\ k \in Nat
      /\ dirs' = dirs \o new_dirs
  BY <1>2 DEF RecordingTypeOK, Added
<1>4. new_dirs \in Seq(Directories) /\ Len(new_dirs) = times
  BY <1>3 DEF Directories
<1>5. /\ dirs' \in Seq(Directories)
      /\ Len(dirs') = Len(dirs) + times
      /\ \A i \in 1..Len(dirs) : dirs'[i] = dirs[i]
      /\ \A i \in 1..times : dirs'[Len(dirs) + i] = new(i)
  <2> HIDE DEF new_dirs
  <2>1. \A i \in 1..times : new_dirs[i] = new(i)
    BY DEF new_dirs
  <2>2. QED
    <3>1. Len(dirs') = Len(dirs) + times /\ dirs' \in Seq(Directories)
      BY <1>3, <1>4, ConcatProperties
    <3>2. \A i \in 1..Len(dirs) : dirs'[i] = dirs[i]
      BY <1>3, <1>4
    <3>3. ASSUME NEW i \in 1..times PROVE dirs'[Len(dirs) + i] = new_dirs[i]
      BY <1>3, <1>4
    <3>4. QED
      BY <2>1, <3>1, <3>2, <3>3
<1>6. \A i \in 1..Len(dirs') :
        \/ i \in 1..Len(dirs) /\ dirs'[i] = dirs[i]
        \/ \E j \in 1..times : i = Len(dirs) + j /\ dirs'[i] = new(j)
  <2> SUFFICES ASSUME NEW i \in 1..Len(dirs'), i \notin 1..Len(dirs)
               PROVE  \E j \in 1..times : i = Len(dirs) + j /\ dirs'[i] = new(j)
    BY <1>5
  <2>1. i - Len(dirs) \in 1..times /\ i = Len(dirs) + (i - Len(dirs))
    BY <1>3, <1>5
  <2>2. QED
    BY <1>5, <2>1
<1>7. dirs'[Len(dirs')] = new(times)
  BY <1>3, <1>5
<1>8. SuffixesAreInitial'
  <2> SUFFICES ASSUME NEW r \in Roots, NEW s \in Stamps
               PROVE  \E n \in 0..Len(dirs') : Used(r, s)' = 0..(n - 1)
    BY DEF SuffixesAreInitial
  <2>1. CASE r = root /\ s = stamp
    <3> DEFINE more == {k + j - 1 : j \in 1..times}
    <3>0. Used(root, stamp)' =
            {dirs'[i].suffix : i \in {n \in 1..Len(dirs') : dirs'[n].root = root /\ dirs'[n].stamp = stamp}}
      BY DEF Used
    <3>a. ASSUME NEW x \in Used(root, stamp)' PROVE x \in Used(root, stamp) \cup more
      <4>1. PICK i \in 1..Len(dirs') : dirs'[i].root = root /\ dirs'[i].stamp = stamp /\ x = dirs'[i].suffix
        BY <3>a, <3>0
      <4>2. CASE i \in 1..Len(dirs)
        BY <1>5, <4>1, <4>2 DEF Used
      <4>3. CASE i \notin 1..Len(dirs)
        <5>1. PICK j \in 1..times : dirs'[i] = new(j)
          BY <1>6, <4>3
        <5>2. new(j).suffix = k + j - 1
          OBVIOUS
        <5>3. x = k + j - 1
          BY <4>1, <5>1, <5>2
        <5>4. QED
          BY <5>3
      <4>4. QED
        BY <4>2, <4>3
    <3>b. ASSUME NEW x \in Used(root, stamp) PROVE x \in Used(root, stamp)'
      <4>1. PICK i \in 1..Len(dirs) : dirs[i].root = root /\ dirs[i].stamp = stamp /\ x = dirs[i].suffix
        BY <3>b DEF Used
      <4>2. i \in 1..Len(dirs') /\ dirs'[i] = dirs[i]
        BY <1>3, <1>5
      <4>3. QED
        BY <3>0, <4>1, <4>2
    <3>c. ASSUME NEW j \in 1..times PROVE k + j - 1 \in Used(root, stamp)'
      <4>1. Len(dirs) + j \in 1..Len(dirs') /\ dirs'[Len(dirs) + j] = new(j)
        BY <1>3, <1>5
      <4>2. QED
        <5>1. new(j).root = root /\ new(j).stamp = stamp /\ new(j).suffix = k + j - 1
          OBVIOUS
        <5> HIDE DEF new
        <5>2. \E i \in 1..Len(dirs') :
                dirs'[i].root = root /\ dirs'[i].stamp = stamp /\ dirs'[i].suffix = k + j - 1
          BY <4>1, <5>1
        <5>3. QED
          BY <3>0, <5>2
    <3>1. Used(root, stamp)' = Used(root, stamp) \cup more
      BY <3>a, <3>b, <3>c
    <3>2. more = k..(k + times - 1)
      BY <1>3, ShiftedInterval
    <3>3. Used(r, s)' = 0..(k + times - 1)
      <4>1. Used(root, stamp)' = (0..(k - 1)) \cup (k..(k + times - 1))
        BY <1>1, <3>1, <3>2
      <4>2. (0..(k - 1)) \cup (k..(k + times - 1)) = 0..(k + times - 1)
        BY <1>3
      <4>3. QED
        BY <2>1, <4>1, <4>2
    <3>4. k + times \in 0..Len(dirs') /\ (k + times) - 1 = k + times - 1
      BY <1>1, <1>3, <1>5
    <3>5. QED
      BY <3>3, <3>4
  <2>2. CASE ~(r = root /\ s = stamp)
    <3>0. Used(r, s)' =
            {dirs'[i].suffix : i \in {n \in 1..Len(dirs') : dirs'[n].root = r /\ dirs'[n].stamp = s}}
      BY DEF Used
    <3>a. {n \in 1..Len(dirs') : dirs'[n].root = r /\ dirs'[n].stamp = s}
            = {n \in 1..Len(dirs) : dirs[n].root = r /\ dirs[n].stamp = s}
      BY <1>3, <1>5, <1>6, <2>2
    <3>1. Used(r, s)' = Used(r, s)
      BY <1>5, <3>0, <3>a DEF Used
    <3>2. PICK n \in 0..Len(dirs) : Used(r, s) = 0..(n - 1)
      BY DEF SuffixesAreInitial
    <3>3. n \in 0..Len(dirs')
      BY <1>3, <1>5
    <3>4. QED
      BY <3>1, <3>2, <3>3
  <2>3. QED
    BY <2>1, <2>2
<1>9. OwnDirectories'
  <2>1. ASSUME NEW i \in 1..Len(dirs), dirs[i].root = root, dirs[i].stamp = stamp
        PROVE  dirs[i].suffix < k
    <3>1. dirs[i].suffix \in Used(root, stamp)
      BY <2>1 DEF Used
    <3>2. QED
      BY <1>1, <1>3, <3>1
  <2> SUFFICES ASSUME NEW i \in 1..Len(dirs'), NEW m \in 1..Len(dirs'), i # m,
                      dirs'[i].root = dirs'[m].root, dirs'[i].stamp = dirs'[m].stamp
               PROVE  dirs'[i].suffix # dirs'[m].suffix
    BY DEF OwnDirectories
  <2>2. CASE i \in 1..Len(dirs) /\ m \in 1..Len(dirs)
    BY <1>5, <2>2 DEF OwnDirectories
  <2>3. CASE i \in 1..Len(dirs) /\ m \notin 1..Len(dirs)
    BY <1>3, <1>5, <1>6, <2>1, <2>3
  <2>4. CASE i \notin 1..Len(dirs) /\ m \in 1..Len(dirs)
    BY <1>3, <1>5, <1>6, <2>1, <2>4
  <2>5. CASE i \notin 1..Len(dirs) /\ m \notin 1..Len(dirs)
    BY <1>3, <1>6, <2>5
  <2>6. QED
    BY <2>2, <2>3, <2>4, <2>5
<1>10. QED
  BY <1>5, <1>7, <1>8, <1>9

-----------------------------------------------------------------------------
(* Sessions: what a step of Transports says of them.                       *)

LEMMA SessionStep ==
  ASSUME IndInv, Next
  PROVE  /\ sessions' \in Nat /\ sessions' >= sessions
         /\ sessions' = sessions => session' = session
         /\ sessions' > sessions => session' \in Names
<1>1. sessions \in Nat /\ attached \in [Names -> Nat]
  BY DEF IndInv, TypeOK
<1>2. ASSUME NEW t \in Names, NEW s, ControllerReacts(t, s)
      PROVE  /\ sessions' \in Nat /\ sessions' >= sessions
             /\ sessions' = sessions => session' = session
             /\ sessions' > sessions => session' \in Names
  BY <1>1, <1>2 DEF ControllerReacts, StartSession
<1>3. ASSUME NEW t \in Names, OpenSucceeds(t) PROVE \E s : ControllerReacts(t, s)
  BY <1>3 DEF OpenSucceeds
<1>4. ASSUME TcpConnected PROVE \E s : ControllerReacts("TCP", s)
  BY <1>4 DEF TcpConnected
<1>5. \/ \E t \in Names : OpenSucceeds(t)
      \/ TcpConnected
      \/ UNCHANGED <<session, sessions>>
  BY DEF Next, TransportEvent, OpenRefused, OpenFails, Close, Lost, SetActiveTransport,
         OpenTcp, TcpConnectFails, ReloadPlugins
<1>6. "TCP" \in Names
  BY DEF Names, Builtins
<1>7. QED
  BY <1>1, <1>2, <1>3, <1>4, <1>5, <1>6

(* Opening t beside another transport happens to TCP only. *)
LEMMA OpenedAlone ==
  ASSUME IndInv, NEW t \in Names, MayOpen(t), NEW u \in OpenOnes(link), u # t
  PROVE  link[t] = "open" /\ "TCP" \in {t, u}
<1>1. link \in [Names -> LinkStates]
  BY DEF IndInv, TypeOK
<1>2. CurrentOpen(link) # NoName
  BY <1>1, CurrentOpenFinds
<1>3. CurrentOpen(link) = t
  BY <1>2 DEF MayOpen
<1>4. t \in OpenOnes(link)
  BY <1>1, <1>2, <1>3, CurrentOpenFinds
<1>5. QED
  BY <1>4 DEF IndInv, TwoOpenOnlyByTcp, OpenOnes

LEMMA SessionOfOpenStep ==
  ASSUME IndInv, Next, SessionOfOpen
  PROVE  SessionOfOpen'
<1>0. link \in [Names -> LinkStates]
  BY DEF IndInv, TypeOK
<1>1. ASSUME NEW t \in Names, OpenSucceeds(t) PROVE SessionOfOpen'
  <2>1. t # "TCP" /\ MayOpen(t) /\ link' = [link EXCEPT ![t] = "open"]
    BY <1>1 DEF OpenSucceeds
  <2>2. session' \in {t, session}
    BY <1>1 DEF OpenSucceeds, ControllerReacts, StartSession
  <2> SUFFICES ASSUME NEW u \in Names, link'[u] = "open", u # "TCP"
               PROVE  session' \in {u, "TCP"}
    BY DEF SessionOfOpen, OpenOnes
  <2>3. u = t
    <3>1. SUFFICES ASSUME u # t PROVE FALSE
      OBVIOUS
    <3>2. u \in OpenOnes(link)
      BY <1>0, <2>1, <3>1 DEF OpenOnes
    <3>3. QED
      BY <2>1, <3>1, <3>2, OpenedAlone
  <2>4. CASE link[t] = "open"
    BY <2>2, <2>3, <2>4 DEF SessionOfOpen, OpenOnes
  <2>5. CASE link[t] # "open"
    <3>1. OpenOnes(link) = {}
      BY <2>1, <2>5, OpenedAlone DEF OpenOnes
    <3>2. OpenOnes(link') = {t}
      BY <1>0, <2>1, <3>1 DEF OpenOnes
    <3>3. QED
      BY <2>3, <2>5, <3>2, LoneConnectionStep
  <2>6. QED
    BY <2>4, <2>5
<1>2. CASE TcpConnected
  <2>1. \A u \in Names : u # "TCP" => link'[u] = link[u]
    BY <1>0, <1>2 DEF TcpConnected
  <2>2. session' \in {"TCP", session}
    BY <1>2 DEF TcpConnected, ControllerReacts, StartSession
  <2>3. QED
    BY <2>1, <2>2 DEF SessionOfOpen, OpenOnes
<1>3. CASE /\ ~TcpConnected
           /\ \A t \in Names : ~OpenSucceeds(t)
  <2>1. session' = session
    BY <1>3 DEF Next, TransportEvent, OpenRefused, OpenFails, Close, Lost,
                SetActiveTransport, OpenTcp, TcpConnectFails, ReloadPlugins
  <2>2. \A u \in Names : link'[u] = "open" => link[u] = "open"
    BY <1>0, <1>3 DEF Next, TransportEvent, OpenRefused, OpenFails, Close, Lost,
                SetActiveTransport, OpenTcp, TcpConnectFails, ReloadPlugins
  <2>3. QED
    BY <2>1, <2>2 DEF SessionOfOpen, OpenOnes
<1>4. QED
  BY <1>1, <1>2, <1>3

-----------------------------------------------------------------------------
(* The invariant.                                                          *)

LEMMA RecInit == RecordingInit => RecInv
<1> SUFFICES ASSUME RecordingInit PROVE RecInv
  OBVIOUS
<1> USE DEF RecordingInit
<1>1. IndInv
  BY InitInd
<1>2. Len(dirs) = 0 /\ Len(writes) = 0
  OBVIOUS
<1>3. RecordingTypeOK
  <2>1. /\ dirs \in Seq(Directories)
        /\ writes \in Seq(Row)
        /\ handle \in [Files -> 0..Len(dirs)]
    BY <1>2 DEF Closed, NoDir
  <2>2. /\ logging \in [root : Roots \cup {NoRoot}, raw : BOOLEAN, decode : BOOLEAN]
        /\ dir \in 0..Len(dirs)
        /\ frames \in 0..MaxFrames
    BY <1>2, RecordingAssumption DEF LoadedSettings, NoDir
  <2>3. QED
    BY <2>1, <2>2 DEF RecordingTypeOK, Row
<1>4. SwitchesNeedRoot
  BY DEF LoadedSettings, SwitchesNeedRoot
<1>5. SessionUnderCurrentRoot
  BY DEF SessionUnderCurrentRoot, Closed
<1>6. SuffixesAreInitial
  <2> SUFFICES ASSUME NEW root \in Roots, NEW stamp \in Stamps
               PROVE  \E k \in 0..Len(dirs) : Used(root, stamp) = 0..(k - 1)
    BY DEF SuffixesAreInitial
  <2>1. Used(root, stamp) = {}
    BY <1>2 DEF Used
  <2>2. 0 \in 0..Len(dirs) /\ 0..(0 - 1) = {}
    BY <1>2
  <2>3. QED
    BY <2>1, <2>2
<1>7. OwnDirectories /\ DirectoryOfSession /\ MisfiledOnlyWithTcp
  BY <1>2 DEF OwnDirectories, DirectoryOfSession, MisfiledOnlyWithTcp
<1>8. SessionOfOpen
  BY DEF SessionOfOpen, OpenOnes, Init
<1>9. QED
  BY <1>1, <1>3, <1>4, <1>5, <1>6, <1>7, <1>8 DEF RecInv

(* What was written stays where it was when directories are added.         *)
LEMMA WritesKept ==
  ASSUME RecordingTypeOK, MisfiledOnlyWithTcp, UNCHANGED writes,
         Len(dirs') \in Nat, Len(dirs') >= Len(dirs),
         \A i \in 1..Len(dirs) : dirs'[i] = dirs[i]
  PROVE  /\ writes' \in Seq([file : Files, frame : 1..MaxFrames, via : Names, dir : 1..Len(dirs')])
         /\ MisfiledOnlyWithTcp'
<1> DEFINE NewRow == [file : Files, frame : 1..MaxFrames, via : Names, dir : 1..Len(dirs')]
<1>1. writes \in Seq(Row) /\ Len(dirs) \in Nat
  BY DEF RecordingTypeOK, Row
<1>2. Row \subseteq NewRow
  BY <1>1 DEF Row
<1>3. writes \in Seq(NewRow)
  <2> HIDE DEF NewRow
  <2>1. \A i \in 1..Len(writes) : writes[i] \in Row
    BY <1>1
  <2>2. QED
    BY <1>1, <1>2, <2>1
<1>4. \A i \in 1..Len(writes) : writes[i].dir \in 1..Len(dirs)
  <2>1. \A i \in 1..Len(writes) : writes[i] \in Row
    BY <1>1
  <2>2. QED
    BY <2>1 DEF Row
<1>5. MisfiledOnlyWithTcp'
  BY <1>4 DEF MisfiledOnlyWithTcp
<1>6. QED
  BY <1>3, <1>5

LEMMA TransportStepKeeps ==
  ASSUME RecInv, TransportStep
  PROVE  RecInv'
<1>0. /\ Next
      /\ UNCHANGED <<logging, frames, writes>>
      /\ sessions' > sessions => StartSessions(session', sessions' - sessions)
      /\ ~(sessions' > sessions) => UNCHANGED recorderVars
  BY DEF TransportStep
<1>1. IndInv' /\ SessionOfOpen'
  BY <1>0, NextKeepsInd, SessionOfOpenStep DEF RecInv
<1>2. SwitchesNeedRoot'
  BY <1>0 DEF RecInv, SwitchesNeedRoot
<1>3. /\ IndInv /\ RecordingTypeOK /\ SessionUnderCurrentRoot /\ SuffixesAreInitial
      /\ OwnDirectories /\ DirectoryOfSession /\ MisfiledOnlyWithTcp
  BY DEF RecInv
<1>4. /\ sessions \in Nat /\ sessions' \in Nat /\ sessions' >= sessions
      /\ sessions' = sessions => session' = session
      /\ sessions' > sessions => session' \in Names
  BY <1>0, <1>3, SessionStep DEF IndInv, TypeOK
<1>5. /\ logging \in [root : Roots \cup {NoRoot}, raw : BOOLEAN, decode : BOOLEAN]
      /\ dirs \in Seq(Directories) /\ Len(dirs) \in Nat
      /\ dir \in 0..Len(dirs)
      /\ handle \in [Files -> 0..Len(dirs)]
      /\ frames \in 0..MaxFrames
  BY <1>3 DEF RecordingTypeOK
<1>6. CASE UNCHANGED recorderVars /\ sessions' = sessions
  <2>1. SuffixesAreInitial'
    BY <1>3, <1>6 DEF recorderVars, SuffixesAreInitial, Used
  <2>2. RecordingTypeOK'
    BY <1>0, <1>3, <1>6 DEF recorderVars, RecordingTypeOK
  <2>3. QED
    BY <1>0, <1>1, <1>2, <1>3, <1>4, <1>6, <2>1, <2>2
    DEF recorderVars, RecInv, SessionUnderCurrentRoot, OwnDirectories,
        DirectoryOfSession, MisfiledOnlyWithTcp
<1>7. CASE dir' = NoDir /\ handle' = Closed /\ UNCHANGED dirs
  <2>0. SuffixesAreInitial' /\ dirs' = dirs
    BY <1>3, <1>7 DEF SuffixesAreInitial, Used
  <2>1. SuffixesAreInitial' /\ OwnDirectories'
    BY <1>3, <2>0 DEF OwnDirectories
  <2>2. RecordingTypeOK'
    BY <1>0, <1>3, <1>5, <1>7 DEF RecordingTypeOK, NoDir, Closed
  <2>3. SessionUnderCurrentRoot' /\ DirectoryOfSession'
    BY <1>7 DEF SessionUnderCurrentRoot, DirectoryOfSession, Closed
  <2>4. MisfiledOnlyWithTcp'
    BY <1>0, <1>3, <1>7 DEF MisfiledOnlyWithTcp
  <2>5. QED
    BY <1>1, <1>2, <2>1, <2>2, <2>3, <2>4 DEF RecInv
<1>8. ASSUME NEW stamp \in Stamps, NEW usable \in BOOLEAN, sessions' > sessions,
             logging.root # NoRoot,
             dirs' = dirs \o Added(logging.root, stamp, session', sessions' - sessions),
             dir' = Len(dirs'), handle' = EnsureOpen(Closed, dir', usable)
      PROVE  RecInv'
  <2> DEFINE times == sessions' - sessions
             root == logging.root
  <2>1. root \in Roots /\ times \in Nat /\ times > 0 /\ session' \in Names
    <3>1. root \in Roots
      BY <1>5, <1>8
    <3>2. sessions' > sessions
      BY <1>8
    <3>3. times \in Nat /\ times > 0
      <4>1. ASSUME NEW m \in Nat, NEW n \in Nat, n > m PROVE n - m \in Nat /\ n - m > 0
        BY <4>1
      <4>2. sessions \in Nat /\ sessions' \in Nat
        BY <1>4
      <4>3. QED
        BY <3>2, <4>1, <4>2
    <3>4. session' \in Names
      BY <1>4, <3>2
    <3>5. QED
      BY <3>1, <3>3, <3>4
  <2>2. /\ dirs' \in Seq(Directories)
        /\ Len(dirs') = Len(dirs) + times
        /\ \A i \in 1..Len(dirs) : dirs'[i] = dirs[i]
        /\ dirs'[Len(dirs')].transport = session' /\ dirs'[Len(dirs')].root = root
        /\ SuffixesAreInitial'
        /\ OwnDirectories'
    <3> HIDE DEF times, root
    <3>1. dirs' = dirs \o Added(root, stamp, session', times)
      BY <1>8 DEF times, root
    <3>2. QED
      BY <1>3, <2>1, <3>1, AddingDirectories
  <2>3. Len(dirs') \in Nat /\ Len(dirs') >= Len(dirs)
    BY <1>5, <2>1, <2>2
  <2>4. /\ writes' \in Seq([file : Files, frame : 1..MaxFrames, via : Names, dir : 1..Len(dirs')])
        /\ MisfiledOnlyWithTcp'
    BY <1>0, <1>3, <2>2, <2>3, WritesKept
  <2>5. handle' \in [Files -> {NoDir, dir'}]
    BY <1>8 DEF EnsureOpen, Closed
  <2>6. dir' \in 0..Len(dirs') /\ handle' \in [Files -> 0..Len(dirs')]
    BY <1>8, <2>3, <2>5 DEF NoDir
  <2>7. RecordingTypeOK'
    <3>1. /\ logging' \in [root : Roots \cup {NoRoot}, raw : BOOLEAN, decode : BOOLEAN]
          /\ frames' \in 0..MaxFrames
      BY <1>0, <1>5
    <3>2. QED
      BY <2>2, <2>4, <2>6, <3>1 DEF RecordingTypeOK
  <2>8. SessionUnderCurrentRoot' /\ DirectoryOfSession'
    BY <1>0, <1>8, <2>2, <2>5 DEF SessionUnderCurrentRoot, DirectoryOfSession
  <2>9. QED
    BY <1>1, <1>2, <2>2, <2>4, <2>7, <2>8 DEF RecInv
<1>9. CASE sessions' > sessions
  BY <1>0, <1>7, <1>8, <1>9 DEF StartSessions, Added
<1>10. QED
  BY <1>0, <1>4, <1>6, <1>9

LEMMA SettingsKeep ==
  ASSUME RecInv, NEW new, logging' = new,
         new \in [root : Roots \cup {NoRoot}, raw : BOOLEAN, decode : BOOLEAN],
         new.raw \/ new.decode => new.root # NoRoot,
         \/ new.root = logging.root /\ UNCHANGED <<dir, handle>>
         \/ dir' = NoDir /\ handle' = Closed,
         UNCHANGED <<transportVars, dirs, frames, writes>>
  PROVE  RecInv'
<1>0. /\ RecordingTypeOK /\ SessionUnderCurrentRoot /\ SuffixesAreInitial
      /\ OwnDirectories /\ DirectoryOfSession /\ SessionOfOpen /\ MisfiledOnlyWithTcp
  BY DEF RecInv
<1>1. UNCHANGED vars /\ IndInv'
  BY NextKeepsInd DEF RecInv, transportVars
<1>2. SwitchesNeedRoot'
  BY DEF SwitchesNeedRoot
<1>3. SessionUnderCurrentRoot'
  BY <1>0 DEF SessionUnderCurrentRoot, Closed
<1>4. RecordingTypeOK'
  <2>1. dirs' = dirs /\ writes' = writes /\ frames' = frames
    OBVIOUS
  <2>2. dir' \in 0..Len(dirs) /\ handle' \in [Files -> 0..Len(dirs)]
    <3>1. Len(dirs) \in Nat
      BY <1>0 DEF RecordingTypeOK
    <3>2. QED
      BY <1>0, <3>1 DEF RecordingTypeOK, Closed, NoDir
  <2>3. QED
    BY <1>0, <2>1, <2>2 DEF RecordingTypeOK
<1>5. SuffixesAreInitial' /\ OwnDirectories'
  BY <1>0 DEF SuffixesAreInitial, Used, OwnDirectories
<1>6. DirectoryOfSession' /\ SessionOfOpen'
  BY <1>1, <1>0 DEF vars, DirectoryOfSession, SessionOfOpen
<1>7. MisfiledOnlyWithTcp'
  BY <1>0 DEF MisfiledOnlyWithTcp
<1>8. QED
  BY <1>1, <1>2, <1>3, <1>4, <1>5, <1>6, <1>7 DEF RecInv

LEMMA SwitchesKeep ==
  ASSUME RecInv, NEW on \in BOOLEAN, SetRecordRawData(on) \/ SetRecordDecodeLog(on)
  PROVE  RecInv'
<1>1. logging \in [root : Roots \cup {NoRoot}, raw : BOOLEAN, decode : BOOLEAN]
  BY DEF RecInv, RecordingTypeOK
<1>2. \/ logging' = [logging EXCEPT !.raw = on]
      \/ logging' = [logging EXCEPT !.decode = on]
  BY DEF SetRecordRawData, SetRecordDecodeLog
<1>3. /\ UNCHANGED <<transportVars, dir, handle, dirs, frames, writes>>
      /\ on => logging.root # NoRoot
  BY DEF SetRecordRawData, SetRecordDecodeLog, recorderVars, MaySwitch
<1>4. /\ logging' \in [root : Roots \cup {NoRoot}, raw : BOOLEAN, decode : BOOLEAN]
      /\ logging'.root = logging.root
      /\ logging'.raw \/ logging'.decode => logging.raw \/ logging.decode \/ on
  BY <1>1, <1>2
<1>5. logging'.raw \/ logging'.decode => logging'.root # NoRoot
  BY <1>3, <1>4 DEF RecInv, SwitchesNeedRoot
<1>6. QED
  BY <1>3, <1>4, <1>5, SettingsKeep

LEMMA SetLogDirectoryKeeps ==
  ASSUME RecInv, NEW root \in Roots \cup {NoRoot}, SetLogDirectory(root)
  PROVE  RecInv'
<1> DEFINE new == [root |-> root, raw |-> logging.raw /\ root # NoRoot,
                   decode |-> logging.decode /\ root # NoRoot]
<1>1. logging' = new /\ dir' = NoDir /\ handle' = Closed
  BY DEF SetLogDirectory, EndSession
<1>2. UNCHANGED <<transportVars, dirs, frames, writes>>
  BY DEF SetLogDirectory, EndSession
<1>3. /\ new \in [root : Roots \cup {NoRoot}, raw : BOOLEAN, decode : BOOLEAN]
      /\ new.raw \/ new.decode => new.root # NoRoot
  BY DEF RecInv, RecordingTypeOK
<1> HIDE DEF new
<1>4. QED
  BY <1>1, <1>2, <1>3, SettingsKeep

-----------------------------------------------------------------------------
(* Frames.                                                                 *)

(* Rows go to the session directory, as the files are open nowhere else.   *)
LEMMA RowsGoToTheSession ==
  ASSUME NEW f \in Files, NEW t \in Names, NEW n \in Nat,
         frames \in 0..MaxFrames, frames < MaxFrames,
         Len(dirs) \in Nat, dir \in 0..Len(dirs), handle'[f] \in {NoDir, dir}
  PROVE  /\ Rows(f, t, n) \in Seq(Row)
         /\ Rows(f, t, n) # <<>> => dir # NoDir
         /\ \A i \in 1..Len(Rows(f, t, n)) :
              Rows(f, t, n)[i].via = t /\ Rows(f, t, n)[i].dir = dir
<1> DEFINE row == [file |-> f, frame |-> frames + 1, via |-> t, dir |-> handle'[f]]
<1>1. CASE handle'[f] = NoDir
  BY <1>1 DEF Rows
<1>2. CASE handle'[f] # NoDir
  <2>1. handle'[f] = dir /\ dir \in 1..Len(dirs)
    BY <1>2 DEF NoDir
  <2>2. row \in Row /\ row.via = t /\ row.dir = dir
    BY <2>1, RecordingAssumption DEF Row
  <2>3. Rows(f, t, n) = [i \in 1..n |-> row]
    BY <1>2 DEF Rows
  <2> HIDE DEF row
  <2>4. QED
    BY <1>2, <2>1, <2>2, <2>3
<1>3. QED
  BY <1>1, <1>2

LEMMA HandleBytesKeeps ==
  ASSUME RecInv, NEW t \in Names, link[t] = "open", NEW times \in Nat,
         HandleBytes(t, times)
  PROVE  RecInv'
<1>1. /\ RecordingTypeOK /\ SwitchesNeedRoot /\ SessionUnderCurrentRoot
      /\ SuffixesAreInitial /\ OwnDirectories /\ DirectoryOfSession /\ SessionOfOpen
      /\ MisfiledOnlyWithTcp
  BY DEF RecInv
<1>2. /\ frames < MaxFrames /\ frames' = frames + 1
      /\ UNCHANGED <<transportVars, logging, dir, dirs>>
  BY DEF HandleBytes
<1>3. PICK usable \in BOOLEAN, rawRows \in Nat, logRows \in Nat :
        /\ handle' \in {handle, EnsureOpen(handle, dir, usable)}
        /\ writes' = writes \o Rows("raw", t, rawRows) \o Rows("log", t, logRows)
  <2>1. PICK usable \in BOOLEAN, chunks \in 0..times :
          LET rawRows == IF logging.raw THEN times ELSE 0
              logRows == IF logging.decode THEN chunks ELSE 0
          IN  /\ handle' = IF rawRows + logRows > 0 THEN EnsureOpen(handle, dir, usable) ELSE handle
              /\ writes' = writes \o Rows("raw", t, rawRows) \o Rows("log", t, logRows)
    BY DEF HandleBytes
  <2> DEFINE rawRows == IF logging.raw THEN times ELSE 0
             logRows == IF logging.decode THEN chunks ELSE 0
  <2>2. rawRows \in Nat /\ logRows \in Nat
    OBVIOUS
  <2>3. /\ handle' \in {handle, EnsureOpen(handle, dir, usable)}
        /\ writes' = writes \o Rows("raw", t, rawRows) \o Rows("log", t, logRows)
    BY <2>1
  <2> HIDE DEF rawRows, logRows
  <2>4. QED
    BY <2>2, <2>3
<1>4. /\ Len(dirs) \in Nat /\ dir \in 0..Len(dirs) /\ frames \in 0..MaxFrames
      /\ handle \in [Files -> 0..Len(dirs)] /\ writes \in Seq(Row)
  BY <1>1 DEF RecordingTypeOK, Row
<1>5. /\ handle' \in [Files -> 0..Len(dirs)]
      /\ \A f \in Files : handle'[f] \in {NoDir, dir}
  BY <1>1, <1>3, <1>4 DEF SessionUnderCurrentRoot, EnsureOpen
<1> DEFINE raws == Rows("raw", t, rawRows)
           logs == Rows("log", t, logRows)
<1>6. /\ raws \in Seq(Row) /\ logs \in Seq(Row)
      /\ raws # <<>> \/ logs # <<>> => dir # NoDir
      /\ \A i \in 1..Len(raws) : raws[i].via = t /\ raws[i].dir = dir
      /\ \A i \in 1..Len(logs) : logs[i].via = t /\ logs[i].dir = dir
  BY <1>2, <1>4, <1>5, RowsGoToTheSession DEF Files
<1>7. writes' = writes \o raws \o logs
  BY <1>3
<1> HIDE DEF raws, logs
<1>8. /\ writes' \in Seq(Row)
      /\ \A i \in 1..Len(writes') :
           \/ i \in 1..Len(writes) /\ writes'[i] = writes[i]
           \/ writes'[i].via = t /\ writes'[i].dir = dir /\ dir # NoDir
  <2> DEFINE both == writes \o raws
  <2>1. /\ both \in Seq(Row) /\ Len(both) = Len(writes) + Len(raws)
        /\ \A i \in 1..Len(both) :
             both[i] = IF i <= Len(writes) THEN writes[i] ELSE raws[i - Len(writes)]
    BY <1>4, <1>6, ConcatProperties
  <2> HIDE DEF both
  <2>2. /\ both \o logs \in Seq(Row) /\ Len(both \o logs) = Len(both) + Len(logs)
        /\ \A i \in 1..Len(both \o logs) :
             (both \o logs)[i] = IF i <= Len(both) THEN both[i] ELSE logs[i - Len(both)]
    <3>1. both \in Seq(Row) /\ logs \in Seq(Row)
      BY <1>6, <2>1
    <3>2. QED
      BY ONLY <3>1, ConcatProperties
  <2>3. writes' = both \o logs
    BY <1>7 DEF both
  <2>4. Len(writes) \in Nat /\ Len(raws) \in Nat /\ Len(logs) \in Nat
    BY <1>4, <1>6
  <2>5. (raws # <<>> <=> Len(raws) > 0) /\ (logs # <<>> <=> Len(logs) > 0)
    BY <1>6
  <2>6. ASSUME NEW i \in 1..Len(writes')
        PROVE  \/ i \in 1..Len(writes) /\ writes'[i] = writes[i]
               \/ writes'[i].via = t /\ writes'[i].dir = dir /\ dir # NoDir
    <3>1. CASE i <= Len(writes)
      BY <2>1, <2>2, <2>3, <2>4, <3>1
    <3>2. CASE i > Len(writes) /\ i <= Len(both)
      <4>1. writes'[i] = raws[i - Len(writes)] /\ i - Len(writes) \in 1..Len(raws)
        BY <2>1, <2>2, <2>3, <2>4, <3>2
      <4>2. QED
        BY <1>6, <2>4, <2>5, <4>1
    <3>3. CASE i > Len(both)
      <4>1. writes'[i] = logs[i - Len(both)] /\ i - Len(both) \in 1..Len(logs)
        BY <2>1, <2>2, <2>3, <2>4, <3>3
      <4>2. QED
        BY <1>6, <2>4, <2>5, <4>1
    <3>4. QED
      BY <2>1, <2>4, <3>1, <3>2, <3>3
  <2>7. QED
    BY <2>2, <2>3, <2>6
<1>9. RecordingTypeOK'
  <2>1. frames' \in 0..MaxFrames
    BY <1>2, <1>4, RecordingAssumption
  <2>2. writes' \in Seq([file : Files, frame : 1..MaxFrames, via : Names, dir : 1..Len(dirs')])
    BY <1>2, <1>8 DEF Row
  <2>3. QED
    BY <1>1, <1>2, <1>4, <1>5, <2>1, <2>2 DEF RecordingTypeOK
<1>10. MisfiledOnlyWithTcp'
  <2>1. dir # NoDir => dirs[dir].transport = t \/ "TCP" \in {dirs[dir].transport, t}
    BY <1>1 DEF DirectoryOfSession, SessionOfOpen, OpenOnes
  <2>2. QED
    BY <1>1, <1>2, <1>8, <2>1 DEF MisfiledOnlyWithTcp
<1>11. IndInv' /\ SessionOfOpen' /\ DirectoryOfSession'
  <2>1. UNCHANGED vars
    BY <1>2 DEF transportVars
  <2>2. IndInv'
    BY <2>1, NextKeepsInd DEF RecInv
  <2>3. QED
    BY <1>1, <1>2, <2>1, <2>2 DEF vars, SessionOfOpen, DirectoryOfSession
<1>12. SwitchesNeedRoot'
  BY <1>1, <1>2 DEF SwitchesNeedRoot
<1>13. SessionUnderCurrentRoot'
  BY <1>1, <1>2, <1>5 DEF SessionUnderCurrentRoot
<1>14. SuffixesAreInitial'
  <2>1. SuffixesAreInitial
    BY <1>1
  <2>2. dirs' = dirs
    BY <1>2
  <2>3. QED
    BY <2>1, <2>2 DEF SuffixesAreInitial, Used
<1>15. OwnDirectories'
  <2>1. OwnDirectories /\ dirs' = dirs
    BY <1>1, <1>2
  <2>2. QED
    BY <2>1 DEF OwnDirectories
<1>16. QED
  BY <1>9, <1>10, <1>11, <1>12, <1>13, <1>14, <1>15 DEF RecInv

LEMMA StutterKeepsRec == RecInv /\ UNCHANGED allVars => RecInv'
<1> SUFFICES ASSUME RecInv, UNCHANGED allVars PROVE RecInv'
  OBVIOUS
<1>1. UNCHANGED vars /\ UNCHANGED <<logging, dir, handle, dirs, frames, writes>>
  BY DEF allVars, transportVars, recorderVars
<1>2. IndInv'
  BY <1>1, NextKeepsInd DEF RecInv
<1>3. /\ RecordingTypeOK /\ SwitchesNeedRoot /\ SessionUnderCurrentRoot
      /\ SuffixesAreInitial /\ OwnDirectories /\ DirectoryOfSession /\ SessionOfOpen
      /\ MisfiledOnlyWithTcp
  BY DEF RecInv
<1>4. RecordingTypeOK' /\ MisfiledOnlyWithTcp'
  <2>1. RecordingTypeOK'
    BY <1>1, <1>3 DEF RecordingTypeOK
  <2>2. MisfiledOnlyWithTcp'
    BY <1>1, <1>3 DEF MisfiledOnlyWithTcp
  <2>3. QED
    BY <2>1, <2>2
<1>5. SuffixesAreInitial' /\ OwnDirectories'
  <2>1. SuffixesAreInitial'
    BY <1>1, <1>3 DEF SuffixesAreInitial, Used
  <2>2. OwnDirectories'
    BY <1>1, <1>3 DEF OwnDirectories
  <2>3. QED
    BY <2>1, <2>2
<1>6. /\ SwitchesNeedRoot' /\ SessionUnderCurrentRoot'
      /\ DirectoryOfSession' /\ SessionOfOpen'
  BY <1>1, <1>3 DEF vars, SwitchesNeedRoot, SessionUnderCurrentRoot,
                    DirectoryOfSession, SessionOfOpen
<1>7. QED
  BY <1>2, <1>4, <1>5, <1>6 DEF RecInv

LEMMA RecKept == RecInv /\ [RecordingNext]_allVars => RecInv'
<1> SUFFICES ASSUME RecInv, [RecordingNext]_allVars PROVE RecInv'
  OBVIOUS
<1>1. ASSUME NEW t \in Names, Receive(t) \/ Send(t) PROVE RecInv'
  <2>1. attached[t] \in Nat
    BY DEF RecInv, IndInv, TypeOK
  <2>2. QED
    BY <1>1, <2>1, HandleBytesKeeps DEF Receive, Send
<1>2. CASE TransportStep
  BY <1>2, TransportStepKeeps
<1>3. ASSUME NEW on \in BOOLEAN, SetRecordRawData(on) \/ SetRecordDecodeLog(on)
      PROVE  RecInv'
  BY <1>3, SwitchesKeep
<1>4. ASSUME NEW root \in Roots \cup {NoRoot}, SetLogDirectory(root) PROVE RecInv'
  BY <1>4, SetLogDirectoryKeeps
<1>5. CASE UNCHANGED allVars
  BY <1>5, StutterKeepsRec
<1>6. QED
  BY <1>1, <1>2, <1>3, <1>4, <1>5 DEF RecordingNext

-----------------------------------------------------------------------------
(* Theorems.                                                               *)

(* RecInv holds in every reachable state. *)
THEOREM RecordingInvariance == RecordingSpec => []RecInv
BY RecInit, RecKept, PTL DEF RecordingSpec

(* Settings, directories, open files and what was written keep their       *)
(* types.                                                                  *)
THEOREM RecordingTypeCorrect == RecordingSpec => []RecordingTypeOK
<1>1. RecInv => RecordingTypeOK
  BY DEF RecInv
<1>2. QED
  BY <1>1, RecordingInvariance, PTL

(* Neither raw data nor decoded chunks are logged without a log root.      *)
THEOREM NoLoggingWithoutRoot == RecordingSpec => []SwitchesNeedRoot
<1>1. RecInv => SwitchesNeedRoot
  BY DEF RecInv
<1>2. QED
  BY <1>1, RecordingInvariance, PTL

(* Files are open in the current session's directory only, and that is one *)
(* below the current root.                                                 *)
THEOREM SessionIsCurrent == RecordingSpec => []SessionUnderCurrentRoot
<1>1. RecInv => SessionUnderCurrentRoot
  BY DEF RecInv
<1>2. QED
  BY <1>1, RecordingInvariance, PTL

(* No two sessions share a directory, whatever the clock says.             *)
THEOREM DirectoriesAreOwn == RecordingSpec => []OwnDirectories
<1>1. RecInv => OwnDirectories
  BY DEF RecInv
<1>2. QED
  BY <1>1, RecordingInvariance, PTL

(* What is written belongs to the session's transport, but for TCP.        *)
THEOREM MisfilingNeedsTcp == RecordingSpec => []MisfiledOnlyWithTcp
<1>1. RecInv => MisfiledOnlyWithTcp
  BY DEF RecInv
<1>2. QED
  BY <1>1, RecordingInvariance, PTL

=============================================================================
