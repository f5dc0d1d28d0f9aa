----------------------------- MODULE Transports -----------------------------
(***************************************************************************)
(* TransportViewModel and its transports, with the part of AppController   *)
(* that reacts to openChanged.  Built-in are UART, TCP and UDP; transport  *)
(* plugins come and go with reloadTransportPlugins.  All transports open   *)
(* synchronously except TCP, whose open returns true while the socket is   *)
(* still connecting.                                                       *)
(*                                                                         *)
(* The view model keeps at most one transport selected ("locked").  Every  *)
(* openChanged signal is handled by the view model first, which connected  *)
(* first, and then by every connection that attachTransport has made.  An  *)
(* action is one event: a call from the user interface, a signal of a      *)
(* socket or device, or a plugin reload, with all the openChanged signals  *)
(* that are emitted on the way.                                            *)
(***************************************************************************)
EXTENDS Integers

CONSTANTS
  Plugins,       \* transportId() of the transport plugins that may be loaded
  Rank,          \* position of a transport in the scan of currentOpenTransportName
  MaxReloads,    \* bound: registrations of one plugin transport
  MaxSessions    \* bound: recording sessions of a behaviour

Builtins == {"UART", "TCP", "UDP"}
Names    == Builtins \cup Plugins
NoName   == ""

(* The scan runs over a list: among any transports one comes first.        *)
ASSUME TransportsAssumption ==
  /\ Plugins \cap (Builtins \cup {NoName}) = {}
  /\ Rank \in [Names -> Nat]
  /\ \A t, u \in Names : Rank[t] = Rank[u] => t = u
  /\ \A S \in (SUBSET Names) \ {{}} : \E t \in S : \A u \in S : Rank[t] <= Rank[u]
  /\ Rank["UART"] = 0 /\ Rank["TCP"] = 1 /\ Rank["UDP"] = 2
  /\ MaxReloads \in Nat
  /\ MaxSessions \in Nat

VARIABLES
  link,        \* every transport: "closed", "connecting" (TCP only), "open"
  registered,  \* plugin transports in m_pluginTransports
  sel,         \* [locked, active]: m_lockedTransport and m_activeTransport
  attached,    \* connections attachTransport made to every transport
  session,     \* transport of the latest startTransportSession
  sessions     \* history: number of startTransportSession calls

vars == <<link, registered, sel, attached, session, sessions>>

-----------------------------------------------------------------------------
(* The selection.                                                          *)

OpenOnes(lk) == {t \in Names : lk[t] = "open"}

(* currentOpenTransportName: the first open one, built-ins before plugins. *)
CurrentOpen(lk) ==
  IF OpenOnes(lk) = {} THEN NoName
  ELSE CHOOSE t \in OpenOnes(lk) : \A u \in OpenOnes(lk) : Rank[t] <= Rank[u]

(* setLockedTransport; a lock drags the active transport along.  The       *)
(* mutant drags it along to nowhere, too.                                  *)
LockDragsAlways(s, n) == [locked |-> n, active |-> n]
Lock(s, n) ==
  IF s.locked = n THEN s
  ELSE [locked |-> n, active |-> IF n = NoName THEN s.active ELSE n]

(* setActiveTransport; the mutant ignores the lock.                        *)
ActivateAnyway(s, n) == [s EXCEPT !.active = n]
Activate(s, n) ==
  IF s.locked \in {NoName, n} THEN [s EXCEPT !.active = n] ELSE s

(* handleTransportOpenChanged, given the states of all transports.  One    *)
(* mutant drops the lock at every signal, the other ignores the signal.    *)
OpenChangedUnlocks(s, lk) == Lock(s, NoName)
OpenChangedIgnored(s, lk) == s
OpenChanged(s, lk) == Lock(s, CurrentOpen(lk))

-----------------------------------------------------------------------------
(* The controller.                                                         *)

StartSession(t, times) ==
  /\ sessions + times <= MaxSessions
  /\ session' = IF times > 0 THEN t ELSE session
  /\ sessions' = sessions + times

(* handleTransportOpenStateChanged of t: once per attached connection, an  *)
(* open transport that is the active one starts a session; otherwise only  *)
(* the parser state of t is reset.  It reads the selection left by the     *)
(* view model's handler; the mutant reads the one before.                  *)
ControllerReactsFirst(t, s) ==
  IF link'[t] = "open" /\ sel.active = t
    THEN StartSession(t, attached[t])
    ELSE UNCHANGED <<session, sessions>>
ControllerReacts(t, s) ==
  IF link'[t] = "open" /\ s.active = t
    THEN StartSession(t, attached[t])
    ELSE UNCHANGED <<session, sessions>>

-----------------------------------------------------------------------------
(* Opening.                                                                *)

Known == Builtins \cup registered

(* The test of openTransport: neither another lock nor another transport   *)
(* that is open.  The mutant only looks at the transport itself.           *)
MayOpenUnlessOpen(t) == link[t] # "open"
MayOpen(t) ==
  /\ sel.locked \in {NoName, t}
  /\ CurrentOpen(link) \in {NoName, t}

(* A refused call adopts the open transport as the lock when there is none *)
(* (which LockHeldWhileOpen shows never to happen).                        *)
OpenRefused(t) ==
  /\ t \in Known
  /\ ~MayOpen(t)
  /\ sel' = IF sel.locked = NoName THEN Lock(sel, CurrentOpen(link)) ELSE sel
  /\ UNCHANGED <<link, registered, attached, session, sessions>>

(* openWithSettings begins with close(), which emits openChanged.          *)
ClosedFirst(t) == OpenChanged(Activate(sel, t), [link EXCEPT ![t] = "closed"])

(* UART, UDP and plugins: the device opens, emits openChanged and the call *)
(* returns true, upon which the view model locks it once more.             *)
OpenSucceeds(t) ==
  /\ t \in Known \ {"TCP"}
  /\ MayOpen(t)
  /\ link' = [link EXCEPT ![t] = "open"]
  /\ LET s == OpenChanged(ClosedFirst(t), link')
     IN  ControllerReacts(t, s) /\ sel' = Lock(s, t)
  /\ UNCHANGED <<registered, attached>>

(* No port selected, the device cannot be opened, the address is taken:    *)
(* openChanged is emitted again and the call returns false.                *)
OpenFails(t) ==
  /\ t \in Known \ {"TCP"}
  /\ MayOpen(t)
  /\ link' = [link EXCEPT ![t] = "closed"]
  /\ sel' = OpenChanged(ClosedFirst(t), link')
  /\ UNCHANGED <<registered, attached, session, sessions>>

(* TCP returns true at once and is locked although nothing is open yet.    *)
OpenTcp ==
  /\ MayOpen("TCP")
  /\ link' = [link EXCEPT !["TCP"] = "connecting"]
  /\ sel' = Lock(ClosedFirst("TCP"), "TCP")
  /\ UNCHANGED <<registered, attached, session, sessions>>

TcpConnected ==
  /\ link["TCP"] = "connecting"
  /\ link' = [link EXCEPT !["TCP"] = "open"]
  /\ sel' = OpenChanged(sel, link')
  /\ ControllerReacts("TCP", sel')
  /\ UNCHANGED <<registered, attached>>

(* errorOccurred while connecting: status and message, no openChanged.     *)
TcpConnectFails ==
  /\ link["TCP"] = "connecting"
  /\ link' = [link EXCEPT !["TCP"] = "closed"]
  /\ UNCHANGED <<registered, sel, attached, session, sessions>>

-----------------------------------------------------------------------------
(* Closing.                                                                *)

(* The close buttons are enabled for the locked and for open transports.   *)
UserMayClose(t) == sel.locked = t \/ link[t] = "open"

(* closeTransport.  Its own setLockedTransport repeats what the view       *)
(* model's handler of openChanged has just done.                           *)
Close(t) ==
  /\ t \in Known
  /\ UserMayClose(t)
  /\ link' = [link EXCEPT ![t] = "closed"]
  /\ sel' = OpenChanged(sel, link')
  /\ UNCHANGED <<registered, attached, session, sessions>>

(* The peer closes the connection, or a plugin transport closes by itself; *)
(* both say so with openChanged.                                           *)
Lost(t) ==
  /\ t \in {"TCP"} \cup registered
  /\ link[t] = "open"
  /\ link' = [link EXCEPT ![t] = "closed"]
  /\ sel' = OpenChanged(sel, link')
  /\ UNCHANGED <<registered, attached, session, sessions>>

-----------------------------------------------------------------------------
(* Plugins.                                                                *)

(* A plugin transport that is not open and is closed before the open one   *)
(* makes the view model look at the still unchanged transports.            *)
ClosedBeforeOpenOne ==
  \E p, q \in registered : link[p] # "open" /\ link[q] = "open" /\ Rank[p] < Rank[q]

(* reloadTransportPlugins: every plugin transport is closed in turn, each  *)
(* emitting openChanged; the plugins found and enabled now are registered  *)
(* again, as the same objects, and attached once more; the lock is         *)
(* computed anew.                                                          *)
ReloadPlugins(found) ==
  /\ \A p \in found : attached[p] < MaxReloads
  /\ link' = [t \in Names |-> IF t \in registered THEN "closed" ELSE link[t]]
  /\ registered' = found
  /\ attached' = [t \in Names |-> attached[t] + IF t \in found THEN 1 ELSE 0]
  /\ LET s == IF ClosedBeforeOpenOne THEN OpenChanged(sel, link) ELSE sel
     IN  sel' = OpenChanged(s, link')
  /\ UNCHANGED <<session, sessions>>

(* setActiveTransport, from the tabs of the panel.                         *)
SetActiveTransport(t) ==
  /\ t \in Known
  /\ sel' = Activate(sel, t)
  /\ UNCHANGED <<link, registered, attached, session, sessions>>

-----------------------------------------------------------------------------
(* At start the plugins that are found and enabled are registered, and the *)
(* controller attaches to everything there is.                             *)
Init ==
  /\ link = [t \in Names |-> "closed"]
  /\ registered \in SUBSET Plugins
  /\ sel = [locked |-> NoName, active |-> "UART"]
  /\ attached = [t \in Names |-> IF t \in Builtins \cup registered THEN 1 ELSE 0]
  /\ session = NoName
  /\ sessions = 0

TransportEvent(t) ==
  \/ OpenRefused(t)
  \/ OpenSucceeds(t)
  \/ OpenFails(t)
  \/ Close(t)
  \/ Lost(t)
  \/ SetActiveTransport(t)

Next ==
  \/ \E t \in Names : TransportEvent(t)
  \/ OpenTcp
  \/ TcpConnected
  \/ TcpConnectFails
  \/ \E found \in SUBSET Plugins : ReloadPlugins(found)

Spec == Init /\ [][Next]_vars

-----------------------------------------------------------------------------
(* Properties.                                                             *)

LinkStates == {"closed", "connecting", "open"}

TypeOK ==
  /\ link \in [Names -> LinkStates]
  /\ registered \in SUBSET Plugins
  /\ sel \in [locked : Names \cup {NoName}, active : Names]
  /\ attached \in [Names -> Nat]
  /\ session \in Names \cup {NoName}
  /\ sessions \in Nat

(* While there is a lock, commands for "Active" go to the locked transport:*)
(* no tab selection and no openChanged may separate the two.               *)
ActiveFollowsLock == sel.locked # NoName => sel.active = sel.locked

(* The lock is never dropped while a transport is open, whichever other    *)
(* transport fails, closes or is unloaded.                                 *)
LockHeldWhileOpen == OpenOnes(link) # {} => sel.locked # NoName

(* Only TCP can hold the lock without being open (while it connects, and   *)
(* after an attempt that failed): for every other transport a lock without *)
(* an open device would leave nothing to close.                            *)
OnlyTcpLocksUnopened ==
  sel.locked \notin {NoName, "TCP"} => link[sel.locked] = "open"

(* Two open transports always include TCP: it is the only one that can     *)
(* finish opening after the lock has been dropped and taken by another.    *)
TwoOpenOnlyByTcp ==
  \A t, u \in OpenOnes(link) : t # u => "TCP" \in {t, u}

(* A transport whose opening leaves it the only open one becomes the       *)
(* active one and starts a recording session of its own; data is never     *)
(* recorded into the session of a connection that is already gone.         *)
LoneConnectionStartsSession ==
  [][\A t \in Names :
       link[t] # "open" /\ OpenOnes(link') = {t}
         => sel'.active = t /\ session' = t /\ sessions' > sessions]_vars

=============================================================================
