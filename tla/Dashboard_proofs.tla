--------------------------- MODULE Dashboard_proofs ---------------------------
(***************************************************************************)
(* Theorems about Dashboard, for any peers, requests, messages and limits. *)
(*                                                                         *)
(* A dialog stays about what is selected because nothing moves the         *)
(* selection or the lists while it is open.  A request is seen before it   *)
(* is decided because a key is handled only after a frame, and nothing     *)
(* but a key or the drawing itself changes what a frame shows.             *)
(***************************************************************************)
EXTENDS Dashboard, ListFacts

-----------------------------------------------------------------------------
\* Types

DaemonOK ==
  /\ directory \in Seq(Peer) /\ asks \in Seq(Request) /\ mail \in Seq(Message)
  /\ decided \subseteq Request

ViewOK ==
  /\ peers \in Seq(Peer) /\ pending \in Seq(Request) /\ inbox \in Seq(Message)
  /\ tab \in Tab /\ message_pane \in {"inbox", "outbox"} /\ peer_filter \in Peer \cup {None}
  /\ IsPosition(peer_index, Filtered(peers, peer_filter))
  /\ IsPosition(request_index, pending)
  /\ known \subseteq Message /\ unread \subseteq known

LoopOK ==
  /\ phase \in {"off", "draw", "key"} /\ splash \in BOOLEAN
  /\ modal \in Modal \cup {None}
  /\ seen \subseteq Request /\ posted \subseteq [request: Request, splash: BOOLEAN]
  /\ {changes, starts} \subseteq Nat

LEMMA TypeParts == TypeOK <=> DaemonOK /\ ViewOK /\ LoopOK
BY DEF TypeOK, DaemonOK, ViewOK, LoopOK

LEMMA TypePartsNext == TypeOK' <=> DaemonOK' /\ ViewOK' /\ LoopOK'
BY DEF TypeOK, DaemonOK, ViewOK, LoopOK

LEMMA FilteredType ==
  ASSUME NEW list \in Seq(Peer), NEW filter \in Peer \cup {None}
  PROVE  Filtered(list, filter) \in Seq(Peer)
BY DEF Filtered

LEMMA ClampedPosition ==
  ASSUME NEW S, NEW list \in Seq(S), NEW i \in Nat
  PROVE  IsPosition(Clamped(i, list), list)
BY DEF IsPosition, Clamped

LEMMA PageType ==
  ASSUME NEW S, NEW list \in Seq(S), NEW limit \in Nat
  PROVE  Page(list, limit) \in Seq(S)
BY DEF Page

LEMMA SnapshotType ==
  ASSUME DashboardAssumption, DaemonOK', NEW ok, Snapshot(ok)
  PROVE  peers' \in Seq(Peer) /\ pending' \in Seq(Request) /\ inbox' \in Seq(Message)
<1>1. Page(asks', PendingLimit) \in Seq(Request) /\ Page(mail', InboxLimit) \in Seq(Message)
  BY PageType DEF DaemonOK, DashboardAssumption
<1>2. QED
  BY <1>1 DEF Snapshot, DaemonOK

\* What a refresh does to the view, whatever calls fail.
LEMMA RefreshFacts ==
  ASSUME DashboardAssumption, ViewOK, DaemonOK', Refresh
  PROVE  /\ ViewOK'
         /\ tab' = tab /\ message_pane' = message_pane
         /\ known' = known \cup ToSet(inbox')
         /\ unread' = IF InboxShown' THEN {} ELSE unread \cup (ToSet(inbox') \ known)
<1>1. PICK ok \in SUBSET {"peers", "pending", "inbox"} :
        /\ UNCHANGED <<tab, message_pane, peer_filter>>
        /\ Snapshot(ok)
        /\ KnownToo(ToSet(inbox'))
        /\ peer_index' = Clamped(peer_index, Filtered(peers', peer_filter))
        /\ request_index' = Clamped(request_index, pending')
        /\ SyncMessageAlerts(unread \cup (ToSet(inbox') \ known))
  BY DEF Refresh
<1>2. peers' \in Seq(Peer) /\ pending' \in Seq(Request) /\ inbox' \in Seq(Message)
  BY <1>1, SnapshotType
<1>3. IsPosition(peer_index', Filtered(peers', peer_filter'))
  <2>1. Filtered(peers', peer_filter) \in Seq(Peer) /\ peer_index \in Nat
    BY <1>2, FilteredType DEF ViewOK, IsPosition
  <2>2. QED
    BY <1>1, <2>1, ClampedPosition
<1>4. IsPosition(request_index', pending')
  BY <1>1, <1>2, ClampedPosition DEF ViewOK, IsPosition
<1>5. ToSet(inbox') \subseteq Message
  BY <1>2 DEF ToSet
<1>6. /\ known' = known \cup ToSet(inbox')
      /\ unread' = IF InboxShown' THEN {} ELSE unread \cup (ToSet(inbox') \ known)
  BY <1>1 DEF KnownToo, SyncMessageAlerts
<1>7. known' \subseteq Message /\ unread' \subseteq known'
  BY <1>5, <1>6 DEF ViewOK
<1>8. QED
  BY <1>1, <1>2, <1>3, <1>4, <1>6, <1>7 DEF ViewOK

LEMMA SameView ==
  ASSUME ViewOK, NoRefresh
  PROVE  ViewOK'
BY DEF ViewOK, NoRefresh, snapshot, selection, alerts, IsPosition, Filtered

LEMMA MovedPosition ==
  ASSUME NEW S, NEW list \in Seq(S), NEW i, IsPosition(i, list), NEW j \in Moved(i, list)
  PROVE  IsPosition(j, list)
BY DEF IsPosition, Moved

\* A decision changes the pending requests only.
LEMMA DecideType ==
  ASSUME DaemonOK, NEW r \in Request, Decide(r)
  PROVE  DaemonOK'
<1>1. asks' \in Seq(Request)
  BY RemoveFirstType DEF Decide, DaemonOK
<1>2. QED
  BY <1>1 DEF Decide, DaemonOK

LEMMA DaemonStep ==
  ASSUME TypeOK, Daemon
  PROVE  /\ DaemonOK'
         /\ UNCHANGED <<snapshot, phase, splash, selection, modal, alerts, seen, posted, starts>>
         /\ changes' \in Nat
<1> USE TypeParts, TypePartsNext
<1>1. ASSUME Changes
      PROVE  /\ changes' \in Nat
             /\ UNCHANGED <<snapshot, phase, splash, selection, modal, alerts, seen, posted, starts>>
  BY <1>1 DEF Changes, LoopOK
<1>2. ASSUME NEW m \in Message, MessageArrives(m)
      PROVE  DaemonOK' /\ Changes
  <2>1. mail' \in Seq(Message)
    BY <1>2, InsertAtType DEF MessageArrives, DaemonOK
  <2>2. QED
    BY <1>2, <2>1 DEF MessageArrives, DaemonOK
<1>3. ASSUME NEW r \in Request, RequestArrives(r)
      PROVE  DaemonOK' /\ Changes
  <2>1. asks' \in Seq(Request)
    BY <1>3, InsertAtType DEF RequestArrives, DaemonOK
  <2>2. QED
    BY <1>3, <2>1 DEF RequestArrives, DaemonOK
<1>4. ASSUME NEW r \in Request, RequestDecided(r)
      PROVE  DaemonOK' /\ Changes
  BY <1>4, DecideType DEF RequestDecided
<1>5. ASSUME NEW p \in Peer, PeerSeen(p)
      PROVE  DaemonOK' /\ Changes
  <2>1. RemoveFirst(directory, p) \in Seq(Peer) /\ <<p>> \in Seq(Peer)
    BY RemoveFirstType DEF DaemonOK
  <2>2. directory' \in Seq(Peer)
    BY <1>5, <2>1, ConcatProperties DEF PeerSeen
  <2>3. QED
    BY <1>5, <2>2 DEF PeerSeen, DaemonOK
<1>6. ASSUME NEW p \in Peer, PeerGone(p)
      PROVE  DaemonOK' /\ Changes
  <2>1. directory' \in Seq(Peer)
    BY <1>6, RemoveFirstType DEF PeerGone, DaemonOK
  <2>2. QED
    BY <1>6, <2>1 DEF PeerGone, DaemonOK
<1>7. QED
  BY <1>1, <1>2, <1>3, <1>4, <1>5, <1>6 DEF Daemon

LEMMA SelectedTypes ==
  ASSUME ViewOK
  PROVE  SelectedPeer \in Peer \cup {None} /\ SelectedRequest \in Request \cup {None}
<1>1. Filtered(peers, peer_filter) \in Seq(Peer)
  BY FilteredType DEF ViewOK
<1>2. QED
  BY <1>1 DEF ViewOK, IsPosition, SelectedPeer, SelectedRequest, Get

LEMMA InitType == Init => TypeOK
<1> SUFFICES ASSUME Init PROVE DaemonOK /\ ViewOK /\ LoopOK
  BY TypeParts
<1>1. DaemonOK
  BY DEF Init, DaemonOK
<1>2. ViewOK
  BY DEF Init, ViewOK, Filtered, IsPosition, Tab
<1>3. LoopOK
  <2>1. seen \subseteq Request /\ posted \subseteq [request: Request, splash: BOOLEAN]
    BY DEF Init
  <2>2. modal \in Modal \cup {None} /\ {changes, starts} \subseteq Nat
    BY DEF Init
  <2>3. phase \in {"off", "draw", "key"} /\ splash \in BOOLEAN
    BY DEF Init
  <2>4. QED
    BY <2>1, <2>2, <2>3 DEF LoopOK
<1>4. QED
  BY <1>1, <1>2, <1>3

LEMMA StartType ==
  ASSUME DashboardAssumption, TypeOK, Start
  PROVE  TypeOK'
<1> USE TypeParts, TypePartsNext
<1>1. DaemonOK'
  BY DEF Start, daemon, DaemonOK
<1>2. peers' \in Seq(Peer) /\ pending' \in Seq(Request) /\ inbox' \in Seq(Message)
  BY <1>1, SnapshotType DEF Start
<1>3. ViewOK'
  BY <1>2 DEF Start, ViewOK, IsPosition, Filtered, Tab, ToSet
<1>4. LoopOK'
  BY DEF Start, LoopOK
<1>5. QED
  BY <1>1, <1>3, <1>4

LEMMA DrawType ==
  ASSUME DashboardAssumption, TypeOK, DrawDashboard
  PROVE  TypeOK'
<1> USE TypeParts, TypePartsNext
<1>1. DaemonOK'
  BY DEF DrawDashboard, daemon, DaemonOK
<1>2. ViewOK'
  BY <1>1, RefreshFacts, SameView DEF DrawDashboard
<1>3. SelectedRequest' \in Request \cup {None}
  BY <1>2 DEF ViewOK, IsPosition, SelectedRequest, Get
<1>4. LoopOK'
  BY <1>3 DEF DrawDashboard, LoopOK
<1>5. QED
  BY <1>1, <1>2, <1>4

\* Keys without a dialog.
LEMMA KeysType ==
  ASSUME DashboardAssumption, TypeOK, Keys
  PROVE  TypeOK'
<1> USE TypeParts, TypePartsNext
<1>1. ASSUME NEW t \in Tab, SelectTab(t)
      PROVE  TypeOK'
  BY <1>1 DEF SelectTab, Key, Turn, EndsTurn, SyncMessageAlerts, daemon, snapshot,
              DaemonOK, ViewOK, LoopOK, IsPosition, Filtered
<1>2. CASE ToggleMessagePane
  BY <1>2 DEF ToggleMessagePane, Key, Turn, EndsTurn, SyncMessageAlerts, daemon, snapshot,
              DaemonOK, ViewOK, LoopOK, IsPosition, Filtered
<1>3. CASE RefreshKey
  <2>1. DaemonOK'
    BY <1>3 DEF RefreshKey, daemon, DaemonOK
  <2>2. ViewOK'
    BY <1>3, <2>1, RefreshFacts DEF RefreshKey
  <2>3. LoopOK'
    BY <1>3 DEF RefreshKey, Key, Turn, EndsTurn, LoopOK
  <2>4. QED
    BY <2>1, <2>2, <2>3
<1>4. CASE MoveSelection
  <2>1. IsPosition(peer_index', Filtered(peers, peer_filter))
    <3>1. Filtered(peers, peer_filter) \in Seq(Peer)
      BY FilteredType DEF ViewOK
    <3>2. QED
      BY <1>4, <3>1, MovedPosition DEF MoveSelection, ViewOK
  <2>2. IsPosition(request_index', pending)
    BY <1>4, MovedPosition DEF MoveSelection, ViewOK
  <2>3. UNCHANGED <<peers, pending, inbox, tab, message_pane, peer_filter, known, unread>>
    BY <1>4 DEF MoveSelection, snapshot, alerts
  <2>4. ViewOK'
    BY <2>1, <2>2, <2>3 DEF ViewOK
  <2>5. QED
    BY <1>4, <2>4 DEF MoveSelection, Key, Turn, EndsTurn, daemon, DaemonOK, LoopOK
<1>5. CASE AcceptRequest
  <2>1. SelectedRequest \in Request
    BY <1>5, SelectedTypes DEF AcceptRequest
  <2>2. DaemonOK'
    BY <1>5, <2>1, DecideType DEF AcceptRequest, daemon, DaemonOK
  <2>3. ViewOK'
    BY <1>5, <2>2, RefreshFacts, SameView DEF AcceptRequest
  <2>4. LoopOK'
    BY <1>5, <2>1 DEF AcceptRequest, Key, Turn, EndsTurn, LoopOK
  <2>5. QED
    BY <2>2, <2>3, <2>4
<1>6. ASSUME NEW m \in Modal, Open(m)
      PROVE  TypeOK'
  <2>1. ViewOK'
    BY <1>6, SameView DEF Open, NoRefresh
  <2>2. QED
    BY <1>6, <2>1 DEF Open, Key, Turn, EndsTurn, daemon, DaemonOK, LoopOK
<1>7. ASSUME NEW kind \in {"filter", "topic", "text"}, OpenDialog(kind)
      PROVE  TypeOK'
  BY <1>6, <1>7 DEF OpenDialog, Modal
<1>8. CASE OpenPeerDialog
  BY <1>6, <1>8, SelectedTypes DEF OpenPeerDialog, Modal
<1>9. CASE OpenDenyRequest
  BY <1>6, <1>9, SelectedTypes DEF OpenDenyRequest, Modal
<1>10. QED
  BY <1>1, <1>2, <1>3, <1>4, <1>5, <1>7, <1>8, <1>9 DEF Keys

\* Keys of a dialog.
LEMMA DialogType ==
  ASSUME DashboardAssumption, TypeOK, Dialog
  PROVE  TypeOK'
<1> USE TypeParts, TypePartsNext
<1>1. CASE Escape
  <2>1. ViewOK'
    BY <1>1, SameView DEF Escape, NoRefresh
  <2>2. QED
    BY <1>1, <2>1 DEF Escape, DialogKey, Turn, EndsTurn, daemon, DaemonOK, LoopOK
<1>2. CASE SubmitFilter
  BY <1>2 DEF SubmitFilter, DialogKey, Turn, EndsTurn, daemon, snapshot, alerts,
              DaemonOK, ViewOK, LoopOK, IsPosition
<1>3. CASE SubmitTopic
  <2>1. ViewOK'
    BY <1>3, SameView DEF SubmitTopic, NoRefresh
  <2>2. modal' \in Modal
    BY <1>3 DEF SubmitTopic, Modal
  <2>3. QED
    BY <1>3, <2>1, <2>2 DEF SubmitTopic, DialogKey, Turn, EndsTurn, daemon, DaemonOK, LoopOK
<1>4. CASE SubmitCall
  <2>1. DaemonOK'
    BY <1>4 DEF SubmitCall, daemon, DaemonOK
  <2>2. ViewOK'
    BY <1>4, <2>1, RefreshFacts, SameView DEF SubmitCall
  <2>3. QED
    BY <1>4, <2>1, <2>2 DEF SubmitCall, DialogKey, Turn, EndsTurn, LoopOK
<1>5. CASE SubmitDeny
  <2>1. modal.target \in Request
    BY <1>5 DEF SubmitDeny, DialogKey, LoopOK, Modal
  <2>2. DaemonOK'
    BY <1>5, <2>1, DecideType DEF SubmitDeny, daemon, DaemonOK
  <2>3. ViewOK'
    BY <1>5, <2>2, RefreshFacts, SameView DEF SubmitDeny
  <2>4. LoopOK'
    BY <1>5, <2>1 DEF SubmitDeny, DialogKey, Turn, EndsTurn, LoopOK
  <2>5. QED
    BY <2>2, <2>3, <2>4
<1>6. QED
  BY <1>1, <1>2, <1>3, <1>4, <1>5 DEF Dialog

LEMMA NextType == DashboardAssumption /\ TypeOK /\ [Next]_vars => TypeOK'
<1> SUFFICES ASSUME DashboardAssumption, TypeOK, [Next]_vars
             PROVE  TypeOK'
  OBVIOUS
<1> USE TypeParts, TypePartsNext
<1>1. CASE Daemon
  <2>1. ViewOK'
    BY <1>1, DaemonStep, SameView DEF NoRefresh
  <2>2. QED
    BY <1>1, <2>1, DaemonStep DEF LoopOK
<1>2. ASSUME DrawSplash \/ NoKey \/ SkipSplash \/ Quit \/ UNCHANGED vars
      PROVE  TypeOK'
  <2>1. ViewOK'
    BY <1>2, SameView DEF DrawSplash, NoKey, SkipSplash, Quit, vars, NoRefresh
  <2>2. QED
    BY <1>2, <2>1 DEF DrawSplash, NoKey, SkipSplash, Quit, Turn, EndsTurn, vars, daemon,
                      DaemonOK, LoopOK
<1>3. QED
  BY <1>1, <1>2, StartType, DrawType, KeysType, DialogType DEF Next, Loop

\* Every variable keeps its type and every selection is a position of its list,
\* however lists shrink, calls fail and filters change.
THEOREM TypeCorrect == Spec => []TypeOK
BY InitType, NextType, DashboardAssumption, PTL DEF Spec

-----------------------------------------------------------------------------
\* Dialogs and decisions

\* The denial dialog is opened and stays on the Requests tab.
DenialIsOnItsTab == modal # None /\ modal.kind = "deny" => tab = "requests"

\* When a key is handled the last frame has shown what is selected.
FrameIsCurrent ==
  phase = "key" /\ ~splash /\ tab = "requests" /\ SelectedRequest # None
    => SelectedRequest \in seen

SInv ==
  TypeOK /\ DialogIsAboutSelection /\ DenialIsOnItsTab /\ FrameIsCurrent /\ SeenBeforeDecided

LEMMA InitSInv == Init => SInv
<1> SUFFICES ASSUME Init PROVE SInv
  OBVIOUS
<1>1. TypeOK
  BY InitType
<1>2. DialogIsAboutSelection /\ DenialIsOnItsTab /\ FrameIsCurrent /\ SeenBeforeDecided
  BY DEF Init, DialogIsAboutSelection, DenialIsOnItsTab, FrameIsCurrent, SeenBeforeDecided
<1>3. QED
  BY <1>1, <1>2 DEF SInv

\* Nothing that a dialog or a frame is about changes.
LEMMA SameSelection ==
  ASSUME UNCHANGED <<snapshot, selection>>
  PROVE  SelectedPeer' = SelectedPeer /\ SelectedRequest' = SelectedRequest /\ tab' = tab
BY DEF snapshot, selection, SelectedPeer, SelectedRequest, Get, Filtered

\* A step of the dashboard that leaves no dialog and lets a frame come next.
LEMMA NoDialogNext ==
  ASSUME modal' = None, phase' # "key", UNCHANGED <<seen, posted>>, SInv
  PROVE  DialogIsAboutSelection' /\ DenialIsOnItsTab' /\ FrameIsCurrent' /\ SeenBeforeDecided'
BY DEF SInv, DialogIsAboutSelection, DenialIsOnItsTab, FrameIsCurrent, SeenBeforeDecided

\* A step that leaves everything shown as it is.
LEMMA NothingShownChanges ==
  ASSUME SInv, UNCHANGED <<snapshot, selection, modal, seen, posted>>,
         phase' = "key" => phase = "key" /\ splash' = splash
  PROVE  DialogIsAboutSelection' /\ DenialIsOnItsTab' /\ FrameIsCurrent' /\ SeenBeforeDecided'
BY SameSelection
DEF SInv, DialogIsAboutSelection, DenialIsOnItsTab, FrameIsCurrent, SeenBeforeDecided

LEMMA NextSInv == DashboardAssumption /\ SInv /\ [Next]_vars => SInv'
<1> SUFFICES ASSUME DashboardAssumption, SInv, [Next]_vars
             PROVE  DialogIsAboutSelection' /\ DenialIsOnItsTab' /\ FrameIsCurrent'
                      /\ SeenBeforeDecided'
  BY NextType DEF SInv
<1> DEFINE Goal == DialogIsAboutSelection' /\ DenialIsOnItsTab' /\ FrameIsCurrent'
                     /\ SeenBeforeDecided'
<1>1. CASE Daemon
  BY <1>1, DaemonStep, NothingShownChanges DEF SInv
<1>2. CASE Start
  BY <1>2, NoDialogNext DEF Start
<1>3. CASE DrawSplash
  <2>1. DialogIsAboutSelection' /\ DenialIsOnItsTab' /\ SeenBeforeDecided'
    BY <1>3, SameSelection
    DEF DrawSplash, SInv, DialogIsAboutSelection, DenialIsOnItsTab, SeenBeforeDecided
  <2>2. FrameIsCurrent'
    BY <1>3 DEF DrawSplash, FrameIsCurrent
  <2>3. QED
    BY <2>1, <2>2
<1>4. CASE DrawDashboard
  <2>1. tab' = tab
    <3>1. Refresh => tab' = tab
      BY DEF Refresh
    <3>2. NoRefresh => tab' = tab
      BY DEF NoRefresh, selection
    <3>3. QED
      BY <1>4, <3>1, <3>2 DEF DrawDashboard
  <2>2. modal' = modal /\ posted' = posted /\ seen \subseteq seen'
    BY <1>4 DEF DrawDashboard
  <2>3. tab = "requests" /\ SelectedRequest' # None => SelectedRequest' \in seen'
    BY <1>4 DEF DrawDashboard
  <2>4. modal = None \/ UNCHANGED <<snapshot, selection>>
    BY <1>4 DEF DrawDashboard, RefreshIsDue, NoRefresh
  <2>5. DialogIsAboutSelection'
    BY <2>2, <2>4, SameSelection DEF SInv, DialogIsAboutSelection
  <2>6. QED
    BY <2>1, <2>2, <2>3, <2>5
    DEF SInv, DenialIsOnItsTab, FrameIsCurrent, SeenBeforeDecided
<1>5. ASSUME NoKey \/ SkipSplash \/ Quit \/ UNCHANGED vars
      PROVE  Goal
  BY <1>5, NothingShownChanges DEF NoKey, SkipSplash, Quit, Turn, EndsTurn, vars
<1>6. ASSUME (\E t \in Tab : SelectTab(t)) \/ ToggleMessagePane \/ RefreshKey \/ MoveSelection
      PROVE  Goal
  BY <1>6, NoDialogNext
  DEF SelectTab, ToggleMessagePane, RefreshKey, MoveSelection, Key, Turn, EndsTurn
<1>7. CASE AcceptRequest
  <2>1. /\ phase = "key" /\ tab = "requests" /\ SelectedRequest # None /\ modal' = None
        /\ phase' = "draw" /\ seen' = seen
        /\ posted' = posted \cup {[request |-> SelectedRequest, splash |-> splash]}
    BY <1>7 DEF AcceptRequest, Key, Turn, EndsTurn
  <2>2. splash \/ SelectedRequest \in seen
    BY <2>1 DEF SInv, FrameIsCurrent
  <2>3. SeenBeforeDecided'
    BY <2>1, <2>2 DEF SInv, SeenBeforeDecided
  <2>4. QED
    BY <2>1, <2>3 DEF DialogIsAboutSelection, DenialIsOnItsTab, FrameIsCurrent
<1>8. ASSUME NEW m \in Modal, Open(m),
             m.kind = "peer" => m.target = SelectedPeer,
             m.kind = "deny" => m.target = SelectedRequest /\ tab = "requests"
      PROVE  Goal
  <2>1. /\ modal' = m /\ phase' = "draw" /\ UNCHANGED <<snapshot, selection, seen, posted>>
    BY <1>8 DEF Open, Key, Turn, EndsTurn
  <2>2. DialogIsAboutSelection' /\ DenialIsOnItsTab'
    BY <1>8, <2>1, SameSelection DEF DialogIsAboutSelection, DenialIsOnItsTab
  <2>3. QED
    BY <2>1, <2>2 DEF SInv, FrameIsCurrent, SeenBeforeDecided
<1>9. ASSUME (\E kind \in {"filter", "topic", "text"} : OpenDialog(kind))
               \/ OpenPeerDialog \/ OpenDenyRequest
      PROVE  Goal
  <2>1. SelectedPeer \in Peer \cup {None} /\ SelectedRequest \in Request \cup {None}
    BY SelectedTypes, TypeParts DEF SInv
  <2>2. ASSUME NEW kind \in {"filter", "topic", "text"}, OpenDialog(kind)
        PROVE  Goal
    BY <1>8, <2>2 DEF OpenDialog, Modal
  <2>3. CASE OpenPeerDialog
    BY <1>8, <2>1, <2>3 DEF OpenPeerDialog, Modal
  <2>4. CASE OpenDenyRequest
    BY <1>8, <2>1, <2>4 DEF OpenDenyRequest, Modal
  <2>5. QED
    BY <1>9, <2>2, <2>3, <2>4
<1>10. ASSUME Escape \/ SubmitFilter \/ SubmitCall
       PROVE  Goal
  BY <1>10, NoDialogNext DEF Escape, SubmitFilter, SubmitCall, DialogKey, Turn, EndsTurn
<1>11. CASE SubmitTopic
  BY <1>11, SameSelection
  DEF SubmitTopic, DialogKey, Turn, EndsTurn, SInv, DialogIsAboutSelection, DenialIsOnItsTab,
      FrameIsCurrent, SeenBeforeDecided
<1>12. CASE SubmitDeny
  <2>1. /\ phase = "key" /\ modal # None /\ modal.kind = "deny" /\ phase' = "draw"
        /\ seen' = seen
        /\ posted' = posted \cup {[request |-> modal.target, splash |-> splash]}
    BY <1>12 DEF SubmitDeny, DialogKey, Turn, EndsTurn
  <2>2. modal.target = SelectedRequest /\ tab = "requests" /\ modal.target # None
    BY <2>1, TypeParts, NoneAssumption
    DEF SInv, DialogIsAboutSelection, DenialIsOnItsTab, LoopOK, Modal
  <2>3. SeenBeforeDecided'
    BY <2>1, <2>2 DEF SInv, FrameIsCurrent, SeenBeforeDecided
  <2>4. modal' = None \/ UNCHANGED <<snapshot, selection, modal>>
    BY <1>12 DEF SubmitDeny, NoRefresh
  <2>5. DialogIsAboutSelection' /\ DenialIsOnItsTab'
    BY <2>4, SameSelection DEF SInv, DialogIsAboutSelection, DenialIsOnItsTab
  <2>6. QED
    BY <2>1, <2>3, <2>5 DEF FrameIsCurrent
<1>13. QED
  BY <1>1, <1>2, <1>3, <1>4, <1>5, <1>6, <1>7, <1>9, <1>10, <1>11, <1>12
  DEF Next, Loop, Keys, Dialog

\* While a dialog is open its target is what is selected behind it.
THEOREM DialogsAreAboutTheSelection == Spec => []DialogIsAboutSelection
<1>1. SInv => DialogIsAboutSelection
  BY DEF SInv
<1>2. QED
  BY <1>1, InitSInv, NextSInv, DashboardAssumption, PTL DEF Spec

\* Only requests a frame has shown as selected are decided, but for keys
\* pressed while the splash screen is on.
THEOREM DecisionsAreSeen == Spec => []SeenBeforeDecided
<1>1. SInv => SeenBeforeDecided
  BY DEF SInv
<1>2. QED
  BY <1>1, InitSInv, NextSInv, DashboardAssumption, PTL DEF Spec

-----------------------------------------------------------------------------
\* Unread marks

\* While the dashboard runs, what it shows of the inbox is known, and nothing
\* is marked while the inbox is shown.
MarksAreCurrent ==
  phase # "off" => ToSet(inbox) \subseteq known /\ (InboxShown => unread = {})

AInv == TypeOK /\ MarksAreCurrent

\* The step that AlertsAreNews demands.
NewsStep ==
  phase # "off" =>
    /\ unread' = IF InboxShown' THEN {} ELSE unread \cup (ToSet(inbox') \ known)
    /\ known \cup ToSet(inbox') \subseteq known'

LEMMA InitAInv == Init => AInv
BY InitType DEF AInv, MarksAreCurrent, Init

LEMMA SameMarks ==
  ASSUME MarksAreCurrent, UNCHANGED <<inbox, tab, message_pane, known, unread>>,
         phase' # "off" => phase # "off"
  PROVE  MarksAreCurrent' /\ NewsStep
BY DEF MarksAreCurrent, NewsStep, InboxShown

LEMMA RefreshedMarks ==
  ASSUME DashboardAssumption, TypeOK, TypeOK', Refresh
  PROVE  MarksAreCurrent' /\ NewsStep
<1>1. /\ known' = known \cup ToSet(inbox')
      /\ unread' = IF InboxShown' THEN {} ELSE unread \cup (ToSet(inbox') \ known)
  BY RefreshFacts, TypeParts, TypePartsNext
<1>2. QED
  BY <1>1 DEF MarksAreCurrent, NewsStep

\* Another tab or pane is shown.
LEMMA SyncedMarks ==
  ASSUME MarksAreCurrent, phase # "off", UNCHANGED <<inbox, known>>, SyncMessageAlerts(unread)
  PROVE  MarksAreCurrent' /\ NewsStep
BY DEF MarksAreCurrent, NewsStep, SyncMessageAlerts

LEMMA NextAInv == DashboardAssumption /\ AInv /\ [Next]_vars => AInv' /\ NewsStep
<1> SUFFICES ASSUME DashboardAssumption, AInv, [Next]_vars
             PROVE  AInv' /\ NewsStep
  OBVIOUS
<1>1. TypeOK /\ TypeOK' /\ MarksAreCurrent
  BY NextType DEF AInv
<1> SUFFICES MarksAreCurrent' /\ NewsStep
  BY <1>1 DEF AInv
<1> DEFINE Same == UNCHANGED <<inbox, tab, message_pane, known, unread>>
<1>2. CASE Daemon
  BY <1>1, <1>2, DaemonStep, SameMarks DEF snapshot, selection, alerts
<1>3. CASE Start
  BY <1>3 DEF Start, MarksAreCurrent, NewsStep
<1>4. ASSUME DrawSplash \/ NoKey \/ SkipSplash \/ Quit \/ UNCHANGED vars
      PROVE  MarksAreCurrent' /\ NewsStep
  BY <1>1, <1>4, SameMarks
  DEF DrawSplash, NoKey, SkipSplash, Quit, Turn, EndsTurn, vars, snapshot, selection, alerts
<1>5. NoRefresh => Same
  BY DEF NoRefresh, snapshot, selection, alerts
<1>6. CASE DrawDashboard
  BY <1>1, <1>5, <1>6, RefreshedMarks, SameMarks DEF DrawDashboard
<1>7. ASSUME (\E t \in Tab : SelectTab(t)) \/ ToggleMessagePane
      PROVE  MarksAreCurrent' /\ NewsStep
  BY <1>1, <1>7, SyncedMarks DEF SelectTab, ToggleMessagePane, Key, Turn, snapshot
<1>8. CASE RefreshKey
  BY <1>1, <1>8, RefreshedMarks DEF RefreshKey
<1>9. CASE MoveSelection
  BY <1>1, <1>9, SameMarks DEF MoveSelection, Key, Turn, snapshot, alerts
<1>10. CASE AcceptRequest
  BY <1>1, <1>5, <1>10, RefreshedMarks, SameMarks DEF AcceptRequest, Key, Turn
<1>11. ASSUME (\E kind \in {"filter", "topic", "text"} : OpenDialog(kind))
                \/ OpenPeerDialog \/ OpenDenyRequest
       PROVE  MarksAreCurrent' /\ NewsStep
  <2>1. Same /\ phase = "key"
    BY <1>11
    DEF OpenDialog, OpenPeerDialog, OpenDenyRequest, Open, Key, Turn, snapshot, selection, alerts
  <2>2. QED
    BY <1>1, <2>1, SameMarks
<1>12. ASSUME Escape \/ SubmitFilter \/ SubmitTopic
       PROVE  MarksAreCurrent' /\ NewsStep
  <2>1. Same /\ phase = "key"
    BY <1>12
    DEF Escape, SubmitFilter, SubmitTopic, DialogKey, Turn, snapshot, selection, alerts
  <2>2. QED
    BY <1>1, <2>1, SameMarks
<1>13. ASSUME SubmitCall \/ SubmitDeny
       PROVE  MarksAreCurrent' /\ NewsStep
  <2>1. phase = "key" /\ (Refresh \/ Same)
    BY <1>5, <1>13 DEF SubmitCall, SubmitDeny, DialogKey, Turn
  <2>2. QED
    BY <1>1, <2>1, RefreshedMarks, SameMarks
<1>14. QED
  BY <1>2, <1>3, <1>4, <1>6, <1>7, <1>8, <1>9, <1>10, <1>11, <1>12, <1>13
  DEF Next, Loop, Keys, Dialog

\* In every step the marks become exactly what turned up since the inbox was
\* last shown, whatever calls fail and whatever pages the daemon returns.
THEOREM MarksAreNews == Spec => AlertsAreNews
<1>1. DashboardAssumption /\ AInv /\ [Next]_vars => [NewsStep]_vars
  BY NextAInv
<1>2. AInv /\ [NewsStep]_vars => [phase # "off" =>
       /\ unread' = IF InboxShown' THEN {} ELSE unread \cup (ToSet(inbox') \ known)
       /\ known \cup ToSet(inbox') \subseteq known']_vars
  BY DEF NewsStep
<1>3. QED
  BY <1>1, <1>2, InitAInv, NextAInv, DashboardAssumption, PTL DEF Spec, AlertsAreNews
=============================================================================
