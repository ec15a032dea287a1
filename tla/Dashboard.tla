------------------------------ MODULE Dashboard ------------------------------
(***************************************************************************)
(* The terminal dashboard: one thread that draws a frame, waits for a key  *)
(* and handles it, over a snapshot of the daemon's lists that a refresh    *)
(* replaces.  Selections are positions in those lists, dialogs remember    *)
(* what was selected when they were opened, and the messages that were not *)
(* there before are marked until the inbox is shown.                       *)
(*                                                                         *)
(* The daemon changes its lists at any time, its calls may fail, and every *)
(* call of a snapshot may fail by itself.  Wording, layout and scrolling   *)
(* are left out, as are the positions in the message and action lists,     *)
(* which decide nothing but what is drawn.                                 *)
(***************************************************************************)
EXTENDS Naturals, SequencesExt

CONSTANTS
  Peer, Request, Message,  \* ids
  None,        \* nothing selected, no dialog, no filter
  InboxLimit, PendingLimit,  \* limits of the two calls (50)
  MaxChanges,  \* bound: changes of the daemon's lists
  MaxStarts    \* bound: times the operator starts the dashboard

ASSUME DashboardAssumption ==
  {InboxLimit, PendingLimit} \subseteq Nat \ {0} /\ {MaxChanges, MaxStarts} \subseteq Nat

\* TabPage; "peers" stands for Overview and Peers, where keys do the same, and
\* "other" for Topics, Help, which have no keys of their own, and Actions, where
\* Enter does what other keys do.
Tab == {"peers", "requests", "messages", "other"}

\* ModalKind: "filter", "topic" (the first dialog of a broadcast), "text"
\* (create, subscribe, the body of a broadcast), "peer" (grant, note, task)
\* and "deny"; target is what the last two captured.
Modal ==
  [kind: {"filter", "topic", "text"}, target: {None}]
    \cup [kind: {"peer"}, target: Peer] \cup [kind: {"deny"}, target: Request]

ASSUME NoneAssumption == None \notin Peer /\ None \notin Request /\ None \notin Modal

VARIABLES
  \* what the daemon answers
  directory,      \* list_peers, last seen first
  asks,           \* the pending delegate requests
  decided,        \* requests that are not pending any more
  mail,           \* all of the inbox
  \* the dashboard's snapshot
  peers, pending, inbox,
  \* the dashboard
  phase,          \* "off", or before "draw" or "key" of a turn of the loop
  splash,         \* the splash screen is on
  tab, message_pane, peer_index, request_index,
  peer_filter,    \* None, or the one peer the term matches
  modal,
  known, unread,  \* known_inbox_ids, unread_inbox_ids
  \* history
  seen,           \* requests a frame showed as the selected one
  posted,         \* requests it asked the daemon to accept or deny, and
                  \* whether the splash screen was on then
  changes, starts \* counters for the bounds

daemon == <<directory, asks, decided, mail>>
snapshot == <<peers, pending, inbox>>
selection == <<tab, message_pane, peer_index, request_index, peer_filter>>
alerts == <<known, unread>>
vars == <<daemon, snapshot, phase, splash, selection, modal, alerts, seen, posted,
          changes, starts>>

-----------------------------------------------------------------------------
\* Helpers

\* filtered_peers
Filtered(list, filter) ==
  IF filter = None THEN list ELSE IF Contains(list, filter) THEN <<filter>> ELSE <<>>

\* Vec::get, with positions from 0
Get(list, i) == IF i < Len(list) THEN list[i + 1] ELSE None

SelectedPeer == Get(Filtered(peers, peer_filter), peer_index)
SelectedRequest == Get(pending, request_index)

\* Fault: the position is kept.
Unclamped(i, list) == i

\* clamp_selection
Clamped(i, list) == IF list = <<>> THEN 0 ELSE IF i < Len(list) THEN i ELSE Len(list) - 1

InboxShown == tab = "messages" /\ message_pane = "inbox"

\* Fault: the marks stay when the inbox is shown.
NotSynced(ids) == unread' = ids

\* sync_message_alerts, once tab' and message_pane' are known.
SyncMessageAlerts(ids) == unread' = IF InboxShown' THEN {} ELSE ids

Page(list, limit) == IF Len(list) <= limit THEN list ELSE SubSeq(list, 1, limit)

\* DashboardClient::snapshot: a list whose call fails is empty.
Snapshot(ok) ==
  /\ peers' = IF "peers" \in ok THEN directory' ELSE <<>>
  /\ pending' = IF "pending" \in ok THEN Page(asks', PendingLimit) ELSE <<>>
  /\ inbox' = IF "inbox" \in ok THEN Page(mail', InboxLimit) ELSE <<>>

\* Fault: only the messages of the page count as known.
KnownPage(ids) == known' = ids

\* known_inbox_ids.extend
KnownToo(ids) == known' = known \cup ids

\* refresh; tab, pane and filter are the handler's.
Refresh ==
  \E ok \in SUBSET {"peers", "pending", "inbox"} :
    /\ UNCHANGED <<tab, message_pane, peer_filter>>
    /\ Snapshot(ok)
    /\ KnownToo(ToSet(inbox'))
    /\ peer_index' = Clamped(peer_index, Filtered(peers', peer_filter))
    /\ request_index' = Clamped(request_index, pending')
    /\ SyncMessageAlerts(unread \cup (ToSet(inbox') \ known))

NoRefresh == UNCHANGED <<snapshot, selection, alerts>>

-----------------------------------------------------------------------------
Init ==
  /\ directory = <<>> /\ asks = <<>> /\ mail = <<>> /\ decided = {}
  /\ peers = <<>> /\ pending = <<>> /\ inbox = <<>>
  /\ phase = "off" /\ splash = FALSE
  /\ tab = "peers" /\ message_pane = "inbox" /\ peer_index = 0 /\ request_index = 0
  /\ peer_filter = None /\ modal = None
  /\ known = {} /\ unread = {}
  /\ seen = {} /\ posted = {}
  /\ changes = 0 /\ starts = 0

-----------------------------------------------------------------------------
\* The daemon

Changes ==
  /\ changes < MaxChanges
  /\ changes' = changes + 1
  /\ UNCHANGED <<snapshot, phase, splash, selection, modal, alerts, seen, posted, starts>>

\* A message or a request is stored; the lists are ordered by the sender's
\* clock, so it may come anywhere.
MessageArrives(m) ==
  /\ Changes
  /\ ~Contains(mail, m)
  /\ \E i \in 1..Len(mail) + 1 : mail' = InsertAt(mail, i, m)
  /\ UNCHANGED <<directory, asks, decided>>

RequestArrives(r) ==
  /\ Changes
  /\ ~Contains(asks, r) /\ r \notin decided
  /\ \E i \in 1..Len(asks) + 1 : asks' = InsertAt(asks, i, r)
  /\ UNCHANGED <<directory, mail, decided>>

\* The daemon decides r; it refuses if r is not pending (any more).
Decide(r) ==
  /\ Contains(asks, r)
  /\ asks' = RemoveFirst(asks, r)
  /\ decided' = decided \cup {r}
  /\ UNCHANGED <<directory, mail>>

\* Somebody else decides a request.
RequestDecided(r) ==
  /\ Changes
  /\ Decide(r)

\* A peer is heard of, or ages beyond the visible window.
PeerSeen(p) ==
  /\ Changes
  /\ directory' = <<p>> \o RemoveFirst(directory, p)
  /\ UNCHANGED <<asks, mail, decided>>

PeerGone(p) ==
  /\ Changes
  /\ Contains(directory, p)
  /\ directory' = RemoveFirst(directory, p)
  /\ UNCHANGED <<asks, mail, decided>>

-----------------------------------------------------------------------------
\* The loop

\* DashboardApp::new: what is in the inbox already counts as known.
Start ==
  /\ phase = "off"
  /\ starts < MaxStarts
  /\ starts' = starts + 1
  /\ UNCHANGED <<daemon, seen, posted, changes>>
  /\ \E ok \in SUBSET {"peers", "pending", "inbox"} : Snapshot(ok)
  /\ phase' = "draw" /\ splash' = TRUE
  /\ tab' = "peers" /\ message_pane' = "inbox" /\ peer_index' = 0 /\ request_index' = 0
  /\ peer_filter' = None /\ modal' = None
  /\ known' = ToSet(inbox') /\ unread' = {}

\* Fault: the snapshot is refreshed under an open dialog.
DueAlways == TRUE

\* refresh every REFRESH_INTERVAL, unless a dialog is open
RefreshIsDue == modal = None

DrawSplash ==
  /\ phase = "draw"
  /\ splash
  /\ phase' = "key"
  /\ UNCHANGED <<daemon, snapshot, splash, selection, modal, alerts, seen, posted, changes, starts>>

\* The splash screen ends after a time; then a frame shows the tab.
DrawDashboard ==
  /\ phase = "draw"
  /\ phase' = "key" /\ splash' = FALSE
  /\ UNCHANGED <<daemon, modal, posted, changes, starts>>
  /\ (RefreshIsDue /\ Refresh) \/ NoRefresh
  /\ seen' = IF tab = "requests" /\ SelectedRequest' # None
             THEN seen \cup {SelectedRequest'} ELSE seen

\* Fault: the next key is read before a frame is drawn.
StaysAtKeys == phase' = phase

\* A key is handled, or none was pressed; the next turn draws.
EndsTurn == phase' = "draw"

Turn ==
  /\ phase = "key"
  /\ EndsTurn
  /\ UNCHANGED <<seen, changes, starts>>

NoKey == Turn /\ UNCHANGED <<daemon, snapshot, splash, selection, modal, alerts, posted>>

\* Enter or Space
SkipSplash ==
  /\ splash
  /\ splash' = FALSE
  /\ Turn
  /\ UNCHANGED <<daemon, snapshot, selection, modal, alerts, posted>>

-----------------------------------------------------------------------------
\* Keys without a dialog

Key == modal = None /\ Turn /\ UNCHANGED splash

\* select_tab
SelectTab(t) ==
  /\ Key
  /\ tab' = t
  /\ UNCHANGED <<message_pane, peer_index, request_index, peer_filter>>
  /\ SyncMessageAlerts(unread)
  /\ UNCHANGED <<daemon, snapshot, modal, known, posted>>

\* m, or the action of the same name
ToggleMessagePane ==
  /\ Key
  /\ message_pane' = IF message_pane = "inbox" THEN "outbox" ELSE "inbox"
  /\ UNCHANGED <<tab, peer_index, request_index, peer_filter>>
  /\ SyncMessageAlerts(unread)
  /\ UNCHANGED <<daemon, snapshot, modal, known, posted>>

\* r, or discover_now: the call to the daemon may fail, and then there is no
\* refresh.
RefreshKey ==
  /\ Key
  /\ UNCHANGED <<daemon, modal, posted>>
  /\ Refresh

\* Down and Up, which stop at the ends.
Moved(i, list) ==
  {IF i + 1 < Len(list) THEN i + 1 ELSE i, IF i > 0 THEN i - 1 ELSE 0}

MoveSelection ==
  /\ Key
  /\ IF tab = "requests"
     THEN /\ request_index' \in Moved(request_index, pending)
          /\ UNCHANGED peer_index
     ELSE /\ tab = "peers"
          /\ peer_index' \in Moved(peer_index, Filtered(peers, peer_filter))
          /\ UNCHANGED request_index
  /\ UNCHANGED <<daemon, snapshot, tab, message_pane, peer_filter, modal, alerts, posted>>

\* accept_request: a refresh if the daemon accepts.
AcceptRequest ==
  /\ Key
  /\ tab = "requests"
  /\ LET r == SelectedRequest
     IN  /\ r # None
         /\ posted' = posted \cup {[request |-> r, splash |-> splash]}
         /\ \/ Decide(r) /\ UNCHANGED modal /\ Refresh
            \/ UNCHANGED <<daemon, modal>> /\ NoRefresh

Open(m) ==
  /\ Key
  /\ modal' = m
  /\ UNCHANGED <<daemon, snapshot, selection, alerts, posted>>

\* The keys / c s b, and the actions of the same names.
OpenDialog(kind) == Open([kind |-> kind, target |-> None])

\* open_grant, open_note, open_summary_task
OpenPeerDialog == SelectedPeer # None /\ Open([kind |-> "peer", target |-> SelectedPeer])

OpenDenyRequest ==
  /\ tab = "requests"
  /\ SelectedRequest # None
  /\ Open([kind |-> "deny", target |-> SelectedRequest])

Quit ==
  /\ phase = "key"
  /\ modal = None
  /\ phase' = "off"
  /\ UNCHANGED <<daemon, snapshot, splash, selection, modal, alerts, seen, posted, changes, starts>>

-----------------------------------------------------------------------------
\* Keys of a dialog.  Enter during the splash screen only ends that (SkipSplash),
\* unless its time has run out since it was drawn.

DialogKey == modal # None /\ Turn /\ UNCHANGED splash

Escape ==
  /\ DialogKey
  /\ modal' = None
  /\ UNCHANGED <<daemon, snapshot, selection, alerts, posted>>

SubmitFilter ==
  /\ DialogKey
  /\ modal.kind = "filter"
  /\ peer_filter' \in Peer \cup {None}
  /\ peer_index' = 0
  /\ modal' = None
  /\ UNCHANGED <<daemon, snapshot, tab, message_pane, request_index, alerts, posted>>

\* The topic of a broadcast leads to the dialog for its body.
SubmitTopic ==
  /\ DialogKey
  /\ modal.kind = "topic"
  /\ modal' = [kind |-> "text", target |-> None]
  /\ UNCHANGED <<daemon, snapshot, selection, alerts, posted>>

\* subscribe, create_channel, broadcast, grant, send_payload: closed whatever
\* the daemon answers, refreshed if it agrees.
SubmitCall ==
  /\ DialogKey
  /\ modal.kind \in {"text", "peer"}
  /\ modal' = None
  /\ UNCHANGED <<daemon, posted>>
  /\ Refresh \/ NoRefresh

\* DenyRequest: the dialog stays open if the daemon refuses.
SubmitDeny ==
  /\ DialogKey
  /\ modal.kind = "deny"
  /\ LET r == modal.target
     IN  /\ posted' = posted \cup {[request |-> r, splash |-> splash]}
         /\ \/ Decide(r) /\ modal' = None /\ Refresh
            \/ UNCHANGED <<daemon, modal>> /\ NoRefresh

-----------------------------------------------------------------------------
Daemon ==
  \/ \E m \in Message : MessageArrives(m)
  \/ \E r \in Request : RequestArrives(r) \/ RequestDecided(r)
  \/ \E p \in Peer : PeerSeen(p) \/ PeerGone(p)

Loop == Start \/ DrawSplash \/ DrawDashboard \/ NoKey \/ SkipSplash \/ Quit

Keys ==
  \/ \E t \in Tab : SelectTab(t)
  \/ ToggleMessagePane
  \/ RefreshKey
  \/ MoveSelection
  \/ AcceptRequest
  \/ \E kind \in {"filter", "topic", "text"} : OpenDialog(kind)
  \/ OpenPeerDialog
  \/ OpenDenyRequest

Dialog == Escape \/ SubmitFilter \/ SubmitTopic \/ SubmitCall \/ SubmitDeny

Next == Daemon \/ Loop \/ Keys \/ Dialog

Spec == Init /\ [][Next]_vars

-----------------------------------------------------------------------------
\* Properties

IsPosition(i, list) == i \in Nat /\ (i < Len(list) \/ i = 0)

\* The variables have their types, and a position is one of its list, however
\* the list and the filter have changed.
TypeOK ==
  /\ directory \in Seq(Peer) /\ asks \in Seq(Request) /\ mail \in Seq(Message)
  /\ peers \in Seq(Peer) /\ pending \in Seq(Request) /\ inbox \in Seq(Message)
  /\ phase \in {"off", "draw", "key"} /\ splash \in BOOLEAN
  /\ tab \in Tab /\ message_pane \in {"inbox", "outbox"}
  /\ peer_filter \in Peer \cup {None} /\ modal \in Modal \cup {None}
  /\ IsPosition(peer_index, Filtered(peers, peer_filter))
  /\ IsPosition(request_index, pending)
  /\ known \subseteq Message /\ unread \subseteq known
  /\ seen \subseteq Request /\ decided \subseteq Request
  /\ posted \subseteq [request: Request, splash: BOOLEAN]
  /\ {changes, starts} \subseteq Nat

\* What a dialog was opened for is still what is selected behind it, so a
\* grant, a note or a denial goes to whom the frame shows: the lists change
\* only while no dialog is open (run refreshes only then).
DialogIsAboutSelection ==
  modal # None =>
    CASE modal.kind = "peer" -> modal.target = SelectedPeer
      [] modal.kind = "deny" -> modal.target = SelectedRequest
      [] OTHER -> TRUE

\* No request is decided that no frame showed as the selected one, although a
\* refresh may put another request under the selection at every turn and after
\* every decision; except by keys pressed while the splash screen is on.
SeenBeforeDecided ==
  \A p \in posted : p.splash \/ p.request \in seen

\* The marks are exactly the messages that turned up since the inbox was last
\* shown: none is marked twice, also if calls fail or it leaves the page and
\* comes back, none loses its mark before the inbox is shown, and showing the
\* inbox in any way, by tab, pane or refresh, clears them.
AlertsAreNews ==
  [][phase # "off" =>
       /\ unread' = IF InboxShown' THEN {} ELSE unread \cup (ToSet(inbox') \ known)
       /\ known \cup ToSet(inbox') \subseteq known']_vars
=============================================================================
