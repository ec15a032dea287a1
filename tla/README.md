# Verification of WildMesh

TLA+ models of the WildMesh daemon (`src/src/*.rs`), the TLC configurations that
check them on small instances, and TLAPS proofs of what matters most for every
instance. Line numbers below are of files under `src/src/` unless a path is given.
`PROJECT.json` maps every definition to the lines it stands for, lists the hazards
of the code and the properties that watch them, and names every run and theorem.

To check a module: `tlc -workers 2 -config MCX_y.cfg MCX`. To check the proofs of
one: `tlapm X_proofs.tla`.

## 1. The system and its parts

A WildMesh *home* is a directory with a config file, a SQLite database, a
transport key and an artifact spool. One *daemon* runs on a home. It has a local
HTTP API for its operator and agents (`api.rs`, `service.rs`) and one task, the
*swarm loop* (`swarm.rs`, `run_swarm_loop`), that owns the libp2p swarm. The API
writes to the database directly and talks to the loop through a bounded command
channel (`mpsc::channel(128)`), with a oneshot where it waits for an answer. The
loop takes one item at a time (`tokio::select!`): a timer, a command, or a swarm
event. Its handlers await SQLite and the executor, so HTTP calls, other daemons
and a crash fall between their steps.

| component | state | operations | hard behaviour | correct when |
|---|---|---|---|---|
| Directed messages and delegated work (`swarm.rs`, `storage.rs`, `service.rs`) | messages, grants, peers (SQLite); command channel, `pending_sends`, handler in progress (memory) | send, receive, acknowledge, execute, approve, deny, grant, revoke, queued result | receipts against crashes; repeated requests; decisions against automatic execution; a result that is only in memory | receipts are honest, what names a capability runs only if it was granted, one answer per request, callers are answered |
| Channels and profiles (`service.rs` 281-350, `swarm.rs` 1059-1207, `storage.rs`) | channels, subscriptions, peer topics (SQLite); profiles in flight | create_channel, subscribe, profile out and in, broadcast | `create_channel` awaits between its queries; profiles overtake each other; a restart | registries tell the truth, owners keep channels, names spread |
| Artifact spool (`artifact.rs`, `service.rs` 393-456, `swarm.rs` 1583-1690) | blob and manifest files, offers | offer, fetch, payload, store | four file writes of a store; the loop sends to itself | damage stays where it is, copies were offered or admitted, fetches are served |
| Configuration and daemon lifecycle (`cli.rs`, `config.rs`, `service.rs` 101-128) | config.json, identity row, processes, ports, launch agent | setup, set-profile, cooperate, run, run --detach, launchctl | separate processes that stop and start each other | settings are not undone, healthy nodes are spared, a dead one comes back |
| Peer directory (`storage.rs` 215-288, `service.rs` 613-637) | peers table | add_peer, upsert from profile, windows | two writers of a row | a row is one writer's, and the last profile wins in the end |
| Reachability (`swarm.rs` 289-328, 855-1031, 1240-1400) | NAT status, address lists, public address | AutoNAT, UPnP, listen and external address events | lists and public address change in two critical sections; profiles with old addresses | the public address is in a list; peers end with an address that is advertised |
| Executor (`executor.rs`) | none | one call to a model server | timeout of 25 s against 10 s of the transport | an outcome for every run |
| Sealing and signatures (`crypto.rs`) | none | sign, seal, open, verify | none (pure) | what is accepted is what was sent |
| Dashboard (`dashboard.rs`) | snapshot, selection, known and unread sets, dialog | keys, refresh, forms | a refresh reorders what an index refers to; calls fail one by one | an action hits what was selected and shown; marks are news |
| Hub registry, relay queue (`storage.rs` 676-824) | two tables | publish, list, enqueue, pull, acknowledge | no daemon code calls them any more | at-least-once |
| Payment identity, Python client, Hermes plugin, installer | none | read a file, one HTTP call each | none | not modelled |

Interaction. The API calls the loop by commands; the loop calls storage, the
spool and the executor; daemons meet over `request_response` (directed envelopes
and profile requests) and gossipsub (profiles and broadcasts); the command line
meets daemons over HTTP, signals, the launch agent and the config file.

## 2. Modules

| module | models | proofs |
|---|---|---|
| `Delegation` (`MCDelegation`) | directed envelopes and delegated work | `Delegation_proofs` |
| `Channels` (`MCChannels`) | channels, memberships, profiles, broadcasts | `Channels_proofs` |
| `DelegatedWork` | what a worker promises of a request: one admission or hold, one decision, one answer; `Delegation` implements it | `DelegatedWork_proofs` |
| `Registry` | what the channel tables promise together: an abstract book of names, which `Channels` implements | in `Channels_proofs` |
| `Artifacts` (`MCArtifacts`) | the spool and the loop's command to itself | `Artifacts_proofs` |
| `Lifecycle` (`MCLifecycle`) | the processes of one home | `Lifecycle_proofs` |
| `Reachability` (`MCReachability`) | a daemon's addresses and the rows its peers keep | `Reachability_proofs` |
| `Dashboard` (`MCDashboard`) | the terminal dashboard over lists that change | `Dashboard_proofs` |
| `ListFacts` | | lemmas on sequences for the last two |

The `MC` modules only give the constants that a configuration cannot write (sets
of records and pairs). Operators that a comment calls a *fault* are wrong variants of
the definition that follows; no specification uses them, they show that a property
notices the mistake.

### Delegation

* `env` is what was built under each message id and `wire` what is in flight. `row`,
  `grants` and `peers` are the tables messages, capability_grants and peers. `queue` is
  the command channel, `pending` is `pending_sends`, `known` is
  `known_transport_by_app`, `mode` the executor mode, `waiting` the HTTP callers with an
  open oneshot, and `loop` the handler in progress and how far it is. `ran` and
  `trusted` are history, and so is `failed`, which has the callers that still wait although
  the transport gave their request up.
* `LocalApi` has the HTTP calls (`SendMessage`, `Decide`, `GrantCapability`,
  `RevokeCapability`, `AddPeer`), `HandleCommand` the commands of the loop
  (`SendEnvelope`, `SendLocalMessage`, `Approve`, `Deny`), `SwarmEvent` the events
  (`ReceiveRequest`, `ReceiveAck`, `ReceiveAgain` for an envelope that comes again,
  `LearnProfile`), and `Resume` the handler that goes on after an await (save, execute,
  queue the result, record the decision). `Crash` loses channel, pending sends, handler
  and callers; the tables stay.
* `DelegatedWork` knows only requests. The refinement mapping takes its `status` from
  the worker's row, its `running` from the handlers that execute (an approved request
  runs until its decision is recorded), its `ran` from the history and its `answers`
  from the results that were built. A request is answered only while nothing runs it
  and by what became of it, although the result is queued before the decision is
  recorded and built later by another handler. It is checked with storage that does
  not fail: when recording the decision fails, the result is on its way and the request
  is still pending.
* The policy reads the capability the *sender* wrote into the envelope; one that names
  none needs no grant (`HasGrant`, storage.rs:498). `ExecutionIsAuthorized` says what is
  left of authority then, `GrantIsHeld` what the documentation promises; the second is
  refuted (section 3).
* Left out: what a message says, broadcast kinds (in `Channels`), artifact kinds
  (in `Artifacts`), and capability names other than the default one.

### Channels

* `channels`, `subs` and `links` are the tables channels, subscriptions and
  peer_topics; `fresh` the peers in the visible window; `joined` the gossipsub
  subscriptions; `profiles` and `chatter` what is in flight; `loop` the profile that is
  being stored (three statements); `call` the HTTP calls between their awaits.
* A profile is built from the tables at one moment (`local_profile_record`) and may
  arrive at any later one, after newer ones too: profiles come by gossip and by
  direct request.
* `Registry` knows only tables. A daemon claims a name that is free for it, or hears
  in one step of names that their owner holds at that moment. The refinement mapping
  is the table itself (`owner <- channels`); what has to be shown is that a profile
  that was built long ago, overtaken and stored by three statements still says
  nothing but what its sender holds now.

### Artifacts

* `blob` and `manifest` are the files of each spool; content is `"whole"` or
  `"torn"`, and a digest is told by the content it is of. A store truncates the blob,
  fills it, truncates the manifest, fills it; a crash or a failed write may come after
  each. `outbox` and `inbox` are the rows the checks read, `task` is `offer_artifact`,
  `loop` the handler, `mailbox` the command channel, `sent` the network.
* A fetch and a payload carry the label their sender chose or none, and the recipient
  asks for a grant of that label only (`HasGrant`, `ReceiveFetch`, `Storable`). Fetches
  come from `fetch_artifact` (with a label) and from the general send (any label, or
  none), payloads from `maybe_reply_with_artifact` and from the general send
  (`PushPayload`). A reply is dropped when the peers table has no row of the fetcher or
  cannot be read (`HandleCommand`, `LookupFails`), a message of the operator's when the
  loop knows no transport of the peer.
* What was sent is delivered; loss is in `Delegation`. Commands of other kinds take places
  in the channel just as offers, fetches and payloads do. `list_artifacts` is not modelled.

### Lifecycle

* `config` is the set of commands whose settings the file has, or `Torn` (truncated),
  or `None`; `identity` the row; `daemon` the processes of the home with their
  progress through `bootstrap` and their worker; `agent` whether the launch agent is
  loaded; `cmd` the commands.
* A signal takes effect at once, and the operator runs one command at a time;
  daemons of earlier commands may still be starting. The mesh port is held by the
  first worker that listens (the QUIC listener), the control port by the first daemon
  that binds it; these are two different steps.
* `pgrep` is taken to find the daemons; `init`, the choice of ports and
  `transport-keypair.json` are left out.

### Reachability

* `nat`, `public`, `listens`, `external` and `mapped` are `ReachabilityRuntime`, which
  HTTP handlers read under its lock; `loop` is the address of an AutoNAT event between
  `set_nat_status` and `record_external_addr`, two critical sections. `profiles` is in
  flight, `row` what each observer has in its peers table, `advertised` is history.
* An address is a model value; `Endpoint` gives its host and port, so that a TCP and a
  QUIC address may lead to the same row. A row has its place, who wrote it, whether it
  is labelled, and its age.
* libp2p reports events in any order and number (`MaxEvents`). `Restart` loses the
  structure and keeps the rows.

### Dashboard

* `directory`, `asks`, `decided` and `mail` are what the daemon would answer; `peers`,
  `pending` and `inbox` the snapshot; `phase` and `splash` where the loop is; the rest
  is `DashboardApp` under its names. `seen` and `posted` are history.
* A turn draws a frame, then handles a key or none. A refresh is part of the handler
  that calls it. Every call of a snapshot may fail by itself, and a list whose call
  failed is empty (`unwrap_or_default`); `snapshot()` therefore never returns `Err`, and
  the branch of `refresh` that keeps the last known state is dead code.
* Left out: rendering, toasts, what is typed, the positions in the message and action
  lists. Overview and Peers are one tab, as are Topics, Actions and Help, in which the
  modelled keys do the same.

## 3. Runs

Runs that pass:

| run | instance | shows |
|---|---|---|
| `delegation_safety` | two daemons, three messages, three decisions, one crash, loss and repetition, channel of 2 | a receipt implies a stored message; automatic runs that name a capability were granted it and never follow a denial; results are solicited and not blocked; one answer, which matches the decision; statuses move forward; the whole implements `DelegatedWork` |
| `delegation_storage` | any write may fail, any request be lost, one crash, any executor mode, requests without a capability and requests that cannot be read, fair | receipts under storage faults; runs that name a capability were granted it; every caller is answered unless the transport gave its request up |
| `channels_claims` | three daemons in a line, two profiles per link, two calls, one crash | registries and memberships are true; "already there" means own and joined; owners keep channels; the tables implement `Registry` |
| `channels_spread` | two daemons, one call, one broadcast, a peer that expires, one crash, fair | only subscribers and interested daemons store a broadcast; a channel becomes known |
| `artifacts_spool` | three daemons in a chain, a small and a too large file, two of five kinds of fetch (granted, without a grant, without a label), a payload nobody asked for, one crash or failed write, read or lookup, fair | damage stays local; every copy was offered, admitted by its holder or by its owner; an offer means files; while nothing fails an admitted fetch is served, also behind one of the large file, which gets no answer |
| `lifecycle_repair` | two setups and a detached start in any order, on a new or a running home, three daemons, one fault, fair | setup takes effect; a healthy daemon is not stopped; one identity; a stopped node serves again |
| `reachability_rows` | a daemon and a peer, three addresses (public, network, loopback), three events, an add_peer, a restart, two profiles in flight, fair | the public address is an external one and there is one whenever any is known; no row mixes its two writers; every row ends with an advertised place, on a loopback host only if there is no other |
| `dashboard_keys` | two peers, two requests, two messages and an inbox page of one, three changes at the daemon | positions stay in their lists; dialogs stay about what is selected; nothing is decided unseen; marks are the news |

Runs that TLC refutes, each against a sentence of the documentation:

| run | the code | the documentation |
|---|---|---|
| `delegation_answer` | a result exists only in the command channel between the record of the decision and the loop; a crash there loses it for good | `README.md`: decided requests return a `delegate_result` |
| `delegation_grants` | a `delegate_request` that names no capability is executed by an auto-cooperating daemon that granted nothing (`has_grant(None)`, storage.rs:498) | `README.md`: in auto-cooperate the "remote peer must still hold the relevant capability grant" |
| `channels_created` | `create_channel` answers `created` although the upsert left another owner's row | channel names are reserved on creation |
| `artifacts_full` | the loop awaits room in the full channel that only it empties | `README.md`: artifact fetches are handled automatically |

The exact quotations are in `PROJECT.json`, `findings`. More facts that the
models show when a constant or a condition is changed: `CallIsAnswered` without its
exception (`failed`) fails, because the loop ignores `OutboundFailure` (swarm.rs:1032) and
the caller of a lost request waits without a limit; and `SetupTakesEffect` without its condition
`SettledBefore` fails, because a daemon that is still starting when setup runs writes
the old config between setup's first write and its stop, and the launch agent's next
daemon loads it. A restarted daemon announces the subscriptions it has stored, but
joins only the interests of its configuration (swarm.rs:487), so `t \in subs[n] =>
t \in joined[n]` is not an invariant of `Channels`. `SeenBeforeDecided` fails without its
exception: keys work while the splash screen is on, so that `4` and `a` accept a
request no frame has shown.

### Bounds, and why they are enough

Every bound is a constant named `Max...` (or a `Capacity`) and is a guard of the
environment's actions, not of the code's.

* Two daemons are enough where a property is about a sender and a receiver;
  claims and copies that travel need a third, which never meets the first.
* Three messages are a request, its answer, and one that competes; where nothing comes
  twice (`delegation_storage`), a request and its answer are all there are. Two slots of
  the command channel let it be empty, in between and full.
* Two fetches are one of the first copy and one of the second, or one behind another; a
  channel of four never fills in `artifacts_spool`, one of one does in `artifacts_full`.
* One crash comes between any two steps of a handler; a second one meets the same
  tables, because only tables survive.
* Three decisions are an approval that fails, one that is retried and a denial.
* Two profiles in flight on a link are what overtaking takes.
* Three events about three addresses add two, let one expire and change the NAT status
  in between; one observer is enough, because observers do not talk about the daemon.
  Two profiles in flight overtake each other.
* Three changes at the daemon put a request before the selected one, replace it, and
  bring a message to a full page (of one); a second start only forgets what the first
  one knew. No bound is on the keys.
* Three daemons of a home are one of the launch agent, setup's own and a detached
  one: no sequence of the commands has more.

Symmetry is used for message ids only, in a run without liveness.

### Fairness, and why the code justifies it

* A handler that waits for storage or the executor goes on (weak fairness): SQLite
  answers or fails, the executor has a timeout.
* Commands and swarm events are handled under strong fairness: `select!` picks at
  random among the branches that are ready, and each becomes ready again after any
  other handler; an HTTP call goes on whenever the runtime polls it.
* Profiles: the loop announces them on a timer and peers ask for them on every
  connection and discovery pulse, so an exchange on a link is tried for ever; strong
  fairness says that not all are lost.
* In `Reachability` the loop finishes the event it handles and announces on its timer
  (weak fairness), and not every profile to a peer is lost (strong fairness). Events,
  restarts and operators need not come; the properties are about what holds once they
  stop.
* A daemon that died is started again (`KeepAlive`), weakly fair.
* In `Lifecycle` each process is scheduled (weak fairness) and launchd keeps its
  agent alive. No operator has to run a command, decide, fetch or send; nothing has to
  fail or crash.

## 4. Proofs

TLAPS proves, for all values of the constants that meet the named assumptions:

* `Delegation_proofs`: `TypeCorrect`, `ReceiptsAreHonest`. Invariant: `TypeOK`,
  `RefersToBuilt` (ids in channels, on the wire and in handlers are of envelopes that
  were built; without it nothing is known of what an id stands for) and
  `HandlerIsInbound` (a handler past its duplicate check is about a message to its own
  node). For receipts `AckIsHonest` is added: a positive acknowledgement in flight is
  about a stored message, which is why a sender may believe it whenever it arrives. The
  module also proves `ChannelSound` for the next one: what waits in a channel is its own
  node's and not stored yet, and a pending send is about a row that is still queued.
* `DelegatedWork_proofs`: eight theorems about requests, one of them the refinement. An inbound
  row and a handler belong to one node, so `StepEffect` first reduces every step to one
  of a few effects at one node (nothing inbound, a result leaves the channel, a handler
  starts, goes on, ends); the rest is shown effect by effect.
  * `ExecutionsAreAuthorized`, `ResultsAreSolicited`, `DeniedNeverRuns`, `StatusesAreFinal`
    hold whether or not storage fails. Invariant `RequestsSound`: each handler and each
    inbound row is at a place that the grants (now or earlier), the executor mode and
    the history of runs allow, and what ran was a request that was built.
  * `AnswersAreNotBlocked`, `AnswersAreUnique`, `AnswersMatchDecisions` and
    `DelegationImplementsDelegatedWork` assume `~StorageFails`. Invariant `AnswersInv`:
    every result that is queued, in flight or stored is warranted by the handler that
    is about to record it or by the settled row, there is at most one per request, and
    its requester still has the row of the request. The assumption is needed: with
    `StorageFails = TRUE` in `MCDelegation_safety.cfg` TLC violates all four. A decision
    whose write fails leaves the request pending behind its result, and it can be decided
    and answered again; a request whose row was not saved at its sender is answered all
    the same, and the answer is unsolicited there.
* `Channels_proofs`: `TypeCorrect`, `ClaimsAreTrue`, `LinksAreTrue`,
  `OwnersKeepTheirChannels`, `ChannelsImplementRegistry`, `BroadcastsAreForMembers`,
  `ReusedAreOwn`. Invariant: `ProfilesAreTrue`, that is, every profile in flight or half stored is still so. It is inductive because a daemon gives up neither
  a channel nor a membership (`Kept`), so profiles may be reordered and delayed at will.
  The refinement follows from it: only `StoreChannel` and `ReplaceChannels` change the
  tables, the first is a `Claim` or a stutter, the second a `Hear` of names that, by
  `ProfilesAreTrue`, their owner still holds. `MemberInv` (gossipsub has joined only what
  was subscribed or listed, the direct fallback goes to subscribers) and `CallsAreSound`
  (what a call saw before an await, or did, is still so after it) rest on `Kept` too.
* `Artifacts_proofs`: `TypeCorrect`, `DamageStaysLocal`, `CopiesAreAdmitted`,
  `OfferedArtifactsAreHeld`. Invariant: what is queued or in flight has a row in its
  sender's outbox, a payload gives the digest of the whole file, and one that answers a
  fetch does so by a label its sender admits and from a spool with the file
  (`PayloadsAreSound`); a store only ever starts from whole bytes that may come in
  (`StoresAreSound`). Rows stay, and blobs are truncated, never removed.
  For offers `OfferInv`: a store past a write has that file (`FilesFollow`), without faults
  a file is incomplete only between the truncation and the write of a store in progress
  (`DamageIsPassing`), and an offer that is queued, in flight or received comes from a
  daemon with both files (`OffersAreBacked`).
* `Lifecycle_proofs`: `TypeCorrect`, `IdentityIsPermanent`,
  `DetachIsGentle`, `SetupsTakeEffect`. `DetachIsGentle` needs that one command runs at a time (`OneCommand`) and
  that at its stop `run --detach` faces daemons that serve with dead workers only
  (`StopsTheDead`): they keep the control port, so no healthy daemon can take their
  place. `SetupsTakeEffect` follows setup through its stages (`SetupInv`): until its stop
  only daemons that have long been serving run, and those write no config (`OldServes`);
  from the stop on, whatever can be read or is about to be written has setup's settings
  (`Settled`); what starts after the stop runs with them (`RunsWith`).
* `Reachability_proofs`: `TypeCorrect` (with it, that no list has an address twice, which
  is what `retain` and `push_unique` amount to), `PublicIsAlwaysListed`,
  `RowsHaveOneSource`. The last needs that every profile in flight says one of the places
  that were advertised.
* `Dashboard_proofs`: `TypeCorrect`, `DialogsAreAboutTheSelection`, `DecisionsAreSeen`,
  `MarksAreNews`. Invariant: the denial dialog stays on the Requests tab
  (`DenialIsOnItsTab`); when a key is handled, the last frame has shown what is selected
  (`FrameIsCurrent`); while the dashboard runs, its inbox is known and nothing is marked
  while it is shown (`MarksAreCurrent`). The second is not implied by the property: it
  says why handling one key per frame matters.
* `ListFacts` has what both need of `RemoveFirst` and `InsertAt`: that they stay in the type,
  and that removing from a list without duplicates removes exactly the one.

The assumptions (`...Assumption`) only say that constants have their types, that
`None` is nothing else, that pairs relate different daemons, and that a home has room for
at least one daemon process; TLC evaluates them in every run.

Every safety and action property and both refinements that a passing run checks are thus
stated by a theorem. Only model-checked: liveness (`CallIsAnswered`, `ChannelSpreads`,
`FetchIsServed`, `RepairWorks`, `RowsConverge`), because it rests on fairness and `ENABLED`,
which are out of the prover's reach. So are the four refuted claims: they are about single
instances and need no proof.

## 5. Not modelled

* Cryptography, payload bytes, text: what is accepted is taken to be what was sent.
* Kademlia, identify and dialling: they lead to connections and profile requests,
  which the modules take as possible at any time.
* Time. A timeout is a step that may always come; windows are sets that a peer may
  leave.
* Payment identity, the Python client, adapters and plugin, the installer: no state
  of their own. Read-only commands and the rendering of the dashboard.
* The relay queue and the hub registry (`storage.rs` 676-824): no code of the daemon
  calls them any more.
* `list_artifacts`, which only reads the manifests.

## 6. Plan

Done: `Delegation` with `DelegatedWork`, `Channels` with `Registry`, `Artifacts`, `Lifecycle`, `Reachability`
with the peer rows, `Dashboard`, in the order of how much a mistake would cost.

Every safety property and refinement listed in section 3 is proved.

Next, in this order:

1. An artifact store without partial writes that `Artifacts` implements as long as nothing
   fails, with its proof.
2. `list_artifacts` as an action of `Artifacts`; pure algorithms (`truncate`, default ports)
   against reference definitions over bounded inputs.
3. Relay queue and hub registry.
