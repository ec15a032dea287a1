----------------------------- MODULE Lifecycle ------------------------------
(***************************************************************************)
(* One node home: the commands that set it up and start its daemon, the    *)
(* launch agent that keeps a daemon running, and the daemons themselves.   *)
(*                                                                         *)
(* They are separate processes that share config.json, the identity row of *)
(* the database and the control port.  Every daemon writes the config it   *)
(* loaded back when it starts; fs::write truncates first.  Commands find   *)
(* daemons by their command line and end them with a signal, which takes   *)
(* effect at once.  The operator runs one command at a time; daemons that  *)
(* an earlier command started may still be on their way.                   *)
(***************************************************************************)
EXTENDS FiniteSets, Naturals

CONSTANTS
  Daemon,     \* slots for daemon processes of this home
  Setup,      \* calls of wildmesh setup
  Launching,  \* those with the launch agent (on macOS)
  Detach,     \* calls of wildmesh run --detach
  Edit,       \* calls of wildmesh set-profile and wildmesh cooperate
  None,       \* no file, no row, no process
  Torn,       \* a config file that does not parse
  Old,        \* the identity of a home that was set up before
  MaxFaults   \* bound: mesh workers that fail, calls of launchctl that fail

Editor == Setup \cup Edit
Command == Editor \cup Detach

\* Identities are told apart by the process that generated them.
Identity == Daemon \cup Command \cup {Old}

\* A config is told by the commands whose settings it has.
Config == SUBSET Editor

\* A daemon: how far it is, the config it loaded, its identity, its mesh
\* worker, whether the launch agent started it.
Process ==
  [at: {"load", "truncate", "fill", "identity", "insert", "bind", "serve"},
   cfg: Config, ident: Identity \cup {None},
   worker: {"none", "starting", "live", "dead"}, agent: BOOLEAN]

\* A command: how far it is, the config it is to write.
Progress ==
  [at: {"idle", "load", "truncate", "fill", "check", "stop", "again", "refill", "identity",
        "insert", "bootout", "bootstrap", "kickstart", "await", "spawn", "wait", "done"},
   cfg: Config]

ASSUME LifecycleAssumption ==
  /\ Daemon # {}
  /\ Launching \subseteq Setup
  /\ Setup \cap Edit = {} /\ Setup \cap Detach = {} /\ Edit \cap Detach = {}
  /\ None # Torn
  /\ None \notin Identity
  /\ \A written \in Config : written # None /\ written # Torn
  /\ \A process \in Process : process # None
  /\ MaxFaults \in Nat

VARIABLES
  config,    \* config.json
  identity,  \* the identity table
  daemon,    \* the daemon processes
  agent,     \* is the launch agent loaded?
  cmd,       \* the commands
  faults     \* counter for the bound

vars == <<config, identity, daemon, agent, cmd, faults>>

-----------------------------------------------------------------------------
\* Helpers

At(c, where) == cmd[c].at = where
GoTo(c, where) == cmd' = [cmd EXCEPT ![c].at = where]

Running == {d \in Daemon : daemon[d] # None}

\* The slot the next process gets.
Free == CHOOSE d \in Daemon : d \notin Running
CanRun == Running # Daemon

Serving == {d \in Running : daemon[d].at = "serve"}

\* fetch_daemon_status and mesh_worker_alive, which is true until the worker
\* has ended.
Healthy == \E d \in Serving : daemon[d].worker # "dead"

\* A daemon that was just started (by the launch agent, or detached).
Started(byAgent) ==
  [at |-> "load", cfg |-> {}, ident |-> None, worker |-> "none", agent |-> byAgent]

\* load_or_create, for a file that parses; one that is absent is written with
\* the defaults that are persisted again later.
Loaded == IF config = None THEN {} ELSE config

\* Fault: the pattern matches no daemon.
NoneStopped == daemon

\* stop_daemon_for_home: every daemon with this home on its command line.
Stopped == [d \in Daemon |-> None]

\* The daemons without the one the launch agent started (launchctl).
AgentStopped ==
  [d \in Daemon |-> IF daemon[d] # None /\ daemon[d].agent THEN None ELSE daemon[d]]

\* Fault: INSERT OR REPLACE
Replaced(own) == own

\* ensure_identity: INSERT OR IGNORE
Ensured(own) == IF identity = None THEN own ELSE identity

\* Setup goes on to what install_launch_agent does, or ends.
AfterIdentity(c) == IF c \in Launching THEN "bootout" ELSE "done"

AfterWrite(c) ==
  CASE c \in Edit -> "done"
    [] c \in Detach -> "check"
    [] c \in Launching -> "stop"
    [] OTHER -> "again"

-----------------------------------------------------------------------------
\* A home that is not there yet, or one with a daemon that serves.

Init ==
  /\ cmd = [c \in Command |-> [at |-> "idle", cfg |-> {}]]
  /\ faults = 0
  /\ \/ /\ config = None /\ identity = None /\ agent = FALSE
        /\ daemon = [d \in Daemon |-> None]
     \/ /\ config = {} /\ identity = Old /\ agent \in BOOLEAN
        /\ \E worker \in {"live", "dead"} :
             daemon = [e \in Daemon |->
               IF e = (CHOOSE d \in Daemon : TRUE)
               THEN [at |-> "serve", cfg |-> {}, ident |-> Old, worker |-> worker,
                     agent |-> agent]
               ELSE None]

-----------------------------------------------------------------------------
\* A daemon: MeshService::bootstrap and api::serve

DaemonLoads(d) ==
  /\ d \in Running /\ daemon[d].at = "load"
  /\ daemon' = [daemon EXCEPT ![d] =
       IF config = Torn THEN None ELSE [@ EXCEPT !.at = "truncate", !.cfg = Loaded]]
  /\ UNCHANGED <<config, identity, agent, cmd, faults>>

DaemonTruncates(d) ==
  /\ d \in Running /\ daemon[d].at = "truncate"
  /\ config' = Torn
  /\ daemon' = [daemon EXCEPT ![d].at = "fill"]
  /\ UNCHANGED <<identity, agent, cmd, faults>>

DaemonFills(d) ==
  /\ d \in Running /\ daemon[d].at = "fill"
  /\ config' = daemon[d].cfg
  /\ daemon' = [daemon EXCEPT ![d].at = "identity"]
  /\ UNCHANGED <<identity, agent, cmd, faults>>

\* Fault: a daemon that finds no identity goes on without one.
DaemonSkipsIdentity(d) ==
  /\ d \in Running /\ daemon[d].at = "identity"
  /\ daemon' = [daemon EXCEPT ![d].at = "bind", ![d].ident = identity, ![d].worker = "starting"]
  /\ UNCHANGED <<config, identity, agent, cmd, faults>>

\* load_identity; a daemon that finds none generates one.  With the identity it
\* starts its mesh worker, a task of its own (spawn_swarm).
DaemonIdentifies(d) ==
  /\ d \in Running /\ daemon[d].at = "identity"
  /\ daemon' = [daemon EXCEPT ![d] =
       IF identity = None THEN [@ EXCEPT !.at = "insert", !.ident = d]
       ELSE [@ EXCEPT !.at = "bind", !.ident = identity, !.worker = "starting"]]
  /\ UNCHANGED <<config, identity, agent, cmd, faults>>

DaemonInserts(d) ==
  /\ d \in Running /\ daemon[d].at = "insert"
  /\ identity' = Ensured(daemon[d].ident)
  /\ daemon' = [daemon EXCEPT ![d].at = "bind", ![d].worker = "starting"]
  /\ UNCHANGED <<config, agent, cmd, faults>>

\* Is the mesh port free?  The operating system gives it to one process.
PortIsFree(d) == \A e \in Running \ {d} : daemon[e].worker # "live"

\* run_swarm_loop listens on the mesh port, or ends for good.
WorkerListens(d) ==
  /\ d \in Running /\ daemon[d].worker = "starting"
  /\ daemon' = [daemon EXCEPT ![d].worker = IF PortIsFree(d) THEN "live" ELSE "dead"]
  /\ UNCHANGED <<config, identity, agent, cmd, faults>>

\* It may also end for another reason before its loop begins.
WorkerFails(d) ==
  /\ faults < MaxFaults
  /\ d \in Running /\ daemon[d].worker = "starting"
  /\ daemon' = [daemon EXCEPT ![d].worker = "dead"]
  /\ faults' = faults + 1
  /\ UNCHANGED <<config, identity, agent, cmd>>

\* api::serve: a daemon that finds the control port taken ends.
DaemonBinds(d) ==
  /\ d \in Running /\ daemon[d].at = "bind"
  /\ daemon' = [daemon EXCEPT ![d] = IF Serving = {} THEN [@ EXCEPT !.at = "serve"] ELSE None]
  /\ UNCHANGED <<config, identity, agent, cmd, faults>>

\* The launch agent starts its daemon again when it ends (KeepAlive).
KeepAlive ==
  /\ agent /\ CanRun
  /\ \A e \in Running : ~daemon[e].agent
  /\ daemon' = [daemon EXCEPT ![Free] = Started(TRUE)]
  /\ UNCHANGED <<config, identity, agent, cmd, faults>>

-----------------------------------------------------------------------------
\* The commands

\* The operator runs one command at a time.
Begin(c) ==
  /\ At(c, "idle")
  /\ \A e \in Command : cmd[e].at \in {"idle", "done"}
  /\ GoTo(c, "load")
  /\ UNCHANGED <<config, identity, daemon, agent, faults>>

\* load_or_create; setup, set-profile and cooperate add their settings, and
\* run --detach writes the file only if there is none.
Load(c) ==
  /\ At(c, "load")
  /\ cmd' = [cmd EXCEPT ![c] =
       IF config = Torn THEN [@ EXCEPT !.at = "done"]
       ELSE [@ EXCEPT !.at = IF c \in Detach /\ config # None THEN "check" ELSE "truncate",
                      !.cfg = Loaded \cup ({c} \cap Editor)]]
  /\ UNCHANGED <<config, identity, daemon, agent, faults>>

\* persist
Truncate(c) ==
  /\ At(c, "truncate") /\ GoTo(c, "fill")
  /\ config' = Torn
  /\ UNCHANGED <<identity, daemon, agent, faults>>

Fill(c) ==
  /\ At(c, "fill") /\ GoTo(c, AfterWrite(c))
  /\ config' = cmd[c].cfg
  /\ UNCHANGED <<identity, daemon, agent, faults>>

\* Fault: a daemon that answers is stopped, whatever it answers.
CheckNothing(c) ==
  /\ At(c, "check") /\ GoTo(c, IF Serving = {} THEN "spawn" ELSE "stop")
  /\ UNCHANGED <<config, identity, daemon, agent, faults>>

\* run --detach looks for a daemon: one that is healthy stays, one without its
\* worker is stopped.
Check(c) ==
  /\ At(c, "check")
  /\ GoTo(c, CASE Healthy -> "done" [] Serving = {} -> "spawn" [] OTHER -> "stop")
  /\ UNCHANGED <<config, identity, daemon, agent, faults>>

Stop(c) ==
  /\ At(c, "stop") /\ GoTo(c, IF c \in Detach THEN "spawn" ELSE "again")
  /\ daemon' = Stopped
  /\ UNCHANGED <<config, identity, agent, faults>>

\* initialize_home writes the config again and sees to the identity.
TruncateAgain(c) ==
  /\ At(c, "again") /\ GoTo(c, "refill")
  /\ config' = Torn
  /\ UNCHANGED <<identity, daemon, agent, faults>>

Refill(c) ==
  /\ At(c, "refill") /\ GoTo(c, "identity")
  /\ config' = cmd[c].cfg
  /\ UNCHANGED <<identity, daemon, agent, faults>>

Identify(c) ==
  /\ At(c, "identity")
  /\ GoTo(c, IF identity = None THEN "insert" ELSE AfterIdentity(c))
  /\ UNCHANGED <<config, identity, daemon, agent, faults>>

Insert(c) ==
  /\ At(c, "insert") /\ GoTo(c, AfterIdentity(c))
  /\ identity' = Ensured(c)
  /\ UNCHANGED <<config, daemon, agent, faults>>

\* install_launch_agent: launchctl bootout, bootstrap, kickstart -k.
Bootout(c) ==
  /\ At(c, "bootout") /\ GoTo(c, "bootstrap")
  /\ agent' = FALSE
  /\ daemon' = AgentStopped
  /\ UNCHANGED <<config, identity, faults>>

Bootstrap(c) ==
  /\ At(c, "bootstrap") /\ GoTo(c, "kickstart")
  /\ agent' = TRUE
  /\ CanRun /\ daemon' = [daemon EXCEPT ![Free] = Started(TRUE)]
  /\ UNCHANGED <<config, identity, faults>>

\* A bootstrap that fails ends setup.
BootstrapFails(c) ==
  /\ faults < MaxFaults
  /\ At(c, "bootstrap") /\ GoTo(c, "done")
  /\ faults' = faults + 1
  /\ UNCHANGED <<config, identity, daemon, agent>>

Kickstart(c) ==
  /\ At(c, "kickstart") /\ GoTo(c, "await")
  /\ CanRun
  /\ daemon' = [AgentStopped EXCEPT ![Free] = Started(TRUE)]
  /\ UNCHANGED <<config, identity, agent, faults>>

\* wait_for_healthy_daemon, until the daemon is healthy or the time is over;
\* setup then starts a daemon of its own and waits once more.
Wait(c) ==
  /\ \/ At(c, "await") /\ GoTo(c, IF Healthy THEN "done" ELSE "spawn")
     \/ At(c, "wait") /\ GoTo(c, "done")
  /\ UNCHANGED <<config, identity, daemon, agent, faults>>

\* spawn_detached_daemon
Spawn(c) ==
  /\ At(c, "spawn") /\ GoTo(c, "wait")
  /\ CanRun /\ daemon' = [daemon EXCEPT ![Free] = Started(FALSE)]
  /\ UNCHANGED <<config, identity, agent, faults>>

-----------------------------------------------------------------------------
\* The specification

RunDaemon(d) ==
  \/ DaemonLoads(d) \/ DaemonTruncates(d) \/ DaemonFills(d)
  \/ DaemonIdentifies(d) \/ DaemonInserts(d) \/ DaemonBinds(d)

RunCommand(c) ==
  \/ Load(c) \/ Truncate(c) \/ Fill(c) \/ Check(c) \/ Stop(c)
  \/ TruncateAgain(c) \/ Refill(c) \/ Identify(c) \/ Insert(c)
  \/ Bootout(c) \/ Bootstrap(c) \/ Kickstart(c) \/ Wait(c) \/ Spawn(c)

Next ==
  \/ \E d \in Daemon : RunDaemon(d) \/ WorkerListens(d) \/ WorkerFails(d)
  \/ KeepAlive
  \/ \E c \in Command : Begin(c) \/ RunCommand(c) \/ BootstrapFails(c)

Spec == Init /\ [][Next]_vars

\* The system runs the processes, and launchd its agent; nobody has to run a
\* command.
Fairness ==
  /\ \A d \in Daemon : WF_vars(RunDaemon(d)) /\ WF_vars(WorkerListens(d))
  /\ \A c \in Command : WF_vars(RunCommand(c))
  /\ WF_vars(KeepAlive)

FairSpec == Spec /\ Fairness

-----------------------------------------------------------------------------
\* Properties

\* The variables have their types, and a daemon that goes on from bootstrap has
\* an identity.
TypeOK ==
  /\ config \in Config \cup {None, Torn}
  /\ identity \in Identity \cup {None}
  /\ daemon \in [Daemon -> Process \cup {None}]
  /\ agent \in BOOLEAN
  /\ cmd \in [Command -> Progress]
  /\ faults \in Nat
  /\ \A d \in Running :
       daemon[d].at \in {"insert", "bind", "serve"} => daemon[d].ident # None

\* Once setup has stopped the old daemon and written the config again, nobody
\* brings the old settings back: what can be read, and what a daemon runs with,
\* has what setup was told (setup persists, stops, and persists again in
\* initialize_home).  That is so if the old daemon has long been serving: one that
\* is still starting can write the old config between the two.
Written(c) ==
  cmd[c].at \in {"identity", "insert", "bootout", "bootstrap", "kickstart", "await", "spawn",
                 "wait", "done"} /\ cmd[c].cfg # {}
SettledBefore(c) == \A e \in (Launching \cup Detach) \ {c} : At(e, "idle")
SetupTakesEffect ==
  \A c \in Launching : Written(c) /\ SettledBefore(c) =>
    /\ config # Torn => config # None /\ c \in config
    /\ \A d \in Running : daemon[d].at = "load" \/ c \in daemon[d].cfg

\* run --detach never ends a node that works: what it stops has no worker, also
\* if the answer it goes by is no longer the latest (run checks the status,
\* then stops).
DetachSparesHealthy ==
  \A c \in Detach : At(c, "stop") => ~Healthy

\* The identity of a home never changes, however many processes generated one
\* (INSERT OR IGNORE).
IdentityIsFinal ==
  [][identity # None => identity' = identity]_identity

\* No config can be read any more, and nobody is about to write it: a signal
\* reached a daemon inside fs::write.
Broken ==
  /\ config = Torn
  /\ \A d \in Running : daemon[d].at # "fill"
  /\ \A c \in Command : cmd[c].at \notin {"fill", "refill"}

\* Others are under way beside command c: a second daemon that starts, and may
\* get one of the two ports, or a command that may be writing the config.
Crowded(c) ==
  \/ Cardinality({d \in Running : daemon[d].at # "serve" \/ daemon[d].worker = "starting"}) > 1
  \/ \E e \in Command \ {c} : cmd[e].at \notin {"idle", "done"}

\* A command that stopped the daemon brings the node back: a daemon serves with
\* a live worker, unless others were under way at the same time or a fault hit
\* it (setup "repairs and restarts the current node cleanly"; so does run
\* --detach).
RepairWorks ==
  \A c \in Launching \cup Detach : At(c, "stop") ~>
    \/ \E d \in Serving : daemon[d].worker = "live"
    \/ Crowded(c) \/ Broken \/ faults > 0
=============================================================================
