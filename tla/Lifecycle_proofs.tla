------------------------- MODULE Lifecycle_proofs --------------------------
(***************************************************************************)
(* What Lifecycle promises for any number of daemons, commands and faults. *)
(*                                                                         *)
(* The argument for DetachSparesHealthy: run --detach goes to its stop only*)
(* when it found daemons that serve, all of them with a dead worker.  While*)
(* it is there no other command runs, so the serving daemons stay; they    *)
(* keep the control port, so no other daemon gets to serve; and a worker   *)
(* that has ended does not come back.                                      *)
(*                                                                         *)
(* For SetupTakesEffect: what served before setup writes no config any     *)
(* more (OldServes), from the stop on whatever can be read or is about to  *)
(* be written has setup's settings (Settled), and a daemon that starts     *)
(* after the stop gets them (RunsWith).                                    *)
(***************************************************************************)
EXTENDS Lifecycle, TLAPS

-----------------------------------------------------------------------------
\* The inductive invariant

Busy(c) == cmd[c].at \notin {"idle", "done"}
OneCommand == \A c, e \in Command : Busy(c) /\ Busy(e) => c = e

StopsTheDead == \A c \in Detach : At(c, "stop") => Serving # {} /\ ~Healthy

-----------------------------------------------------------------------------
\* Types

\* The slot a new process gets is free.
LEMMA FreeIsFree ==
  CanRun => Free \in Daemon /\ Free \notin Running
BY DEF CanRun, Running, Free

\* A new process has the type of a process.
LEMMA StartedType ==
  ASSUME NEW byAgent \in BOOLEAN
  PROVE  Started(byAgent) \in Process
BY DEF Started, Process, Config

\* A running daemon is a process.
LEMMA RunningType ==
  ASSUME TypeOK, NEW d \in Running
  PROVE  d \in Daemon /\ daemon[d] \in Process
BY DEF TypeOK, Running

\* The daemons after one slot got a new content.
LEMMA DaemonType ==
  ASSUME TypeOK, NEW d \in Daemon, NEW new \in Process \cup {None},
         daemon' = [daemon EXCEPT ![d] = new],
         new # None /\ new.at \in {"insert", "bind", "serve"} => new.ident # None
  PROVE  /\ daemon' \in [Daemon -> Process \cup {None}]
         /\ \A e \in Running' :
              daemon'[e].at \in {"insert", "bind", "serve"} => daemon'[e].ident # None
<1>1. daemon' \in [Daemon -> Process \cup {None}]
  BY DEF TypeOK
<1>2. ASSUME NEW e \in Running', daemon'[e].at \in {"insert", "bind", "serve"}
      PROVE  daemon'[e].ident # None
  <2>1. CASE e = d
    BY <1>2, <2>1 DEF Running, TypeOK
  <2>2. CASE e # d
    BY <1>2, <2>2 DEF Running, TypeOK
  <2> QED
    BY <2>1, <2>2
<1> QED
  BY <1>1, <1>2

\* The daemons after some were ended.
LEMMA EndedType ==
  ASSUME TypeOK,
         daemon' \in [Daemon -> Process \cup {None}],
         \A e \in Daemon : daemon'[e] = daemon[e] \/ daemon'[e] = None
  PROVE  \A e \in Running' :
           daemon'[e].at \in {"insert", "bind", "serve"} => daemon'[e].ident # None
BY DEF TypeOK, Running

\* The commands after one went on.
LEMMA ProgressType ==
  ASSUME TypeOK, NEW c \in Command, NEW where, GoTo(c, where),
         where \in {"idle", "load", "truncate", "fill", "check", "stop", "again", "refill",
                    "identity", "insert", "bootout", "bootstrap", "kickstart", "await",
                    "spawn", "wait", "done"}
  PROVE  cmd' \in [Command -> Progress]
BY DEF TypeOK, GoTo, Progress

LEMMA InitType == Init => TypeOK
<1> SUFFICES ASSUME Init PROVE TypeOK
  OBVIOUS
<1>1. cmd \in [Command -> Progress]
  BY DEF Init, Progress, Config
<1>2. CASE config = None /\ identity = None /\ agent = FALSE /\ daemon = [d \in Daemon |-> None]
  BY <1>1, <1>2 DEF Init, TypeOK, Running
<1>3. CASE /\ config = {} /\ identity = Old /\ agent \in BOOLEAN
           /\ \E worker \in {"live", "dead"} :
                daemon = [e \in Daemon |->
                  IF e = (CHOOSE d \in Daemon : TRUE)
                  THEN [at |-> "serve", cfg |-> {}, ident |-> Old, worker |-> worker,
                        agent |-> agent]
                  ELSE None]
  <2>1. PICK worker \in {"live", "dead"} :
          daemon = [e \in Daemon |->
            IF e = (CHOOSE d \in Daemon : TRUE)
            THEN [at |-> "serve", cfg |-> {}, ident |-> Old, worker |-> worker, agent |-> agent]
            ELSE None]
    BY <1>3
  <2> DEFINE old == [at |-> "serve", cfg |-> {}, ident |-> Old, worker |-> worker,
                     agent |-> agent]
  <2>2. old \in Process /\ old.ident = Old
    BY <1>3 DEF Process, Config, Identity
  <2>3. Old # None
    BY LifecycleAssumption DEF Identity
  <2>4. \A e \in Daemon : daemon[e] = old \/ daemon[e] = None
    BY <2>1
  <2>5. daemon \in [Daemon -> Process \cup {None}]
    BY <2>1, <2>2
  <2>6. \A d \in Running : daemon[d].ident # None
    BY <2>2, <2>3, <2>4 DEF Running
  <2> QED
    BY <1>1, <1>3, <2>5, <2>6 DEF Init, TypeOK, Config, Identity
<1> QED
  BY <1>2, <1>3 DEF Init

\* A step of a daemon keeps the types.
LEMMA DaemonStepType ==
  ASSUME TypeOK, NEW d \in Daemon, RunDaemon(d) \/ WorkerListens(d) \/ WorkerFails(d)
  PROVE  TypeOK'
<1> DEFINE p == daemon[d]
<1>1. d \in Running /\ p \in Process /\ p # None
  BY RunningType DEF RunDaemon, WorkerListens, WorkerFails, DaemonLoads, DaemonTruncates,
     DaemonFills, DaemonIdentifies, DaemonInserts, DaemonBinds, Running
<1>2. p.at \in {"insert", "bind", "serve"} => p.ident # None
  BY <1>1 DEF TypeOK
<1>3. CASE DaemonLoads(d)
  <2> DEFINE new == IF config = Torn THEN None
                    ELSE [p EXCEPT !.at = "truncate", !.cfg = Loaded]
  <2>1. daemon' = [daemon EXCEPT ![d] = new]
    BY <1>3 DEF DaemonLoads
  <2>2. config # Torn => Loaded \in Config
    BY DEF Loaded, TypeOK, Config
  <2>3. new \in Process \cup {None} /\ (new # None => new.at = "truncate")
    BY <1>1, <2>2 DEF Process
  <2> HIDE DEF new
  <2> QED
    BY <1>3, <2>1, <2>3, DaemonType DEF DaemonLoads, TypeOK
<1>4. CASE DaemonTruncates(d)
  <2> DEFINE new == [p EXCEPT !.at = "fill"]
  <2>1. daemon' = [daemon EXCEPT ![d] = new]
    BY <1>4 DEF DaemonTruncates
  <2>2. new \in Process /\ new.at = "fill"
    BY <1>1 DEF Process
  <2> HIDE DEF new
  <2> QED
    BY <1>4, <2>1, <2>2, DaemonType DEF DaemonTruncates, TypeOK
<1>5. CASE DaemonFills(d)
  <2> DEFINE new == [p EXCEPT !.at = "identity"]
  <2>1. daemon' = [daemon EXCEPT ![d] = new] /\ p.cfg \in Config
    BY <1>1, <1>5 DEF DaemonFills, Process
  <2>2. new \in Process /\ new.at = "identity"
    BY <1>1 DEF Process
  <2> HIDE DEF new
  <2> QED
    BY <1>5, <2>1, <2>2, DaemonType DEF DaemonFills, TypeOK
<1>6. CASE DaemonIdentifies(d)
  <2> DEFINE new == IF identity = None THEN [p EXCEPT !.at = "insert", !.ident = d]
                    ELSE [p EXCEPT !.at = "bind", !.ident = identity, !.worker = "starting"]
  <2>1. daemon' = [daemon EXCEPT ![d] = new]
    BY <1>6 DEF DaemonIdentifies
  <2>2. new \in Process
    BY <1>1 DEF Process, Identity, TypeOK
  <2>3. new.ident # None
    BY <1>1, LifecycleAssumption DEF Process, Identity
  <2> HIDE DEF new
  <2> QED
    BY <1>6, <2>1, <2>2, <2>3, DaemonType DEF DaemonIdentifies, TypeOK
<1>7. CASE DaemonInserts(d)
  <2> DEFINE new == [p EXCEPT !.at = "bind", !.worker = "starting"]
  <2>1. daemon' = [daemon EXCEPT ![d] = new]
    BY <1>7 DEF DaemonInserts
  <2>2. new \in Process /\ new.ident = p.ident /\ p.ident \in Identity
    BY <1>1, <1>2, <1>7 DEF Process, DaemonInserts
  <2>3. p.ident # None
    BY <1>2, <1>7 DEF DaemonInserts
  <2>4. identity' \in Identity \cup {None}
    BY <1>7, <2>2 DEF DaemonInserts, Ensured, TypeOK
  <2> HIDE DEF new
  <2> QED
    BY <1>7, <2>1, <2>2, <2>3, <2>4, DaemonType DEF DaemonInserts, TypeOK
<1>8. CASE DaemonBinds(d)
  <2> DEFINE new == IF Serving = {} THEN [p EXCEPT !.at = "serve"] ELSE None
  <2>1. daemon' = [daemon EXCEPT ![d] = new]
    BY <1>8 DEF DaemonBinds
  <2>2. new \in Process \cup {None} /\ (new # None => new.ident = p.ident)
    BY <1>1 DEF Process
  <2>3. p.ident # None
    BY <1>2, <1>8 DEF DaemonBinds
  <2> HIDE DEF new
  <2> QED
    BY <1>8, <2>1, <2>2, <2>3, DaemonType DEF DaemonBinds, TypeOK
<1>9. CASE WorkerListens(d)
  <2> DEFINE new == [p EXCEPT !.worker = IF PortIsFree(d) THEN "live" ELSE "dead"]
  <2>1. daemon' = [daemon EXCEPT ![d] = new]
    BY <1>9 DEF WorkerListens
  <2>2. new \in Process /\ new.at = p.at /\ new.ident = p.ident
    BY <1>1 DEF Process
  <2> HIDE DEF new
  <2> QED
    BY <1>2, <1>9, <2>1, <2>2, DaemonType DEF WorkerListens, TypeOK
<1>10. CASE WorkerFails(d)
  <2> DEFINE new == [p EXCEPT !.worker = "dead"]
  <2>1. daemon' = [daemon EXCEPT ![d] = new]
    BY <1>10 DEF WorkerFails
  <2>2. new \in Process /\ new.at = p.at /\ new.ident = p.ident
    BY <1>1 DEF Process
  <2>3. faults' \in Nat
    BY <1>10 DEF WorkerFails, TypeOK
  <2>4. /\ daemon' \in [Daemon -> Process \cup {None}]
        /\ \A e \in Running' :
             daemon'[e].at \in {"insert", "bind", "serve"} => daemon'[e].ident # None
    <3> HIDE DEF new
    <3> QED
      BY <1>2, <2>1, <2>2, DaemonType
  <2> QED
    BY <1>10, <2>3, <2>4 DEF WorkerFails, TypeOK
<1> QED
  BY <1>3, <1>4, <1>5, <1>6, <1>7, <1>8, <1>9, <1>10 DEF RunDaemon

\* A new process in the free slot keeps the types.
LEMMA NewType ==
  ASSUME TypeOK, CanRun, NEW byAgent \in BOOLEAN,
         daemon' = [daemon EXCEPT ![Free] = Started(byAgent)]
  PROVE  /\ daemon' \in [Daemon -> Process \cup {None}]
         /\ \A e \in Running' :
              daemon'[e].at \in {"insert", "bind", "serve"} => daemon'[e].ident # None
<1>1. Free \in Daemon /\ Started(byAgent) \in Process /\ Started(byAgent).at = "load"
  BY FreeIsFree, StartedType DEF Started
<1> QED
  BY <1>1, DaemonType

\* A step of launchd keeps the types.
LEMMA KeepAliveType ==
  ASSUME TypeOK, KeepAlive
  PROVE  TypeOK'
BY NewType DEF KeepAlive, TypeOK

\* A step of a command that leaves the daemons alone keeps the types.
LEMMA FileStepType ==
  ASSUME TypeOK, NEW c \in Command,
         \/ Begin(c) \/ Load(c) \/ Truncate(c) \/ Fill(c) \/ Check(c) \/ TruncateAgain(c)
         \/ Refill(c) \/ Identify(c) \/ Insert(c) \/ Wait(c) \/ BootstrapFails(c)
  PROVE  TypeOK'
<1>1. cmd[c] \in Progress
  BY DEF TypeOK
<1>2. CASE Begin(c)
  BY <1>2, ProgressType DEF Begin, TypeOK, Running
<1>3. CASE Load(c)
  <2>1. config # Torn => Loaded \cup ({c} \cap Editor) \in Config
    BY DEF Loaded, TypeOK, Config
  <2>2. cmd' \in [Command -> Progress]
    BY <1>1, <1>3, <2>1 DEF Load, TypeOK, Progress
  <2> QED
    BY <1>3, <2>2 DEF Load, TypeOK, Running
<1>4. CASE Truncate(c)
  BY <1>4, ProgressType DEF Truncate, TypeOK, Running
<1>5. CASE Fill(c)
  <2>1. cmd[c].cfg \in Config
    BY <1>1 DEF Progress
  <2>2. AfterWrite(c) \in {"done", "check", "stop", "again"}
    BY DEF AfterWrite
  <2> QED
    BY <1>5, <2>1, <2>2, ProgressType DEF Fill, TypeOK, Running
<1>6. CASE Check(c)
  <2>1. PICK where \in {"done", "spawn", "stop"} : GoTo(c, where)
    BY <1>6 DEF Check
  <2> QED
    BY <1>6, <2>1, ProgressType DEF Check, TypeOK, Running
<1>7. CASE TruncateAgain(c)
  BY <1>7, ProgressType DEF TruncateAgain, TypeOK, Running
<1>8. CASE Refill(c)
  <2>1. cmd[c].cfg \in Config
    BY <1>1 DEF Progress
  <2> QED
    BY <1>8, <2>1, ProgressType DEF Refill, TypeOK, Running
<1>9. CASE Identify(c)
  BY <1>9, ProgressType DEF Identify, AfterIdentity, TypeOK, Running
<1>10. CASE Insert(c)
  <2>1. cmd' \in [Command -> Progress]
    BY <1>10, ProgressType DEF Insert, AfterIdentity
  <2>2. c \in Identity
    BY DEF Identity
  <2>3. identity' \in Identity \cup {None}
    BY <1>10, <2>2 DEF Insert, Ensured, TypeOK
  <2> QED
    BY <1>10, <2>1, <2>3 DEF Insert, TypeOK, Running
<1>11. CASE Wait(c)
  <2>1. PICK where \in {"done", "spawn"} : GoTo(c, where)
    BY <1>11 DEF Wait
  <2> QED
    BY <1>11, <2>1, ProgressType DEF Wait, TypeOK, Running
<1>12. CASE BootstrapFails(c)
  <2>1. faults' \in Nat
    BY <1>12 DEF BootstrapFails, TypeOK
  <2> QED
    BY <1>12, <2>1, ProgressType DEF BootstrapFails, TypeOK, Running
<1> QED
  BY <1>2, <1>3, <1>4, <1>5, <1>6, <1>7, <1>8, <1>9, <1>10, <1>11, <1>12

\* A step of a command that ends or starts daemons keeps the types.
LEMMA ProcessStepType ==
  ASSUME TypeOK, NEW c \in Command,
         Stop(c) \/ Bootout(c) \/ Bootstrap(c) \/ Kickstart(c) \/ Spawn(c)
  PROVE  TypeOK'
<1>1. CASE Stop(c)
  <2>1. daemon' \in [Daemon -> Process \cup {None}] /\ \A e \in Daemon : daemon'[e] = None
    BY <1>1 DEF Stop, Stopped
  <2> QED
    BY <1>1, <2>1, EndedType, ProgressType DEF Stop, TypeOK
<1>2. CASE Bootout(c)
  <2>1. /\ daemon' \in [Daemon -> Process \cup {None}]
        /\ \A e \in Daemon : daemon'[e] = daemon[e] \/ daemon'[e] = None
    BY <1>2 DEF Bootout, AgentStopped, TypeOK
  <2> QED
    BY <1>2, <2>1, EndedType, ProgressType DEF Bootout, TypeOK
<1>3. CASE Bootstrap(c)
  BY <1>3, NewType, ProgressType DEF Bootstrap, TypeOK
<1>4. CASE Kickstart(c)
  <2>1. /\ Free \in Daemon
        /\ Started(TRUE) \in Process
        /\ Started(TRUE).at = "load"
    BY <1>4, FreeIsFree, StartedType DEF Kickstart, Started
  <2>2. /\ daemon' \in [Daemon -> Process \cup {None}]
        /\ \A e \in Daemon :
             daemon'[e] = Started(TRUE) \/ daemon'[e] = daemon[e] \/ daemon'[e] = None
    BY <1>4, <2>1 DEF Kickstart, AgentStopped, TypeOK
  <2>3. \A e \in Running' :
          daemon'[e].at \in {"insert", "bind", "serve"} => daemon'[e].ident # None
    BY <2>1, <2>2 DEF Running, TypeOK
  <2> QED
    BY <1>4, <2>2, <2>3, ProgressType DEF Kickstart, TypeOK
<1>5. CASE Spawn(c)
  BY <1>5, NewType, ProgressType DEF Spawn, TypeOK
<1> QED
  BY <1>1, <1>2, <1>3, <1>4, <1>5

LEMMA NextType == TypeOK /\ [Next]_vars => TypeOK'
<1>1. ASSUME TypeOK, UNCHANGED vars PROVE TypeOK'
  BY <1>1 DEF TypeOK, Running, vars
<1> QED
  BY <1>1, DaemonStepType, KeepAliveType, FileStepType, ProcessStepType
     DEF Next, RunCommand

\* The variables always have their types, and every daemon that goes on from
\* bootstrap has an identity.
THEOREM TypeCorrect == Spec => []TypeOK
<1> QED
  BY InitType, NextType, PTL DEF Spec

-----------------------------------------------------------------------------
\* The identity

\* The identity of a home never changes once it is there.
THEOREM IdentityIsPermanent == Spec => IdentityIsFinal
<1>1. [Next]_vars => [identity # None => identity' = identity]_identity
  <2> SUFFICES ASSUME [Next]_vars, identity # None PROVE identity' = identity
    OBVIOUS
  <2>1. ASSUME NEW d \in Daemon, RunDaemon(d) PROVE identity' = identity
    BY <2>1 DEF RunDaemon, DaemonLoads, DaemonTruncates, DaemonFills, DaemonIdentifies,
       DaemonInserts, DaemonBinds, Ensured
  <2>2. ASSUME NEW d \in Daemon, WorkerListens(d) \/ WorkerFails(d) PROVE identity' = identity
    BY <2>2 DEF WorkerListens, WorkerFails
  <2>3. ASSUME NEW c \in Command, RunCommand(c) PROVE identity' = identity
    BY <2>3 DEF RunCommand, Load, Truncate, Fill, Check, Stop, TruncateAgain, Refill, Identify,
       Insert, Bootout, Bootstrap, Kickstart, Wait, Spawn, Ensured
  <2>4. ASSUME NEW c \in Command, Begin(c) \/ BootstrapFails(c) PROVE identity' = identity
    BY <2>4 DEF Begin, BootstrapFails
  <2> QED
    BY <2>1, <2>2, <2>3, <2>4 DEF Next, KeepAlive, vars
<1> QED
  BY <1>1, PTL DEF Spec, IdentityIsFinal

-----------------------------------------------------------------------------
\* What run --detach stops

\* Only a command that goes on is busy after a step, and only the step that begins
\* a command makes it busy.
LEMMA CommandStep == TypeOK /\ OneCommand /\ [Next]_vars => OneCommand'
<1> SUFFICES ASSUME TypeOK, OneCommand, [Next]_vars PROVE OneCommand'
  OBVIOUS
<1>1. ASSUME NEW c \in Command, NEW where, GoTo(c, where), Busy(c) PROVE OneCommand'
  BY <1>1 DEF OneCommand, Busy, GoTo, TypeOK
<1>2. ASSUME NEW c \in Command, Begin(c) PROVE OneCommand'
  <2>1. \A e \in Command : ~Busy(e)
    BY <1>2 DEF Begin, Busy
  <2>2. \A e \in Command \ {c} : cmd'[e] = cmd[e]
    BY <1>2 DEF Begin, GoTo, TypeOK
  <2> QED
    BY <2>1, <2>2 DEF OneCommand, Busy
<1>3. ASSUME NEW c \in Command, Load(c) PROVE OneCommand'
  <2>1. \A e \in Command \ {c} : cmd'[e] = cmd[e]
    BY <1>3 DEF Load, TypeOK
  <2>2. Busy(c)
    BY <1>3 DEF Load, At, Busy
  <2> QED
    BY <2>1, <2>2 DEF OneCommand, Busy
<1>4. ASSUME NEW c \in Command, RunCommand(c) \/ BootstrapFails(c), ~Load(c) PROVE OneCommand'
  <2>1. Busy(c)
    BY <1>4 DEF RunCommand, Truncate, Fill, Check, Stop, TruncateAgain, Refill, Identify,
       Insert, Bootout, Bootstrap, BootstrapFails, Kickstart, Wait, Spawn, At, Busy
  <2>2. \E where : GoTo(c, where)
    BY <1>4 DEF RunCommand, Truncate, Fill, Check, Stop, TruncateAgain, Refill, Identify,
       Insert, Bootout, Bootstrap, BootstrapFails, Kickstart, Wait, Spawn
  <2> QED
    BY <1>1, <2>1, <2>2
<1>5. ASSUME cmd' = cmd PROVE OneCommand'
  BY <1>5 DEF OneCommand, Busy
<1>6. ASSUME NEW d \in Daemon, RunDaemon(d) \/ WorkerListens(d) \/ WorkerFails(d)
      PROVE  cmd' = cmd
  BY <1>6 DEF RunDaemon, WorkerListens, WorkerFails, DaemonLoads, DaemonTruncates, DaemonFills,
     DaemonIdentifies, DaemonInserts, DaemonBinds
<1> QED
  BY <1>2, <1>3, <1>4, <1>5, <1>6 DEF Next, KeepAlive, vars

\* The daemons that serve stay, are not joined by others, and none of their workers
\* comes back.
StayDead ==
  Serving # {} /\ ~Healthy => Serving' # {} /\ ~Healthy'

\* What a step of one daemon needs for that.
LEMMA OneStaysDead ==
  ASSUME TypeOK, NEW d \in Daemon, NEW new, daemon' = [daemon EXCEPT ![d] = new],
         d \in Serving =>
           new # None /\ new.at = "serve" /\ (daemon[d].worker = "dead" => new.worker = "dead"),
         d \notin Serving /\ Serving # {} => new = None \/ new.at # "serve"
  PROVE  StayDead
<1> SUFFICES ASSUME Serving # {}, ~Healthy PROVE Serving' # {} /\ ~Healthy'
  BY DEF StayDead
<1>1. Serving' = Serving
  BY DEF Serving, Running, TypeOK
<1>2. \A e \in Serving' : daemon'[e].worker = "dead"
  BY <1>1 DEF Healthy, Serving, Running, TypeOK
<1> QED
  BY <1>1, <1>2 DEF Healthy

LEMMA DaemonStepStaysDead ==
  ASSUME TypeOK, TypeOK', NEW d \in Daemon, RunDaemon(d) \/ WorkerListens(d) \/ WorkerFails(d)
  PROVE  StayDead
<1> DEFINE p == daemon[d]
<1>1. d \in Running /\ p \in Process /\ p # None
  BY RunningType DEF RunDaemon, WorkerListens, WorkerFails, DaemonLoads, DaemonTruncates,
     DaemonFills, DaemonIdentifies, DaemonInserts, DaemonBinds, Running
<1>2. CASE DaemonLoads(d)
  <2> DEFINE new == IF config = Torn THEN None
                    ELSE [p EXCEPT !.at = "truncate", !.cfg = Loaded]
  <2>1. daemon' = [daemon EXCEPT ![d] = new] /\ d \notin Serving
    BY <1>2 DEF DaemonLoads, Serving
  <2>2. new = None \/ new.at # "serve"
    BY <1>1 DEF Process
  <2> HIDE DEF new
  <2> QED
    BY <2>1, <2>2, OneStaysDead
<1>3. CASE DaemonTruncates(d)
  <2> DEFINE new == [p EXCEPT !.at = "fill"]
  <2>1. daemon' = [daemon EXCEPT ![d] = new] /\ d \notin Serving /\ new.at # "serve"
    BY <1>1, <1>3 DEF DaemonTruncates, Serving, Process
  <2> HIDE DEF new
  <2> QED
    BY <2>1, OneStaysDead
<1>4. CASE DaemonFills(d)
  <2> DEFINE new == [p EXCEPT !.at = "identity"]
  <2>1. daemon' = [daemon EXCEPT ![d] = new] /\ d \notin Serving /\ new.at # "serve"
    BY <1>1, <1>4 DEF DaemonFills, Serving, Process
  <2> HIDE DEF new
  <2> QED
    BY <2>1, OneStaysDead
<1>5. CASE DaemonIdentifies(d)
  <2> DEFINE new == IF identity = None THEN [p EXCEPT !.at = "insert", !.ident = d]
                    ELSE [p EXCEPT !.at = "bind", !.ident = identity, !.worker = "starting"]
  <2>1. daemon' = [daemon EXCEPT ![d] = new] /\ d \notin Serving
    BY <1>5 DEF DaemonIdentifies, Serving
  <2>2. new.at # "serve"
    BY <1>1 DEF Process
  <2> HIDE DEF new
  <2> QED
    BY <2>1, <2>2, OneStaysDead
<1>6. CASE DaemonInserts(d)
  <2> DEFINE new == [p EXCEPT !.at = "bind", !.worker = "starting"]
  <2>1. daemon' = [daemon EXCEPT ![d] = new] /\ d \notin Serving /\ new.at # "serve"
    BY <1>1, <1>6 DEF DaemonInserts, Serving, Process
  <2> HIDE DEF new
  <2> QED
    BY <2>1, OneStaysDead
<1>7. CASE DaemonBinds(d)
  <2> DEFINE new == IF Serving = {} THEN [p EXCEPT !.at = "serve"] ELSE None
  <2>1. daemon' = [daemon EXCEPT ![d] = new] /\ d \notin Serving
    BY <1>7 DEF DaemonBinds, Serving
  <2>2. Serving # {} => new = None
    OBVIOUS
  <2> HIDE DEF new
  <2> QED
    BY <2>1, <2>2, OneStaysDead
<1>8. CASE WorkerListens(d)
  <2> DEFINE new == [p EXCEPT !.worker = IF PortIsFree(d) THEN "live" ELSE "dead"]
  <2>1. daemon' = [daemon EXCEPT ![d] = new] /\ p.worker # "dead"
    BY <1>8 DEF WorkerListens
  <2>2. new.at = p.at /\ new \in Process
    BY <1>1 DEF Process
  <2>3. new # None
    BY <2>2, LifecycleAssumption
  <2>4. d \in Serving <=> p.at = "serve"
    BY <1>1 DEF Serving
  <2> HIDE DEF new
  <2> QED
    BY <2>1, <2>2, <2>3, <2>4, OneStaysDead
<1>9. CASE WorkerFails(d)
  <2> DEFINE new == [p EXCEPT !.worker = "dead"]
  <2>1. daemon' = [daemon EXCEPT ![d] = new]
    BY <1>9 DEF WorkerFails
  <2>2. new.at = p.at /\ new.worker = "dead" /\ new \in Process
    BY <1>1 DEF Process
  <2>3. new # None
    BY <2>2, LifecycleAssumption
  <2>4. d \in Serving <=> p.at = "serve"
    BY <1>1 DEF Serving
  <2> HIDE DEF new
  <2> QED
    BY <2>1, <2>2, <2>3, <2>4, OneStaysDead
<1> QED
  BY <1>2, <1>3, <1>4, <1>5, <1>6, <1>7, <1>8, <1>9 DEF RunDaemon

\* A process in a free slot does not serve yet.
LEMMA NewStaysDead ==
  ASSUME TypeOK, CanRun, NEW byAgent \in BOOLEAN,
         daemon' = [daemon EXCEPT ![Free] = Started(byAgent)]
  PROVE  StayDead
<1>1. Free \in Daemon /\ Free \notin Serving /\ Started(byAgent).at = "load"
  BY FreeIsFree DEF Started, Serving
<1> QED
  BY <1>1, OneStaysDead

\* No other command runs while run --detach is at its stop.
LEMMA OthersWait ==
  ASSUME OneCommand, NEW c \in Detach, At(c, "stop"), NEW e \in Command, e # c
  PROVE  ~Busy(e)
<1>1. c \in Command /\ Busy(c)
  BY DEF Command, At, Busy
<1> QED
  BY <1>1 DEF OneCommand

LEMMA StopStep ==
  TypeOK /\ OneCommand /\ StopsTheDead /\ [Next]_vars => StopsTheDead'
<1> SUFFICES ASSUME TypeOK, OneCommand, StopsTheDead, [Next]_vars,
                    NEW c \in Detach, At(c, "stop")'
             PROVE  Serving' # {} /\ ~Healthy'
  BY DEF StopsTheDead
<1>0. c \in Command
  BY DEF Command
<1>1. ASSUME At(c, "stop"), StayDead PROVE Serving' # {} /\ ~Healthy'
  BY <1>1 DEF StopsTheDead, StayDead
<1>2. ASSUME daemon' = daemon PROVE StayDead
  BY <1>2 DEF StayDead, Serving, Healthy, Running
<1>3. ASSUME NEW d \in Daemon, RunDaemon(d) \/ WorkerListens(d) \/ WorkerFails(d)
      PROVE  Serving' # {} /\ ~Healthy'
  <2>1. cmd' = cmd
    BY <1>3 DEF RunDaemon, WorkerListens, WorkerFails, DaemonLoads, DaemonTruncates, DaemonFills,
       DaemonIdentifies, DaemonInserts, DaemonBinds
  <2>2. TypeOK'
    BY <1>3, DaemonStepType
  <2> QED
    BY <1>1, <1>3, <2>1, <2>2, DaemonStepStaysDead DEF At
<1>4. ASSUME KeepAlive PROVE Serving' # {} /\ ~Healthy'
  BY <1>1, <1>4, NewStaysDead DEF KeepAlive, At
<1>5. ASSUME NEW e \in Command, Begin(e) \/ RunCommand(e) \/ BootstrapFails(e)
      PROVE  Serving' # {} /\ ~Healthy'
  <2>1. CASE e = c
    <3>1. Check(c)
      <4>1. AfterWrite(c) # "stop" /\ AfterIdentity(c) # "stop"
        BY LifecycleAssumption DEF AfterWrite, AfterIdentity, Editor
      <4>2. ASSUME NEW where, GoTo(c, where) PROVE where = "stop"
        BY <1>0, <4>2 DEF GoTo, At, TypeOK, Progress
      <4>3. ~Load(c)
        BY <1>0 DEF Load, At, TypeOK, Progress
      <4>4. ~Begin(c) /\ ~BootstrapFails(c)
        BY <4>2 DEF Begin, BootstrapFails
      <4>5. ~(\/ Truncate(c) \/ Fill(c) \/ Stop(c) \/ TruncateAgain(c) \/ Refill(c)
              \/ Identify(c) \/ Insert(c) \/ Bootout(c) \/ Bootstrap(c) \/ Kickstart(c)
              \/ Wait(c) \/ Spawn(c))
        BY <4>1, <4>2 DEF Truncate, Fill, Stop, TruncateAgain, Refill, Identify, Insert, Bootout,
           Bootstrap, Kickstart, Wait, Spawn
      <4> QED
        BY <1>5, <2>1, <4>3, <4>4, <4>5 DEF RunCommand
    <3>2. GoTo(c, "stop") /\ daemon' = daemon
      BY <1>0, <3>1 DEF Check, GoTo, At, TypeOK, Progress
    <3>3. Serving # {} /\ ~Healthy
      BY <1>0, <3>1 DEF Check, GoTo, At, TypeOK, Progress
    <3> QED
      BY <3>2, <3>3 DEF Serving, Healthy, Running
  <2>2. CASE e # c
    <3>1. cmd'[c] = cmd[c]
      BY <1>0, <1>5, <2>2 DEF Begin, RunCommand, BootstrapFails, Load, Truncate, Fill, Check, Stop,
         TruncateAgain, Refill, Identify, Insert, Bootout, Bootstrap, Kickstart, Wait, Spawn,
         GoTo, TypeOK
    <3>2. At(c, "stop") /\ ~Busy(e) /\ Busy(c)
      BY <2>2, <3>1, OthersWait DEF At, Busy
    <3>3. FALSE
      BY <1>0, <1>5, <3>2 DEF Begin, RunCommand, BootstrapFails, Load, Truncate, Fill, Check, Stop,
         TruncateAgain, Refill, Identify, Insert, Bootout, Bootstrap, Kickstart, Wait, Spawn,
         At, Busy
    <3> QED
      BY <3>3
  <2> QED
    BY <2>1, <2>2
<1>6. CASE UNCHANGED vars
  BY <1>1, <1>2, <1>6 DEF vars, At
<1> QED
  BY <1>3, <1>4, <1>5, <1>6 DEF Next

\* run --detach never ends a node that works.
THEOREM DetachIsGentle == Spec => []DetachSparesHealthy
<1>1. Init => OneCommand /\ StopsTheDead
  BY DEF Init, OneCommand, StopsTheDead, Busy, At, Command
<1>2. StopsTheDead => DetachSparesHealthy
  BY DEF StopsTheDead, DetachSparesHealthy
<1> QED
  BY <1>1, <1>2, InitType, NextType, CommandStep, StopStep, PTL DEF Spec

-----------------------------------------------------------------------------
\* What setup makes of the home

\* The settings a launching setup writes are its own and what it found.
OwnSettings(c) ==
  /\ cmd[c].at \in {"idle", "load"} => cmd[c].cfg = {}
  /\ cmd[c].at \notin {"idle", "load", "done"} => c \in cmd[c].cfg
  /\ cmd[c].cfg # {} => c \in cmd[c].cfg
  /\ cmd[c].at # "check"

\* A command that neither launches nor detaches leaves the processes alone.
FilesOnly ==
  \A e \in Editor \ Launching :
    cmd[e].at \in {"idle", "load", "truncate", "fill", "again", "refill", "identity", "insert",
                   "done"}

\* Setup has not stopped the daemon yet; it has; it has written its config.
Ahead(c) == cmd[c].at \in {"idle", "load", "truncate", "fill", "stop"}
Past(c) ==
  \/ cmd[c].at \in {"again", "refill", "identity", "insert", "bootout", "bootstrap", "kickstart",
                    "await", "spawn", "wait"}
  \/ At(c, "done") /\ cmd[c].cfg # {}
Persisted(c) == At(c, "stop") \/ Past(c)

\* Nothing but a daemon that has long been serving, the agent's if there is one.
OldServes ==
  /\ \A d \in Running : daemon[d].at = "serve"
  /\ agent => \E d \in Running : daemon[d].agent

\* The settings of c are in what can be read and in what a command may write.
Settled(c) ==
  /\ config # Torn => config # None /\ c \in config
  /\ \A e \in Command : cmd[e].at \in {"truncate", "fill", "again", "refill"} => c \in cmd[e].cfg

RunsWith(c) == \A d \in Running : daemon[d].at = "load" \/ c \in daemon[d].cfg

Effect(c) ==
  /\ Ahead(c) => OldServes
  /\ Persisted(c) => Settled(c)
  /\ Past(c) => RunsWith(c)

SetupInv ==
  /\ OneCommand
  /\ FilesOnly
  /\ \A c \in Launching : OwnSettings(c)
  /\ \A c \in Launching : SettledBefore(c) => Effect(c)

\* A command that goes on: where to, with the config it had, the others as before.
LEMMA GoesTo ==
  ASSUME TypeOK, NEW c \in Command, NEW where, GoTo(c, where)
  PROVE  /\ cmd'[c].at = where /\ cmd'[c].cfg = cmd[c].cfg
         /\ \A e \in Command : e # c => cmd'[e] = cmd[e]
BY DEF GoTo, TypeOK, Progress

\* What load_or_create gives a command.
LEMMA Loads ==
  ASSUME TypeOK, NEW c \in Command, Load(c)
  PROVE  /\ config = Torn => cmd'[c].at = "done" /\ cmd'[c].cfg = cmd[c].cfg
         /\ config # Torn => /\ cmd'[c].at = IF c \in Detach /\ config # None
                                             THEN "check" ELSE "truncate"
                             /\ cmd'[c].cfg = Loaded \cup ({c} \cap Editor)
         /\ \A e \in Command : e # c => cmd'[e] = cmd[e]
<1>1. cmd[c] \in Progress
  BY DEF TypeOK
<1>2. CASE config = Torn
  BY <1>1, <1>2 DEF Load, TypeOK, Progress
<1>3. CASE config # Torn
  <2>1. Loaded \cup ({c} \cap Editor) \in Config
    BY <1>3 DEF Loaded, TypeOK, Config
  <2> DEFINE where == IF c \in Detach /\ config # None THEN "check" ELSE "truncate"
             written == Loaded \cup ({c} \cap Editor)
  <2>2. cmd' = [cmd EXCEPT ![c] = [@ EXCEPT !.at = where, !.cfg = written]]
    BY <1>3 DEF Load
  <2> HIDE DEF where, written
  <2>3. /\ cmd'[c].at = where /\ cmd'[c].cfg = written
        /\ \A e \in Command : e # c => cmd'[e] = cmd[e]
    BY <1>1, <2>2 DEF TypeOK, Progress
  <2> QED
    BY <1>3, <2>3 DEF where, written
<1> QED
  BY <1>2, <1>3

CommandRuns(c) == Begin(c) \/ RunCommand(c) \/ BootstrapFails(c)

\* The stages of a command: it leaves none for "idle", and only loading changes
\* the config it is to write.
LEMMA Stages ==
  ASSUME TypeOK, NEW c \in Command, CommandRuns(c)
  PROVE  /\ \A e \in Command : e # c => cmd'[e] = cmd[e]
         /\ cmd[c].at = "idle" => cmd'[c].at = "load"
         /\ cmd[c].at = "truncate" => cmd'[c].at = "fill"
         /\ cmd[c].at = "fill" => cmd'[c].at = AfterWrite(c)
         /\ cmd[c].at = "check" => cmd'[c].at \in {"done", "spawn", "stop"}
         /\ cmd[c].at = "stop" => cmd'[c].at = IF c \in Detach THEN "spawn" ELSE "again"
         /\ cmd[c].at = "again" => cmd'[c].at = "refill"
         /\ cmd[c].at = "refill" => cmd'[c].at = "identity"
         /\ cmd[c].at = "identity" => cmd'[c].at \in {"insert", AfterIdentity(c)}
         /\ cmd[c].at = "insert" => cmd'[c].at = AfterIdentity(c)
         /\ cmd[c].at \in {"bootout", "bootstrap", "kickstart", "await", "spawn", "wait"} =>
              cmd'[c].at \in {"bootstrap", "kickstart", "await", "spawn", "wait", "done"}
         /\ cmd[c].at # "done"
         /\ cmd[c].at = "load" <=> Load(c)
         /\ ~Load(c) => cmd'[c].cfg = cmd[c].cfg
<1>1. CASE Load(c)
  BY <1>1, Loads DEF Load, At
<1>2. CASE Begin(c)
  BY <1>2, GoesTo DEF Begin, Load, At
<1>3. CASE Truncate(c)
  BY <1>3, GoesTo DEF Truncate, Load, At
<1>4. CASE Fill(c)
  BY <1>4, GoesTo DEF Fill, Load, At
<1>5. CASE Check(c)
  <2>1. PICK where \in {"done", "spawn", "stop"} : GoTo(c, where)
    BY <1>5 DEF Check
  <2> QED
    BY <1>5, <2>1, GoesTo DEF Check, Load, At
<1>6. CASE Stop(c)
  BY <1>6, GoesTo DEF Stop, Load, At
<1>7. CASE TruncateAgain(c)
  BY <1>7, GoesTo DEF TruncateAgain, Load, At
<1>8. CASE Refill(c)
  BY <1>8, GoesTo DEF Refill, Load, At
<1>9. CASE Identify(c)
  <2>1. PICK where \in {"insert", AfterIdentity(c)} : GoTo(c, where)
    BY <1>9 DEF Identify
  <2> QED
    BY <1>9, <2>1, GoesTo DEF Identify, Load, At
<1>10. CASE Insert(c)
  BY <1>10, GoesTo DEF Insert, Load, At
<1>11. CASE Bootout(c) \/ Bootstrap(c) \/ BootstrapFails(c) \/ Kickstart(c) \/ Spawn(c)
  BY <1>11, GoesTo DEF Bootout, Bootstrap, BootstrapFails, Kickstart, Spawn, Load, At
<1>12. CASE Wait(c)
  <2>1. PICK where \in {"done", "spawn"} : GoTo(c, where)
    BY <1>12 DEF Wait
  <2> QED
    BY <1>12, <2>1, GoesTo DEF Wait, Load, At
<1> QED
  BY <1>1, <1>2, <1>3, <1>4, <1>5, <1>6, <1>7, <1>8, <1>9, <1>10, <1>11, <1>12
     DEF CommandRuns, RunCommand

\* The sets of commands are apart.
LEMMA Kinds ==
  /\ \A c \in Launching : /\ c \in Command /\ c \in Editor /\ c \notin Detach /\ c \notin Edit
                          /\ AfterWrite(c) = "stop" /\ AfterIdentity(c) = "bootout"
  /\ \A e \in Editor \ Launching :
       /\ e \in Command /\ e \notin Detach
       /\ AfterWrite(e) \in {"done", "again"} /\ AfterIdentity(e) = "done"
BY LifecycleAssumption DEF Command, Editor, AfterWrite, AfterIdentity

\* No command becomes idle again.
LEMMA NeverIdleAgain ==
  ASSUME TypeOK, NEW c \in Command, CommandRuns(c)
  PROVE  cmd'[c].at # "idle"
<1>1. AfterWrite(c) # "idle" /\ AfterIdentity(c) # "idle"
  BY DEF AfterWrite, AfterIdentity
<1>2. cmd[c] \in Progress
  BY DEF TypeOK
<1>3. CASE Load(c)
  BY <1>3, Loads
<1>4. CASE ~Load(c)
  BY <1>1, <1>2, <1>4, Stages DEF Progress
<1> QED
  BY <1>3, <1>4

\* At most one command moves in a step.
LEMMA SomeCommandOrNone ==
  ASSUME [Next]_vars
  PROVE  cmd' = cmd \/ \E c \in Command : CommandRuns(c)
BY DEF Next, KeepAlive, vars, CommandRuns, RunDaemon, WorkerListens, WorkerFails, DaemonLoads,
   DaemonTruncates, DaemonFills, DaemonIdentifies, DaemonInserts, DaemonBinds

\* What commands are at and are to write stays in order.
LEMMA StagesStep ==
  ASSUME TypeOK, FilesOnly, \A c \in Launching : OwnSettings(c), [Next]_vars
  PROVE  FilesOnly' /\ \A c \in Launching : OwnSettings(c)'
<1>1. CASE cmd' = cmd
  BY <1>1 DEF FilesOnly, OwnSettings
<1>2. ASSUME NEW e \in Command, CommandRuns(e)
      PROVE  FilesOnly' /\ \A c \in Launching : OwnSettings(c)'
  <2>1. ASSUME NEW f \in Editor \ Launching
        PROVE  cmd'[f].at \in {"idle", "load", "truncate", "fill", "again", "refill",
                               "identity", "insert", "done"}
    <3>1. CASE f # e
      BY <1>2, <3>1, Kinds, Stages DEF FilesOnly
    <3>2. CASE f = e
      <4>1. CASE Load(e)
        BY <3>2, <4>1, Kinds, Loads
      <4>2. CASE ~Load(e)
        BY <1>2, <3>2, <4>2, Kinds, Stages DEF FilesOnly
      <4> QED
        BY <4>1, <4>2
    <3> QED
      BY <3>1, <3>2
  <2>2. FilesOnly'
    BY <2>1 DEF FilesOnly
  <2>3. ASSUME NEW c \in Launching
        PROVE  OwnSettings(c)'
    <3>1. CASE c # e
      BY <1>2, <3>1, Kinds, Stages DEF OwnSettings
    <3>2. CASE c = e /\ Load(c)
      <4>1. OwnSettings(c) /\ cmd[c].at = "load" /\ c \in Command /\ c \in Editor /\ c \notin Detach
        BY <3>2, Kinds DEF Load, At
      <4>2. CASE config = Torn
        BY <3>2, <4>1, <4>2, Loads DEF OwnSettings
      <4>3. CASE config # Torn
        <5>1. cmd'[c].at = "truncate" /\ cmd'[c].cfg = Loaded \cup ({c} \cap Editor)
          BY <3>2, <4>1, <4>3, Loads
        <5> QED
          BY <4>1, <5>1 DEF OwnSettings
      <4> QED
        BY <4>2, <4>3
    <3>3. CASE c = e /\ ~Load(c)
      <4>1. /\ cmd[c] \in Progress /\ OwnSettings(c)
        BY Kinds DEF TypeOK
      <4>2. cmd'[c].cfg = cmd[c].cfg
        BY <1>2, <3>3, Stages
      <4>3. CASE cmd[c].at = "idle"
        BY <1>2, <3>3, <4>1, <4>2, <4>3, Stages DEF OwnSettings
      <4>4. CASE cmd[c].at # "idle"
        <5>1. cmd[c].at \notin {"idle", "load", "done", "check"} /\ c \in cmd[c].cfg
          BY <1>2, <3>3, <4>1, <4>4, Stages DEF OwnSettings
        <5>2. cmd'[c].at \notin {"idle", "load", "check"}
          BY <1>2, <3>3, <4>1, <5>1, Kinds, Stages DEF Progress
        <5> QED
          BY <4>2, <5>1, <5>2 DEF OwnSettings
      <4> QED
        BY <4>3, <4>4
    <3> QED
      BY <3>1, <3>2, <3>3
  <2> QED
    BY <2>2, <2>3
<1> QED
  BY <1>1, <1>2, SomeCommandOrNone

\* A daemon that was serving writes nothing, and one that loads gets what is
\* settled.
LEMMA DaemonStepEffect ==
  ASSUME TypeOK, NEW c \in Launching, Effect(c),
         NEW d \in Daemon, RunDaemon(d) \/ WorkerListens(d) \/ WorkerFails(d)
  PROVE  Effect(c)'
<1> DEFINE p == daemon[d]
<1>1. d \in Running /\ p \in Process /\ p # None
  BY RunningType DEF RunDaemon, WorkerListens, WorkerFails, DaemonLoads, DaemonTruncates,
     DaemonFills, DaemonIdentifies, DaemonInserts, DaemonBinds, Running
<1>2. cmd' = cmd /\ agent' = agent
  BY DEF RunDaemon, WorkerListens, WorkerFails, DaemonLoads, DaemonTruncates, DaemonFills,
     DaemonIdentifies, DaemonInserts, DaemonBinds
<1>3. \A e \in Daemon \ {d} : daemon'[e] = daemon[e]
  BY DEF RunDaemon, WorkerListens, WorkerFails, DaemonLoads, DaemonTruncates, DaemonFills,
     DaemonIdentifies, DaemonInserts, DaemonBinds, TypeOK
<1>4. RunDaemon(d) => p.at # "serve"
  BY DEF RunDaemon, DaemonLoads, DaemonTruncates, DaemonFills, DaemonIdentifies, DaemonInserts,
     DaemonBinds
<1>5. WorkerListens(d) \/ WorkerFails(d) =>
        /\ daemon'[d].at = p.at /\ daemon'[d].agent = p.agent /\ daemon'[d].cfg = p.cfg
        /\ daemon'[d] \in Process /\ config' = config
  BY <1>1 DEF WorkerListens, WorkerFails, TypeOK, Process
<1>6. ASSUME Ahead(c)
      PROVE  OldServes'
  <2>1. WorkerListens(d) \/ WorkerFails(d)
    BY <1>1, <1>4, <1>6 DEF Effect, OldServes
  <2>2. Running' = Running
    BY <1>1, <1>3, <1>5, <2>1, LifecycleAssumption DEF Running
  <2> QED
    BY <1>1, <1>2, <1>3, <1>5, <1>6, <2>1, <2>2 DEF Effect, OldServes, Running
<1>7. ASSUME Persisted(c)
      PROVE  Settled(c)'
  <2>1. Settled(c)
    BY <1>7 DEF Effect
  <2>2. config' # Torn => config' # None /\ c \in config'
    <3>1. CASE DaemonFills(d)
      <4>1. config' = p.cfg /\ p.cfg \in Config
        BY <1>1, <3>1 DEF DaemonFills, Process
      <4>2. ~Ahead(c)
        BY <1>1, <3>1 DEF Effect, OldServes, DaemonFills
      <4>3. Past(c)
        BY <1>7, <4>2 DEF Persisted, Ahead, At
      <4> QED
        BY <1>1, <3>1, <4>1, <4>3, LifecycleAssumption DEF Effect, RunsWith, DaemonFills
    <3>2. CASE config' = config \/ config' = Torn
      BY <2>1, <3>2 DEF Settled
    <3> QED
      BY <3>1, <3>2 DEF RunDaemon, WorkerListens, WorkerFails, DaemonLoads, DaemonTruncates,
         DaemonIdentifies, DaemonInserts, DaemonBinds
  <2> QED
    BY <1>2, <2>1, <2>2 DEF Settled
<1>8. ASSUME Past(c)
      PROVE  RunsWith(c)'
  <2>1. p.at = "load" \/ c \in p.cfg
    BY <1>1, <1>8 DEF Effect, RunsWith
  <2>2. ASSUME daemon'[d] # None
        PROVE  daemon'[d].at = "load" \/ c \in daemon'[d].cfg
    <3>1. CASE DaemonLoads(d)
      <4>1. config # Torn /\ daemon'[d] = [p EXCEPT !.at = "truncate", !.cfg = Loaded]
        BY <1>1, <2>2, <3>1 DEF DaemonLoads, TypeOK
      <4>2. c \in Loaded
        BY <1>8, <4>1 DEF Effect, Persisted, Settled, Loaded
      <4>3. Loaded \in Config
        BY <4>1 DEF Loaded, TypeOK, Config
      <4> QED
        BY <1>1, <4>1, <4>2, <4>3 DEF Process
    <3>2. CASE RunDaemon(d) /\ ~DaemonLoads(d)
      <4>1. p.at # "load"
        BY <3>2 DEF RunDaemon, DaemonTruncates, DaemonFills, DaemonIdentifies, DaemonInserts,
           DaemonBinds
      <4>2. daemon'[d].cfg = p.cfg
        <5>1. CASE DaemonTruncates(d) \/ DaemonFills(d) \/ DaemonInserts(d)
          BY <1>1, <5>1 DEF DaemonTruncates, DaemonFills, DaemonInserts, TypeOK, Process
        <5>2. CASE DaemonIdentifies(d)
          <6>1. \/ daemon'[d] = [p EXCEPT !.at = "insert", !.ident = d]
                \/ daemon'[d] = [p EXCEPT !.at = "bind", !.ident = identity, !.worker = "starting"]
            BY <5>2 DEF DaemonIdentifies, TypeOK
          <6> QED
            BY <1>1, <6>1 DEF Process
        <5>3. CASE DaemonBinds(d)
          <6>1. daemon'[d] = [p EXCEPT !.at = "serve"]
            BY <2>2, <5>3 DEF DaemonBinds, TypeOK
          <6> QED
            BY <1>1, <6>1 DEF Process
        <5> QED
          BY <3>2, <5>1, <5>2, <5>3 DEF RunDaemon
      <4> QED
        BY <2>1, <4>1, <4>2
    <3>3. CASE WorkerListens(d) \/ WorkerFails(d)
      BY <1>5, <2>1, <3>3
    <3> QED
      BY <3>1, <3>2, <3>3
  <2> QED
    BY <1>3, <1>8, <2>2 DEF Effect, RunsWith, Running
<1> QED
  BY <1>2, <1>6, <1>7, <1>8 DEF Effect, Ahead, Persisted, Past, At

\* launchd finds the agent's daemon running, or the daemon it starts has loaded
\* nothing yet.
LEMMA KeepAliveEffect ==
  ASSUME TypeOK, NEW c \in Launching, Effect(c), KeepAlive
  PROVE  Effect(c)'
<1>1. ~OldServes
  BY DEF KeepAlive, OldServes
<1>2. UNCHANGED <<config, cmd>>
  BY DEF KeepAlive
<1>3. RunsWith(c) => RunsWith(c)'
  <2>1. \A d \in Running' : daemon'[d] = Started(TRUE) \/ (d \in Running /\ daemon'[d] = daemon[d])
    BY FreeIsFree DEF KeepAlive, Running, TypeOK
  <2> QED
    BY <2>1 DEF RunsWith, Started
<1> QED
  BY <1>1, <1>2, <1>3 DEF Effect, Ahead, Persisted, Past, Settled, At

\* The files and commands around c: a command that is no setup with the agent
\* writes what it loaded, and its own settings.
LEMMA OtherStepEffect ==
  ASSUME TypeOK, FilesOnly, NEW c \in Launching, Effect(c),
         NEW e \in Editor \ Launching, CommandRuns(e)
  PROVE  Effect(c)'
<1>1. c \in Command /\ e \in Command /\ e # c
  BY Kinds
<1>2. /\ cmd[e].at \in {"idle", "load", "truncate", "fill", "again", "refill", "identity",
                        "insert"}
      /\ \A f \in Command : f # e => cmd'[f] = cmd[f]
  BY <1>1, Stages DEF FilesOnly
<1>3. UNCHANGED <<daemon, agent>>
  BY <1>2 DEF CommandRuns, Begin, RunCommand, Load, Truncate, Fill, Check, Stop, TruncateAgain,
     Refill, Identify, Insert, Bootout, Bootstrap, BootstrapFails, Kickstart, Wait, Spawn, At
<1>4. cmd'[c] = cmd[c]
  BY <1>1, <1>2
<1>5. ASSUME Persisted(c)
      PROVE  Settled(c)'
  <2>1. Settled(c)
    BY <1>5 DEF Effect
  <2>2. config' # Torn => config' # None /\ c \in config'
    <3>1. CASE Fill(e) \/ Refill(e)
      <4>1. config' = cmd[e].cfg /\ cmd[e].at \in {"fill", "refill"} /\ cmd[e].cfg \in Config
        BY <1>1, <3>1 DEF Fill, Refill, At, TypeOK, Progress
      <4> QED
        BY <1>1, <2>1, <4>1, LifecycleAssumption DEF Settled
    <3>2. CASE ~(Fill(e) \/ Refill(e))
      <4>1. config' = config \/ config' = Torn
        BY <3>2 DEF CommandRuns, Begin, RunCommand, Load, Truncate, Check, Stop, TruncateAgain,
           Identify, Insert, Bootout, Bootstrap, BootstrapFails, Kickstart, Wait, Spawn
      <4> QED
        BY <2>1, <4>1 DEF Settled
    <3> QED
      BY <3>1, <3>2
  <2>3. ASSUME cmd'[e].at \in {"truncate", "fill", "again", "refill"}
        PROVE  c \in cmd'[e].cfg
    <3>1. CASE Load(e)
      <4>1. config # Torn /\ cmd'[e].cfg = Loaded \cup ({e} \cap Editor)
        BY <1>1, <2>3, <3>1, Loads
      <4> QED
        BY <2>1, <4>1 DEF Settled, Loaded
    <3>2. CASE ~Load(e)
      <4>1. cmd[e].at \in {"truncate", "fill", "again", "refill"}
        BY <1>1, <1>2, <2>3, <3>2, Kinds, Stages
      <4> QED
        BY <1>1, <2>1, <3>2, <4>1, Stages DEF Settled
    <3> QED
      BY <3>1, <3>2
  <2> QED
    BY <1>2, <2>1, <2>2, <2>3 DEF Settled
<1>6. Ahead(c)' = Ahead(c) /\ Persisted(c)' = Persisted(c) /\ Past(c)' = Past(c)
  BY <1>4 DEF Ahead, Persisted, Past, At
<1>7. OldServes' = OldServes /\ RunsWith(c)' = RunsWith(c)
  BY <1>3 DEF OldServes, RunsWith, Running
<1> QED
  BY <1>5, <1>6, <1>7 DEF Effect

\* setup itself: it writes its settings, stops every daemon and starts new ones.
LEMMA OwnStepEffect ==
  ASSUME TypeOK, OneCommand, NEW c \in Launching, OwnSettings(c), Effect(c), CommandRuns(c)
  PROVE  Effect(c)'
<1>1. /\ c \in Command /\ c \in Editor /\ c \notin Detach
      /\ AfterWrite(c) = "stop" /\ AfterIdentity(c) = "bootout"
      /\ cmd[c] \in Progress
  BY Kinds DEF TypeOK
<1>2. \A e \in Command : e # c => cmd'[e] = cmd[e]
  BY <1>1, Stages
<1>3. \A e \in Command : e # c /\ cmd[c].at # "idle" => cmd[e].at \in {"idle", "done"}
  <2>1. cmd[c].at # "done"
    BY <1>1, Stages
  <2> QED
    BY <1>1, <2>1 DEF OneCommand, Busy
<1>4. CASE cmd[c].at = "idle"
  <2>1. Begin(c)
    BY <1>1, <1>4 DEF CommandRuns, RunCommand, Load, Truncate, Fill, Check, Stop, TruncateAgain,
       Refill, Identify, Insert, Bootout, Bootstrap, BootstrapFails, Kickstart, Wait, Spawn, At
  <2>2. Ahead(c) /\ cmd'[c].at = "load" /\ UNCHANGED <<daemon, agent>>
    BY <1>1, <1>4, <2>1, Stages DEF Ahead, Begin
  <2> QED
    BY <2>2 DEF Effect, Ahead, Persisted, Past, OldServes, Running, At
<1>5. CASE cmd[c].at = "load"
  <2>1. Load(c)
    BY <1>1, <1>5, Stages
  <2>2. /\ UNCHANGED <<daemon, agent>>
        /\ cmd'[c].at = "truncate" \/ (cmd'[c].at = "done" /\ cmd'[c].cfg = {})
    BY <1>1, <1>5, <2>1, Loads DEF Load, OwnSettings
  <2> QED
    BY <1>5, <2>2 DEF Effect, Ahead, Persisted, Past, OldServes, Running, At
<1>6. CASE cmd[c].at = "truncate"
  <2>1. Truncate(c)
    BY <1>1, <1>6 DEF CommandRuns, Begin, RunCommand, Load, Fill, Check, Stop, TruncateAgain,
       Refill, Identify, Insert, Bootout, Bootstrap, BootstrapFails, Kickstart, Wait, Spawn, At
  <2>2. cmd'[c].at = "fill" /\ UNCHANGED <<daemon, agent>>
    BY <1>1, <1>6, <2>1, Stages DEF Truncate
  <2> QED
    BY <1>6, <2>2 DEF Effect, Ahead, Persisted, Past, OldServes, Running, At
<1>7. CASE cmd[c].at = "fill"
  <2>1. Fill(c)
    BY <1>1, <1>7 DEF CommandRuns, Begin, RunCommand, Load, Truncate, Check, Stop, TruncateAgain,
       Refill, Identify, Insert, Bootout, Bootstrap, BootstrapFails, Kickstart, Wait, Spawn, At
  <2>2. /\ cmd'[c].at = "stop" /\ UNCHANGED <<daemon, agent>>
        /\ config' = cmd[c].cfg /\ config' \in Config /\ c \in config'
    BY <1>1, <1>7, <2>1, Stages DEF Fill, OwnSettings, Progress
  <2>3. Settled(c)'
    BY <1>2, <1>3, <1>7, <2>2, LifecycleAssumption DEF Settled
  <2> QED
    BY <1>7, <2>2, <2>3 DEF Effect, Ahead, Persisted, Past, OldServes, Running, At
<1>8. CASE cmd[c].at = "stop"
  <2>1. Stop(c)
    BY <1>1, <1>8 DEF CommandRuns, Begin, RunCommand, Load, Truncate, Fill, Check, TruncateAgain,
       Refill, Identify, Insert, Bootout, Bootstrap, BootstrapFails, Kickstart, Wait, Spawn, At
  <2>2. /\ cmd'[c].at = "again" /\ cmd'[c].cfg = cmd[c].cfg
        /\ config' = config /\ Running' = {}
    BY <1>1, <1>8, <2>1, Stages DEF Stop, Stopped, Running, Load, At
  <2>3. Settled(c)'
    BY <1>1, <1>2, <1>8, <2>2 DEF Effect, Persisted, Settled, OwnSettings, At
  <2> QED
    BY <2>2, <2>3 DEF Effect, Ahead, Persisted, Past, RunsWith, At
<1>9. CASE Past(c)
  <2>1. /\ cmd[c].at \in {"again", "refill", "identity", "insert", "bootout", "bootstrap",
                          "kickstart", "await", "spawn", "wait"}
        /\ c \in cmd[c].cfg /\ ~Load(c)
    BY <1>1, <1>9, Stages DEF Past, At, OwnSettings
  <2>2. cmd'[c].cfg = cmd[c].cfg /\ cmd'[c].at \notin {"idle", "load", "truncate", "fill", "stop"}
    BY <1>1, <2>1, Stages
  <2>3. Settled(c) /\ RunsWith(c)
    BY <1>9 DEF Effect, Persisted
  <2>4. config' # Torn => config' # None /\ c \in config'
    <3>1. CASE Refill(c)
      BY <1>1, <2>1, <3>1, LifecycleAssumption DEF Refill, Progress
    <3>2. CASE ~Refill(c)
      <4>1. config' = config \/ config' = Torn
        BY <2>1, <3>2 DEF CommandRuns, Begin, RunCommand, Truncate, Fill, Check, Stop,
           TruncateAgain, Identify, Insert, Bootout, Bootstrap, BootstrapFails, Kickstart, Wait,
           Spawn, At
      <4> QED
        BY <2>3, <4>1 DEF Settled
    <3> QED
      BY <3>1, <3>2
  <2>5. Settled(c)'
    BY <1>2, <2>1, <2>2, <2>3, <2>4 DEF Settled
  <2>6. \A d \in Daemon : \/ daemon'[d] \in {daemon[d], None}
                          \/ daemon'[d] \in {Started(TRUE), Started(FALSE)}
    <3>1. CASE Bootstrap(c) \/ Spawn(c) \/ Kickstart(c)
      BY <3>1, FreeIsFree DEF Bootstrap, Spawn, Kickstart, AgentStopped, TypeOK
    <3>2. CASE Bootout(c)
      BY <3>2 DEF Bootout, AgentStopped
    <3>3. CASE daemon' = daemon
      BY <3>3
    <3> QED
      BY <2>1, <3>1, <3>2, <3>3 DEF CommandRuns, Begin, RunCommand, Truncate, Fill, Check, Stop,
         TruncateAgain, Refill, Identify, Insert, BootstrapFails, Wait, At
  <2>7. RunsWith(c)'
    <3>1. Started(TRUE).at = "load" /\ Started(FALSE).at = "load"
      BY DEF Started
    <3> QED
      BY <2>3, <2>6, <3>1 DEF RunsWith, Running
  <2> QED
    BY <2>2, <2>5, <2>7 DEF Effect, Ahead
<1> QED
  <2>1. cmd[c].at \notin {"done", "check"}
    BY <1>1, Stages DEF OwnSettings
  <2> QED
    BY <1>1, <1>4, <1>5, <1>6, <1>7, <1>8, <1>9, <2>1 DEF Progress, Past

\* Every step preserves the invariant.
LEMMA SetupStep ==
  TypeOK /\ SetupInv /\ [Next]_vars => SetupInv'
<1> SUFFICES ASSUME TypeOK, SetupInv, [Next]_vars PROVE SetupInv'
  OBVIOUS
<1>1. OneCommand' /\ FilesOnly' /\ \A c \in Launching : OwnSettings(c)'
  BY CommandStep, StagesStep DEF SetupInv
<1>2. ASSUME NEW c \in Launching, SettledBefore(c)'
      PROVE  Effect(c)'
  <2>1. c \in Command
    BY Kinds
  <2>2. ASSUME NEW e \in Command, CommandRuns(e), e \in (Launching \cup Detach) \ {c}
        PROVE  FALSE
    <3>1. cmd'[e].at = "idle"
      BY <1>2, <2>2 DEF SettledBefore, At
    <3> QED
      BY <2>2, <3>1, NeverIdleAgain
  <2>3. SettledBefore(c)
    <3>1. ASSUME NEW e \in (Launching \cup Detach) \ {c}
          PROVE  At(e, "idle")
      <4>1. e \in Command /\ cmd'[e].at = "idle"
        BY <1>2, Kinds DEF SettledBefore, At, Command
      <4>2. ~CommandRuns(e)
        BY <2>2, <4>1
      <4>3. cmd'[e] = cmd[e]
        <5>1. CASE cmd' = cmd
          BY <5>1
        <5>2. ASSUME NEW f \in Command, CommandRuns(f)
              PROVE  cmd'[e] = cmd[e]
          BY <4>1, <4>2, <5>2, Stages
        <5> QED
          BY <5>1, <5>2, SomeCommandOrNone
      <4> QED
        BY <4>1, <4>3 DEF At
    <3> QED
      BY <3>1 DEF SettledBefore
  <2>4. Effect(c)
    BY <2>3 DEF SetupInv
  <2>5. ASSUME NEW e \in Command, CommandRuns(e)
        PROVE  Effect(c)'
    <3>1. CASE e = c
      BY <2>4, <2>5, <3>1, OwnStepEffect DEF SetupInv
    <3>2. CASE e # c
      <4>1. e \in Editor \ Launching
        BY <2>2, <2>5, <3>2 DEF Command
      <4> QED
        BY <2>4, <2>5, <4>1, OtherStepEffect DEF SetupInv
    <3> QED
      BY <3>1, <3>2
  <2>6. ASSUME UNCHANGED vars
        PROVE  Effect(c)'
    BY <2>4, <2>6 DEF vars, Effect, Ahead, Persisted, Past, OldServes, Settled, RunsWith, Running, At
  <2> QED
    BY <2>4, <2>5, <2>6, DaemonStepEffect, KeepAliveEffect DEF Next, CommandRuns
<1> QED
  BY <1>1, <1>2 DEF SetupInv

\* The node keeps what setup was told: once setup has written its config, every
\* config that can be read and every daemon that has loaded one has it (setup
\* persists, stops, and persists again in initialize_home).
THEOREM SetupsTakeEffect == Spec => []SetupTakesEffect
<1>1. Init => SetupInv
  <2> SUFFICES ASSUME Init PROVE SetupInv
    OBVIOUS
  <2>1. \A c \in Command : cmd[c].at = "idle" /\ cmd[c].cfg = {}
    BY DEF Init
  <2>2. OldServes
    <3>1. CASE agent = FALSE /\ daemon = [d \in Daemon |-> None]
      BY <3>1 DEF OldServes, Running
    <3>2. ASSUME agent \in BOOLEAN, NEW worker \in {"live", "dead"},
                 daemon = [e \in Daemon |->
                   IF e = (CHOOSE d \in Daemon : TRUE)
                   THEN [at |-> "serve", cfg |-> {}, ident |-> Old, worker |-> worker,
                         agent |-> agent]
                   ELSE None]
          PROVE  OldServes
      <4> DEFINE old == [at |-> "serve", cfg |-> {}, ident |-> Old, worker |-> worker,
                         agent |-> agent]
                 first == CHOOSE d \in Daemon : TRUE
      <4>1. old.at = "serve" /\ old.agent = agent /\ old \in Process
        BY <3>2 DEF Process, Config, Identity
      <4>2. first \in Daemon /\ old # None
        BY <4>1, LifecycleAssumption
      <4>3. daemon[first] = old /\ \A d \in Daemon : d # first => daemon[d] = None
        BY <3>2, <4>2
      <4> HIDE DEF old, first
      <4> QED
        BY <4>1, <4>2, <4>3 DEF OldServes, Running
    <3> QED
      BY <3>1, <3>2 DEF Init
  <2>3. OneCommand /\ FilesOnly
    BY <2>1, Kinds DEF OneCommand, FilesOnly, Busy
  <2>4. \A c \in Launching : OwnSettings(c) /\ Effect(c)
    BY <2>1, <2>2, Kinds DEF OwnSettings, Effect, Persisted, Past, At
  <2> QED
    BY <2>3, <2>4 DEF SetupInv
<1>2. SetupInv => SetupTakesEffect
  BY DEF SetupInv, SetupTakesEffect, Effect, Written, Persisted, Past, Settled, RunsWith, At
<1> QED
  BY <1>1, <1>2, InitType, NextType, SetupStep, PTL DEF Spec
=============================================================================
