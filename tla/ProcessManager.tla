--------------------------- MODULE ProcessManager ---------------------------
(***************************************************************************)
(* The amnezia-box process as RouteBox controls it: process.Manager        *)
(* (internal/process/manager.go) with its four operations, serialised by   *)
(* opMu, and the three repairs of a config path mismatch (dropin.go and    *)
(* the handlers FixUnitConfigPath, RemoveUnitConfigDropIn and              *)
(* AdoptUnitConfigPath), which take no common lock.                        *)
(*                                                                         *)
(* An operation sleeps and polls, so it is several steps; in between, the  *)
(* process may exit, systemd may bring it back, an operator may start one  *)
(* by hand and a repair may move the unit.  A config file is its path, a   *)
(* binary file is the build in it.                                         *)
(***************************************************************************)
EXTENDS Naturals

CONSTANTS
    Pids,         \* process identifiers
    Paths,        \* config paths
    UnitFileCfg,  \* the path the unit file names in its own ExecStart
    Builds,       \* amnezia-box builds
    Repairs,      \* concurrent repair requests
    Faults,       \* the kinds of outside event a run lets happen
    Pinned,       \* singbox.binary_path or --binary is set
    None,         \* no process, no path, no file
    MaxOps,       \* bound: operations and repairs asked for
    MaxFaults     \* bound: outside events

ASSUME ProcessAssumption ==
    /\ UnitFileCfg \in Paths
    /\ None \notin Pids /\ None \notin Paths /\ None \notin Builds
    /\ Faults \subseteq {"exit", "respawn", "hand", "systemctl", "reload",
                         "read", "outside", "boot", "save", "rename", "network"}
    /\ Pinned \in BOOLEAN
    /\ MaxOps \in Nat /\ MaxFaults \in Nat

VARIABLES
    hasUnit,     \* serviceName # "": a systemd unit was detected at startup
    proc,        \* the amnezia-box processes of the machine
    wanted,      \* systemd means to keep the unit running
    loaded,      \* the config path of the ExecStart systemd has loaded
    dropIn,      \* the path in 10-routebox-config.conf, None without the file
    file,        \* the binaries: two install paths, each with .new, .old, .failed
    binaryPath,  \* Manager.binaryPath
    startedPID,  \* Manager.startedPID
    ours,        \* Manager.configPath
    unitPath,    \* Manager.unitPath, the unit's path as last read
    cfgPath,     \* config.Manager's path: the file edits go to
    saved,       \* settings singbox.config_path
    op,          \* the operation that holds opMu
    req,         \* where each repair request is
    unsure,      \* history: a removal answered that the unit's path is unknown,
                 \* or somebody else reloaded systemd since it was read
    ops, faults

unitVars  == <<wanted, loaded, dropIn>>
pathVars  == <<ours, unitPath, cfgPath, saved>>
procVars  == <<hasUnit, proc, unitVars, file, binaryPath, startedPID,
               pathVars, op, req, unsure, ops, faults>>

Names     == {"bin", "other"} \X {"at", "new", "old", "failed"}
At(b)     == <<b, "at">>
Gone      == <<"bin", "gone">>   \* unlinked while it ran
Process   == [by : {"unit", "own", "hand"}, cfg : Paths, build : Builds,
              exe : Names \cup {Gone}, term : BOOLEAN, prior : BOOLEAN]
NoOp      == [kind |-> "none", at |-> "idle", who |-> "none", pid |-> None, cfg |-> None]
NoReq     == [at |-> "idle", path |-> None, mine |-> None]

Operation == ops < MaxOps /\ ops' = ops + 1
Fault(k)  == k \in Faults /\ faults < MaxFaults /\ faults' = faults + 1
NoFault   == UNCHANGED faults

-----------------------------------------------------------------------------
(* What RouteBox sees of the machine.                                        *)

Alive == {p \in Pids : proc[p] # None}

\* Mutant: a process whose binary was renamed to .old is not recognised.
MatchesInPlaceOnly(p) == proc[p].exe[2] = "at"

\* The exe link with " (deleted)" and ".old" taken off names the binary.
exeMatches(p) == proc[p].exe[2] \in {"at", "old", "gone"}

Found == {p \in Alive : exeMatches(p)}

\* findPID: the process RouteBox started, else any found in /proc.
findPID == IF startedPID \in Found THEN {startedPID} ELSE Found

\* is-active of the detected unit.
IsSystemdManaged == hasUnit /\ \E p \in Alive : proc[p].by = "unit"

\* GetVersion: an unpinned manager whose binary does not run moves to the one
\* it finds on PATH.
Probed == IF file[At(binaryPath)] = None /\ ~Pinned /\ file[At("other")] # None
            THEN "other" ELSE binaryPath

\* GetStatus, as part of an operation or of a status poll: a stale startedPID
\* is cleared, the binary is probed.
Seen == /\ startedPID' = IF startedPID \in Found THEN startedPID ELSE None
        /\ binaryPath' = Probed

\* ConfigMismatch: derived from the two remembered paths.
Mismatch == unitPath # None /\ unitPath # ours

-----------------------------------------------------------------------------
(* Launching and ending processes.                                           *)

Launched(by, cfg, exe) ==
    [by |-> by, cfg |-> cfg, build |-> file[exe], exe |-> exe,
     term |-> FALSE, prior |-> FALSE]

\* A new process in a free slot; an absent binary starts nothing.
Launch(by, cfg, exe, ps) ==
    IF file[exe] = None THEN proc' = ps
    ELSE \E p \in {q \in Pids : ps[q] = None} :
            proc' = [ps EXCEPT ![p] = Launched(by, cfg, exe)]

WithoutUnit == [p \in Pids |->
    IF proc[p] # None /\ proc[p].by = "unit" THEN None ELSE proc[p]]

To(s) == op' = [op EXCEPT !.at = s]

-----------------------------------------------------------------------------
(* The operations.  Start, Restart and Reload are refused on a mismatch.     *)

\* The gate, and opMu taken.
Begin(k, who) ==
    /\ op = NoOp
    /\ k = "stop" \/ ~Mismatch
    /\ op' = [NoOp EXCEPT !.kind = k, !.at = "decide", !.who = who, !.cfg = cfgPath]
    /\ proc' = [p \in Pids |-> IF proc[p] = None THEN None
                               ELSE [proc[p] EXCEPT !.prior = TRUE]]

Control(k) ==
    /\ Operation
    /\ Begin(k, "panel")
    /\ UNCHANGED <<hasUnit, unitVars, file, binaryPath, startedPID, pathVars, req, unsure, faults>>

OpFrame == UNCHANGED <<hasUnit, loaded, dropIn, file, pathVars, req, unsure, ops>>

\* Reload: SIGHUP to the unit's main process or to the one found.
ReloadStep ==
    /\ op.kind = "reload" /\ op.at = "decide"
    /\ To(IF Found = {} THEN "err" ELSE "ok")
    /\ Seen /\ NoFault
    /\ UNCHANGED <<proc, wanted>> /\ OpFrame

\* Restart outside systemd: stop what runs, then start.
RestartStandalone ==
    /\ op.kind = "restart" /\ op.at = "decide" /\ ~IsSystemdManaged
    /\ To(IF Found = {} THEN "start" ELSE "stop")
    /\ Seen /\ NoFault
    /\ UNCHANGED <<proc, wanted>> /\ OpFrame

\* Mutant: an active unit is started, which does nothing, not restarted.
RestartUnitByStart ==
    /\ op.kind = "restart" /\ op.at = "decide" /\ IsSystemdManaged
    /\ To("verify") /\ NoFault
    /\ wanted' = TRUE
    /\ UNCHANGED <<proc, startedPID, binaryPath>> /\ OpFrame

\* systemctl restart; its job may fail after the new process is up.
RestartUnit ==
    /\ op.kind = "restart" /\ op.at = "decide" /\ IsSystemdManaged
    /\ \/ To("verify") /\ NoFault
       \/ To("err") /\ Fault("systemctl")
    /\ Launch("unit", loaded, At("bin"), WithoutUnit)
    /\ wanted' = TRUE
    /\ UNCHANGED <<startedPID, binaryPath>> /\ OpFrame

Direct ==
    /\ op.at = "decide" /\ op.kind \in {"start", "stop"}
    /\ To(op.kind)
    /\ NoFault /\ UNCHANGED <<proc, wanted, startedPID, binaryPath>> /\ OpFrame

\* stopLocked: systemctl stop, which may fail, or SIGTERM to the process found.
StopStep ==
    /\ op.at = "stop" /\ Seen
    /\ \/ /\ \/ Found = {} /\ NoFault
             \/ Found # {} /\ IsSystemdManaged /\ Fault("systemctl")
          /\ To("err") /\ UNCHANGED <<proc, wanted>>
       \/ /\ Found # {} /\ IsSystemdManaged /\ NoFault
          /\ proc' = WithoutUnit /\ wanted' = FALSE
          /\ To("unitGone")
       \/ /\ Found # {} /\ ~IsSystemdManaged /\ NoFault
          /\ \E p \in findPID :
                /\ proc' = [proc EXCEPT ![p].term = TRUE]
                /\ op' = [op EXCEPT !.at = "gone", !.pid = p]
          /\ UNCHANGED wanted
    /\ OpFrame

\* The poll finds no process.
Stopped ==
    /\ op.at \in {"unitGone", "gone", "killed"} /\ Found = {}
    /\ To(IF op.kind = "restart" THEN "start" ELSE "ok")

StopPolled ==
    /\ Stopped
    /\ startedPID' = None
    /\ binaryPath' = Probed
    /\ NoFault /\ UNCHANGED <<proc, wanted>> /\ OpFrame

\* Mutant: SIGTERM is never followed by SIGKILL.
StopOnlyTerminates ==
    /\ op.at \in {"unitGone", "killed"} /\ Found # {}
    /\ To("err") /\ UNCHANGED proc
    /\ Seen /\ NoFault /\ UNCHANGED wanted /\ OpFrame

\* Five seconds are over: a unit is given up, a process is killed.
StopTimesOut ==
    /\ op.at \in {"unitGone", "gone", "killed"} /\ Found # {}
    /\ IF op.at = "gone"
         THEN To("killed") /\ proc' = [proc EXCEPT ![op.pid] = None]
         ELSE To("err") /\ UNCHANGED proc
    /\ Seen /\ NoFault /\ UNCHANGED wanted /\ OpFrame

\* startLocked: through the unit when there is one, else as a child.
StartStep ==
    /\ op.at = "start"
    /\ binaryPath' = Probed
    /\ \/ /\ Found # {}
          /\ To("err") /\ NoFault
          /\ UNCHANGED <<proc, wanted>>
          /\ startedPID' = IF startedPID \in Found THEN startedPID ELSE None
       \/ /\ Found = {} /\ hasUnit
          /\ \/ /\ To("verify") /\ NoFault /\ wanted' = TRUE
                /\ IF IsSystemdManaged THEN UNCHANGED proc   \* an active unit
                   ELSE Launch("unit", loaded, At("bin"), proc)
             \/ To("err") /\ Fault("systemctl") /\ UNCHANGED <<wanted, proc>>
          /\ startedPID' = None
       \/ /\ Found = {} /\ ~hasUnit
          /\ file[At(binaryPath')] # None
          /\ \E p \in {q \in Pids : proc[q] = None} :
                /\ proc' = [proc EXCEPT ![p] = Launched("own", op.cfg, At(binaryPath'))]
                /\ startedPID' = p
          /\ To("verify") /\ NoFault /\ UNCHANGED wanted
       \/ /\ Found = {} /\ ~hasUnit
          /\ file[At(binaryPath')] = None
          /\ To("err") /\ NoFault /\ startedPID' = None
          /\ UNCHANGED <<proc, wanted>>
    /\ OpFrame

\* Half a second later: is it running?
VerifyStep ==
    /\ op.at = "verify"
    /\ To(IF Found = {} THEN "err" ELSE "ok")
    /\ Seen /\ NoFault /\ UNCHANGED <<proc, wanted>> /\ OpFrame

\* The answer is out, opMu is free.
Finish ==
    /\ op.at \in {"ok", "err"} /\ op.who = "panel"
    /\ op' = NoOp
    /\ NoFault /\ UNCHANGED <<proc, wanted, startedPID, binaryPath>> /\ OpFrame

OpStep == \/ ReloadStep \/ RestartStandalone \/ RestartUnit \/ Direct
          \/ StopStep \/ StopPolled \/ StopTimesOut \/ StartStep \/ VerifyStep

StatusPoll == Seen /\ NoFault /\ UNCHANGED <<proc, wanted, op>> /\ OpFrame

-----------------------------------------------------------------------------
(* The machine.  A second process finds the inbound ports taken and exits,   *)
(* so nobody but RouteBox is assumed to start one beside a live one.         *)

Exits(p) ==
    /\ p \in Alive
    /\ IF proc[p].term THEN NoFault ELSE Fault("exit")
    /\ proc' = [proc EXCEPT ![p] = None]
    /\ UNCHANGED <<hasUnit, unitVars, file, binaryPath, startedPID, pathVars, op, req, unsure, ops>>

Respawns ==
    /\ hasUnit /\ wanted /\ Alive = {} /\ file[At("bin")] # None
    /\ Fault("respawn")
    /\ Launch("unit", loaded, At("bin"), proc)
    /\ UNCHANGED <<hasUnit, unitVars, file, binaryPath, startedPID, pathVars, op, req, unsure, ops>>

HandStart(c) ==
    /\ Alive = {} /\ file[At("bin")] # None
    /\ Fault("hand")
    /\ Launch("hand", c, At("bin"), proc)
    /\ UNCHANGED <<hasUnit, unitVars, file, binaryPath, startedPID, pathVars, op, req, unsure, ops>>

\* What ExecStart becomes at a daemon-reload.
Effective == IF dropIn = None THEN UnitFileCfg ELSE dropIn

\* Somebody else's daemon-reload.
OutsideReload ==
    /\ hasUnit /\ loaded # Effective
    /\ Fault("outside")
    /\ loaded' = Effective /\ unsure' = TRUE
    /\ UNCHANGED <<hasUnit, proc, wanted, dropIn, file, binaryPath, startedPID, pathVars, op, req, ops>>

-----------------------------------------------------------------------------
(* The repairs.  Each names the step it is at; a failure ends it.            *)

Reached(h, s)    == req[h].at = s
Move(h, r)   == req' = [req EXCEPT ![h] = r]
Go(h, r)     == Move(h, r) /\ UNCHANGED unsure
Done(h)      == Go(h, NoReq)
Paused(h, s) == Go(h, [req[h] EXCEPT !.at = s])
ReqFrame     == UNCHANGED <<hasUnit, proc, wanted, file, binaryPath, startedPID, op>>

\* The removal stands, its effect on the unit is not known: a warning.
Warned(h)    == Move(h, NoReq) /\ unsure' = TRUE
\* What the unit names is known again.
Known(h)     == Move(h, NoReq) /\ unsure' = FALSE

\* FixUnitConfigPath: only with a recorded mismatch.
Fix(h) ==
    /\ Reached(h, "idle") /\ hasUnit /\ Mismatch
    /\ Operation
    /\ Go(h, [NoReq EXCEPT !.at = "write", !.path = ours])
    /\ NoFault /\ UNCHANGED <<loaded, dropIn, pathVars>> /\ ReqFrame

WriteDropIn(h) ==
    /\ Reached(h, "write")
    /\ \/ dropIn' = req[h].path /\ Paused(h, "reload") /\ NoFault
       \/ UNCHANGED dropIn /\ Done(h) /\ Fault("save")
    /\ UNCHANGED <<loaded, pathVars, ops>> /\ ReqFrame

\* Mutant: the expected path is recorded instead of the one read back.
TrustRetargeted(h) ==
    /\ Reached(h, "reload") /\ Known(h)
    /\ ours' = req[h].path /\ unitPath' = req[h].path
    /\ NoFault
    /\ UNCHANGED <<loaded, dropIn, cfgPath, saved, ops>> /\ ReqFrame

ReloadWritten(h) ==
    /\ Reached(h, "reload")
    /\ \/ loaded' = Effective /\ Paused(h, "confirm") /\ NoFault
       \/ UNCHANGED loaded /\ Done(h) /\ Fault("reload")  \* the file stays
    /\ UNCHANGED <<dropIn, pathVars, ops>> /\ ReqFrame

\* verifyUnitRetargeted: both paths from what the unit says now.
VerifyRetargeted(h) ==
    /\ Reached(h, "confirm")
    /\ \/ ours' = req[h].path /\ unitPath' = loaded /\ Known(h) /\ NoFault
       \/ UNCHANGED <<ours, unitPath>> /\ Done(h) /\ Fault("read")
    /\ UNCHANGED <<loaded, dropIn, cfgPath, saved, ops>> /\ ReqFrame

\* RemoveConfigDropIn.
Remove(h) ==
    /\ Reached(h, "idle") /\ dropIn # None
    /\ Operation
    /\ dropIn' = None /\ Paused(h, "unload")
    /\ NoFault /\ UNCHANGED <<loaded, pathVars>> /\ ReqFrame

ReloadRemoved(h) ==
    /\ Reached(h, "unload")
    /\ \/ loaded' = Effective /\ Paused(h, "reread") /\ NoFault
       \/ UNCHANGED loaded /\ Warned(h) /\ Fault("reload")
    /\ UNCHANGED <<dropIn, pathVars, ops>> /\ ReqFrame

Reread(h) ==
    /\ Reached(h, "reread")
    /\ \/ Go(h, [at |-> "record", path |-> loaded, mine |-> ours]) /\ NoFault
       \/ Warned(h) /\ Fault("read")
    /\ UNCHANGED <<loaded, dropIn, pathVars, ops>> /\ ReqFrame

RecordRemoved(h) ==
    /\ Reached(h, "record") /\ Done(h)
    /\ ours' = req[h].mine /\ unitPath' = req[h].path
    /\ NoFault /\ UNCHANGED <<loaded, dropIn, cfgPath, saved, ops>> /\ ReqFrame

\* AdoptUnitConfigPath: read the unit, move the config manager, record, save.
Adopt(h) ==
    /\ Reached(h, "idle") /\ hasUnit
    /\ Operation
    /\ Go(h, [NoReq EXCEPT !.at = "setPath", !.path = loaded])
    /\ NoFault /\ UNCHANGED <<loaded, dropIn, pathVars>> /\ ReqFrame

SetPath(h) ==
    /\ Reached(h, "setPath")
    /\ \/ cfgPath' = req[h].path /\ Paused(h, "adopt") /\ NoFault
       \/ UNCHANGED cfgPath /\ Done(h) /\ Fault("read")
    /\ UNCHANGED <<loaded, dropIn, ours, unitPath, saved, ops>> /\ ReqFrame

RecordAdopted(h) ==
    /\ Reached(h, "adopt") /\ Done(h)
    /\ ours' = req[h].path /\ unitPath' = req[h].path
    /\ \/ saved' = req[h].path /\ NoFault
       \/ UNCHANGED saved /\ Fault("save")
    /\ UNCHANGED <<loaded, dropIn, cfgPath, ops>> /\ ReqFrame

RepairStep(h) ==
    \/ WriteDropIn(h) \/ ReloadWritten(h) \/ VerifyRetargeted(h)
    \/ ReloadRemoved(h) \/ Reread(h) \/ RecordRemoved(h)
    \/ SetPath(h) \/ RecordAdopted(h)

-----------------------------------------------------------------------------
(* RouteBox starts: main resolves the config path from the settings, else    *)
(* from the running process, else from the unit; NewManager the binary.      *)

BootPaths == IF saved # None THEN {saved}
             ELSE IF Found # {} THEN {proc[p].cfg : p \in Found}
             ELSE IF hasUnit THEN {loaded} ELSE {UnitFileCfg}

\* findBinary, or the unit's own binary.
findBinary == IF file[At("bin")] = None /\ ~Pinned /\ file[At("other")] # None
                THEN "other" ELSE "bin"

Booted ==
    /\ \E c \in BootPaths : ours' = c /\ cfgPath' = c
    /\ unitPath' = IF hasUnit THEN loaded ELSE None
    /\ binaryPath' = findBinary
    /\ startedPID' = None
    /\ op' = NoOp /\ req' = [h \in Repairs |-> NoReq] /\ unsure' = FALSE
    /\ UNCHANGED <<hasUnit, proc, unitVars, file, saved, ops>>

Reboot == Fault("boot") /\ Booted

\* The panel starts with a configured or detected path, amnezia-box down or up.
Init ==
    /\ hasUnit \in BOOLEAN
    /\ wanted \in (IF hasUnit THEN BOOLEAN ELSE {FALSE})
    /\ loaded = UnitFileCfg /\ dropIn = None
    /\ \E b \in Builds, o \in Builds \cup {None} :
          file = [n \in Names |-> IF n = At("bin") THEN b
                                  ELSE IF n = At("other") THEN o ELSE None]
    /\ binaryPath = "bin" /\ startedPID = None
    /\ saved \in Paths \cup {None}
    /\ ours = IF saved = None THEN UnitFileCfg ELSE saved
    /\ cfgPath = ours
    /\ unitPath = IF hasUnit THEN loaded ELSE None
    /\ \E p \in Pids : proc = [q \in Pids |->
          IF q = p /\ wanted THEN Launched("unit", loaded, At("bin")) ELSE None]
    /\ op = NoOp /\ req = [h \in Repairs |-> NoReq] /\ unsure = FALSE
    /\ ops = 0 /\ faults = 0

Next ==
    \/ \E k \in {"start", "stop", "restart", "reload"} : Control(k)
    \/ OpStep \/ Finish \/ StatusPoll
    \/ \E p \in Pids : Exits(p)
    \/ Respawns \/ \E c \in Paths : HandStart(c)
    \/ OutsideReload
    \/ \E h \in Repairs : Fix(h) \/ Remove(h) \/ Adopt(h) \/ RepairStep(h)
    \/ Reboot

Fairness == /\ WF_procVars(OpStep) /\ WF_procVars(Finish)
            /\ \A h \in Repairs : WF_procVars(RepairStep(h))

Spec == Init /\ [][Next]_procVars /\ Fairness

-----------------------------------------------------------------------------
ProcTypeOK ==
    /\ hasUnit \in BOOLEAN /\ wanted \in BOOLEAN
    /\ proc \in [Pids -> Process \cup {None}]
    /\ loaded \in Paths /\ dropIn \in Paths \cup {None}
    /\ file \in [Names -> Builds \cup {None, "torn"}]
    /\ binaryPath \in {"bin", "other"}
    /\ startedPID \in Pids \cup {None}
    /\ ours \in Paths /\ cfgPath \in Paths
    /\ unitPath \in Paths \cup {None} /\ saved \in Paths \cup {None}
    /\ op.at \in {"idle", "decide", "start", "stop", "unitGone", "gone",
                  "killed", "verify", "ok", "err"}
    /\ ops \in Nat /\ faults \in Nat

\* The gate of Start, Restart and Reload is truthful: when no repair is under
\* way and the remembered paths show no mismatch, the file RouteBox edits is
\* the one systemd would start amnezia-box with (checkConfigMismatch), unless
\* systemd was reloaded by another or the removal of a drop-in has warned that it could not find out.
GateIsTruthful ==
    hasUnit /\ (\A h \in Repairs : req[h] = NoReq) /\ ~Mismatch /\ ~unsure
        => cfgPath = loaded

\* RouteBox never brings up a second amnezia-box beside a live one.
OneProcess == \A p, q \in Alive : p = q

\* A Restart that answers success left nothing of what ran when it was asked
\* (Restart; exeMatches must know the process under its renamed binary).
RestartReplaces ==
    op.kind = "restart" /\ op.at = "ok" => \A p \in Alive : ~proc[p].prior

\* An operation does not hold opMu for ever: every poll loop has an end.
OperationEnds == op # NoOp ~> op = NoOp
=============================================================================
