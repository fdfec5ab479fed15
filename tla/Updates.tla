------------------------------ MODULE Updates ------------------------------
(***************************************************************************)
(* Binary updates (internal/updates, api/updates_handlers.go) running over *)
(* the process manager: the release cache, one ApplyUpdate at a time       *)
(* through applyMu, the download and its checks, the two renames of the    *)
(* swap, the restart, the rollback when it fails, and RouteBox's own       *)
(* update, which re-executes the panel half a second after its answer.     *)
(***************************************************************************)
EXTENDS ProcessManager

CONSTANTS
    Asks,       \* concurrent ApplyUpdate requests for amnezia-box
    Controls,   \* process operations others ask for meanwhile
    Rejects     \* builds whose preflight fails: they reject the current config

ASSUME UpdatesAssumption == "torn" \notin Builds \cup {None} /\ None \notin Asks

VARIABLES
    latest,   \* the build GitHub names as releases/latest
    cache,    \* Checker.cache: the release of the last check, None on error
    upd,      \* the holder of applyMu: phase, target path, release
    ask,      \* where each ApplyUpdate request is
    exitDue   \* the panel answered its own update and will re-execute

updVars == <<latest, cache, upd, ask, exitDue>>
allVars == <<procVars, updVars>>

NoUpd   == [at |-> "idle", for |-> None, path |-> "bin", rel |-> None,
            was |-> None, slip |-> FALSE]
NoAsk   == [at |-> "idle", rel |-> None]

\* What renaming and writing binaries leaves alone.
FileFrame == UNCHANGED <<hasUnit, unitVars, startedPID, pathVars, op, req, unsure, ops>>
ProcFrame == UNCHANGED <<hasUnit, proc, unitVars, file, startedPID, pathVars, op, req, unsure, ops>>

-----------------------------------------------------------------------------
(* The checker and the handler up to the updater's lock.                     *)

\* Somebody releases a build.
Publishes == \E b \in Builds \ {latest} :
    /\ Fault("network")
    /\ latest' = b
    /\ UNCHANGED <<hasUnit, proc, unitVars, file, binaryPath, startedPID, pathVars,
                   op, req, unsure, ops, cache, upd, ask, exitDue>>

\* Check: the daily tick, CheckUpdates, or ApplyUpdate without a release.
Fetched == \/ cache' = latest /\ NoFault
           \/ cache' = None /\ Fault("network")

Check == /\ Fetched
         /\ UNCHANGED <<binaryPath, latest, upd, ask, exitDue>> /\ ProcFrame

Set(r, a) == ask' = [ask EXCEPT ![r] = a]

\* ApplyUpdate takes the cached release; without one it checks first ...
AskUpdate(r) ==
    /\ ask[r] = NoAsk /\ ops < MaxOps /\ ops' = ops + 1
    /\ IF cache # None
         THEN Set(r, [at |-> "taken", rel |-> cache]) /\ UNCHANGED <<cache, faults>>
         ELSE /\ Fetched
              /\ IF cache' = None THEN UNCHANGED ask ELSE Set(r, [at |-> "cached", rel |-> None])
    /\ UNCHANGED <<hasUnit, proc, unitVars, file, binaryPath, startedPID, pathVars,
                   op, req, unsure, latest, upd, exitDue>>

\* ... and reads the cache again: a check that failed in between leaves no
\* release, the handler dereferences nil and the request is gone.
TakeRelease(r) ==
    /\ ask[r].at = "cached"
    /\ Set(r, IF cache = None THEN NoAsk ELSE [at |-> "taken", rel |-> cache])
    /\ NoFault /\ UNCHANGED <<binaryPath, latest, cache, upd, exitDue>> /\ ProcFrame

\* CurrentVersion: nothing runs there, or it is the release already.
CompareVersion(r) ==
    /\ ask[r].at = "taken"
    /\ binaryPath' = Probed
    /\ Set(r, IF file[At(Probed)] \in {None, ask[r].rel} THEN NoAsk
              ELSE [ask[r] EXCEPT !.at = "newer"])
    /\ NoFault /\ UNCHANGED <<latest, cache, upd, exitDue>> /\ ProcFrame

\* TryLock of applyMu: another update may have come and gone since.
Admit(r) ==
    /\ ask[r].at = "newer"
    /\ IF upd # NoUpd
         THEN Set(r, NoAsk) /\ UNCHANGED upd
         ELSE /\ Set(r, [ask[r] EXCEPT !.at = "applying"])
              /\ upd' = [NoUpd EXCEPT !.at = "download", !.for = r, !.rel = ask[r].rel,
                                      !.was = file[At(binaryPath)], !.path = binaryPath]
    /\ NoFault /\ UNCHANGED <<binaryPath, latest, cache, exitDue>> /\ ProcFrame

-----------------------------------------------------------------------------
(* Updater.apply.                                                            *)

Slot(s)  == <<upd.path, s>>
Phase(s) == upd' = [upd EXCEPT !.at = s]
UpdRest  == UNCHANGED <<latest, cache, ask, exitDue>>

\* os.Rename: the name, and the exe links of the processes that run the file.
Rename(a, b) ==
    /\ file' = [file EXCEPT ![b] = file[a], ![a] = None]
    /\ proc' = [p \in Pids |->
         IF proc[p] = None THEN None
         ELSE IF proc[p].exe = a THEN [proc[p] EXCEPT !.exe = b]
         ELSE IF proc[p].exe = b /\ b[2] # "failed" THEN [proc[p] EXCEPT !.exe = Gone]
         ELSE proc[p]]

\* A rename that cannot happen, or fails.
RenameFails(a) ==
    /\ IF file[a] = None THEN NoFault ELSE Fault("rename")
    /\ UNCHANGED <<file, proc>>

\* Drop the download; the update has failed.
GiveUp == /\ Phase("err") /\ UNCHANGED proc
          /\ file' = [file EXCEPT ![Slot("new")] = None]

\* The file is truncated and filled: until the end it is torn.
DownloadBegins ==
    /\ upd.at = "download" /\ file[Slot("new")] # "torn"
    /\ file' = [file EXCEPT ![Slot("new")] = "torn"]
    /\ NoFault /\ UNCHANGED <<proc, binaryPath, upd>> /\ FileFrame /\ UpdRest

DownloadEnds ==
    /\ upd.at = "download" /\ file[Slot("new")] = "torn"
    /\ \/ /\ Phase("verify") /\ UNCHANGED proc /\ NoFault
          /\ file' = [file EXCEPT ![Slot("new")] = upd.rel]
       \/ /\ Phase("verify") /\ UNCHANGED <<file, proc>> /\ Fault("network")
       \/ GiveUp /\ Fault("network")
    /\ UNCHANGED binaryPath /\ FileFrame /\ UpdRest

\* Mutant: only the preflight looks at the download.
VerifyConfigOnly ==
    /\ upd.at = "verify"
    /\ IF upd.rel \in Rejects THEN GiveUp ELSE Phase("swap") /\ UNCHANGED <<file, proc>>
    /\ NoFault /\ UNCHANGED binaryPath /\ FileFrame /\ UpdRest

\* Checksum, ELF magic, smoke run, preflight against the current config.
Verify ==
    /\ upd.at = "verify"
    /\ IF file[Slot("new")] # upd.rel \/ upd.rel \in Rejects
         THEN GiveUp
         ELSE Phase("swap") /\ UNCHANGED <<file, proc>>
    /\ NoFault /\ UNCHANGED binaryPath /\ FileFrame /\ UpdRest

BackUp ==
    /\ upd.at = "swap"
    /\ \/ /\ file[Slot("at")] # None /\ NoFault
          /\ Phase("install") /\ Rename(Slot("at"), Slot("old"))
       \/ /\ GiveUp
          /\ IF file[Slot("at")] = None THEN NoFault ELSE Fault("rename")
    /\ UNCHANGED binaryPath /\ FileFrame /\ UpdRest

\* Mutant: a failed install forgets to put the old binary back.
InstallNoRestore ==
    /\ upd.at = "install"
    /\ \/ Phase("restart") /\ Rename(Slot("new"), Slot("at")) /\ NoFault
       \/ Phase("err") /\ RenameFails(Slot("new"))
    /\ UNCHANGED binaryPath /\ FileFrame /\ UpdRest

\* When the download cannot take the place of the binary, the old one goes
\* back, unless that fails as well.
Install ==
    /\ upd.at = "install"
    /\ \/ Phase("restart") /\ Rename(Slot("new"), Slot("at")) /\ NoFault
       \/ Phase("err") /\ Rename(Slot("old"), Slot("at")) /\ Fault("rename")
       \/ /\ upd' = [upd EXCEPT !.at = "err", !.slip = TRUE]
          /\ UNCHANGED <<file, proc>> /\ Fault("rename")
    /\ UNCHANGED binaryPath /\ FileFrame /\ UpdRest

\* Target.Restart is Manager.Restart: its gate, opMu, and its answer.
Restarts ==
    /\ upd.at \in {"restart", "again"}
    /\ IF Mismatch
         THEN /\ upd' = [upd EXCEPT !.at = IF @ = "restart" THEN "putAside" ELSE "err"]
              /\ UNCHANGED <<op, proc>>
         ELSE /\ Begin("restart", "updater")
              /\ upd' = [upd EXCEPT !.at = IF @ = "restart" THEN "waits" ELSE "waitsAgain"]
    /\ NoFault
    /\ UNCHANGED <<hasUnit, unitVars, file, binaryPath, startedPID, pathVars, req, unsure, ops>>
    /\ UpdRest

\* Mutant: the updater has no branch for a restart that failed.
RestartedBlind ==
    /\ upd.at \in {"waits", "waitsAgain"}
    /\ op.who = "updater" /\ op.at = "ok"
    /\ op' = NoOp
    /\ Phase(IF upd.at = "waitsAgain" THEN "err" ELSE "done")
    /\ NoFault
    /\ UNCHANGED <<hasUnit, proc, unitVars, file, binaryPath, startedPID, pathVars, req, unsure, ops>>
    /\ UpdRest

Restarted ==
    /\ upd.at \in {"waits", "waitsAgain"}
    /\ op.who = "updater" /\ op.at \in {"ok", "err"}
    /\ op' = NoOp
    /\ Phase(IF upd.at = "waitsAgain" THEN "err"
             ELSE IF op.at = "ok" THEN "done" ELSE "putAside")
    /\ NoFault
    /\ UNCHANGED <<hasUnit, proc, unitVars, file, binaryPath, startedPID, pathVars, req, unsure, ops>>
    /\ UpdRest

\* Rollback: failures of its renames are only logged.
PutAside ==
    /\ upd.at = "putAside"
    /\ \/ Phase("putBack") /\ Rename(Slot("at"), Slot("failed")) /\ NoFault
       \/ /\ upd' = [upd EXCEPT !.at = "putBack", !.slip = TRUE]
          /\ RenameFails(Slot("at"))
    /\ UNCHANGED binaryPath /\ FileFrame /\ UpdRest

PutBack ==
    /\ upd.at = "putBack"
    /\ \/ Phase("again") /\ Rename(Slot("old"), Slot("at")) /\ NoFault
       \/ /\ upd' = [upd EXCEPT !.at = "again", !.slip = TRUE]
          /\ RenameFails(Slot("old"))
    /\ UNCHANGED binaryPath /\ FileFrame /\ UpdRest

\* The handler answers and applyMu is free.
Answer ==
    /\ upd.at \in {"done", "err"} /\ upd.for # None
    /\ upd' = NoUpd /\ Set(upd.for, NoAsk)
    /\ NoFault /\ UNCHANGED <<binaryPath, latest, cache, exitDue>> /\ ProcFrame

-----------------------------------------------------------------------------
(* RouteBox's own update: the same lock, then syscall.Exec of the new panel. *)

SelfUpdate ==
    /\ upd = NoUpd /\ ~exitDue
    /\ Fault("boot")
    /\ exitDue' = TRUE
    /\ UNCHANGED <<binaryPath, latest, cache, upd, ask>> /\ ProcFrame

\* The panel starts afresh, at a re-execution or after a crash.
Rebooted ==
    /\ Booted
    /\ cache' = None /\ upd' = NoUpd /\ exitDue' = FALSE
    /\ ask' = [r \in Asks |-> NoAsk]
    /\ UNCHANGED latest

ReExec == exitDue /\ NoFault /\ Rebooted
Crash  == Fault("boot") /\ Rebooted

-----------------------------------------------------------------------------
UpdInit ==
    /\ Init /\ saved = ours
    /\ latest \in Builds /\ cache = None /\ upd = NoUpd
    /\ ask = [r \in Asks |-> NoAsk] /\ exitDue = FALSE

\* A step of the process manager, or of the machine, under the updater.
UnderStep ==
    /\ \/ \E k \in Controls : Control(k)
       \/ OpStep \/ Finish \/ StatusPoll
       \/ \E p \in Pids : Exits(p)
       \/ Respawns
    /\ UNCHANGED updVars

ApplyStep == \/ DownloadBegins \/ DownloadEnds \/ Verify \/ BackUp \/ Install
             \/ Restarts \/ Restarted \/ PutAside \/ PutBack \/ Answer

UpdNext ==
    \/ UnderStep
    \/ Publishes \/ Check
    \/ \E r \in Asks : AskUpdate(r) \/ TakeRelease(r) \/ CompareVersion(r) \/ Admit(r)
    \/ ApplyStep
    \/ SelfUpdate \/ ReExec \/ Crash

UpdFairness ==
    /\ WF_allVars(OpStep /\ UNCHANGED updVars)
    /\ WF_allVars(Finish /\ UNCHANGED updVars)
    /\ SF_allVars(Restarts) /\ WF_allVars(ApplyStep)

UpdSpec == UpdInit /\ [][UpdNext]_allVars /\ UpdFairness

-----------------------------------------------------------------------------
\* Whatever fails and whenever RouteBox dies, a complete binary is left at the
\* install path or in its .old slot, and nothing unverified is ever installed
\* (apply: verification before the swap, restore and rollback after it).
BinarySurvives ==
    /\ \E s \in {"at", "old"} : file[<<"bin", s>>] \in Builds
    /\ \A n \in Names : n[2] # "new" => file[n] # "torn"

\* An update that answers an error has left the build that was installed,
\* unless a rename of the rollback failed (install's restore, the rollback).
FailureRollsBack ==
    upd.at = "err" /\ ~upd.slip => file[Slot("at")] = upd.was

\* An update that answers success, "updated and restarted", has left no
\* process of another build running (exeMatches finds what the swap renamed).
UpdatedIsRunning ==
    upd.at = "done" => \A p \in Alive : proc[p].build = upd.rel

\* applyMu is released: the update ends, or the panel restarts.
UpdateEnds == upd # NoUpd ~> upd = NoUpd
=============================================================================
