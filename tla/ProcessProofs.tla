---------------------------- MODULE ProcessProofs ----------------------------
(***************************************************************************)
(* The process manager, for any paths, operations, failures and restarts   *)
(* of the panel, its gate with one repair at a time; and the updates over  *)
(* it, for any builds and requests.                                        *)
(*                                                                         *)
(* Hardly any of the properties is inductive.  While a repair is on its    *)
(* way, each of its steps relies on what the one before has read or        *)
(* written, and one that is cut short must leave the mismatch on record;   *)
(* each phase of an update relies on what the one before left in the slots *)
(* of its path; and what a restart replaces depends on which processes can *)
(* be found, by whom they were started and under which name they run.      *)
(***************************************************************************)
EXTENDS Updates, TLAPS

Steps == {"idle", "decide", "start", "stop", "unitGone", "gone", "killed", "verify", "ok", "err"}

OpType == [kind : {"none", "start", "stop", "restart", "reload"}, at : Steps,
           who : {"none", "panel", "updater"}, pid : Pids \cup {None}, cfg : Paths \cup {None}]

Places == {"idle", "write", "reload", "confirm", "unload", "reread", "record",
           "setPath", "adopt"}

ReqType == [at : Places, path : Paths \cup {None}, mine : Paths \cup {None}]

\* A download may be torn, what is installed is not.
Installed == \A b \in {"bin", "other"} : file[At(b)] \in Builds \cup {None}

\* ProcTypeOK, and what it does not say of binaries, operations and repairs.
TypeInv ==
    /\ ProcTypeOK
    /\ Installed
    /\ op \in OpType /\ (op.at # "idle" => op.cfg \in Paths)
    /\ req \in [Repairs -> ReqType]
    /\ \A h \in Repairs :
          /\ req[h].at \in {"write", "reload", "confirm", "record", "setPath", "adopt"}
                => req[h].path \in Paths
          /\ req[h].at = "record" => req[h].mine \in Paths

-----------------------------------------------------------------------------
(* Type correctness.                                                         *)

LEMMA NamesAre == At("bin") \in Names /\ At("other") \in Names
BY DEF Names, At

LEMMA LaunchTyped ==
    ASSUME TypeInv, NEW by \in {"unit", "own", "hand"}, NEW cfg \in Paths, NEW b \in {"bin", "other"},
           NEW ps \in [Pids -> Process \cup {None}], Launch(by, cfg, At(b), ps)
    PROVE  proc' \in [Pids -> Process \cup {None}]
<1>1. CASE file[At(b)] = None
  BY <1>1 DEF Launch
<1>2. CASE file[At(b)] # None
  <2>1. Launched(by, cfg, At(b)) \in Process
    BY <1>2, NamesAre DEF Launched, Process, TypeInv, Installed
  <2> QED BY <1>2, <2>1 DEF Launch
<1> QED BY <1>1, <1>2

LEMMA WithoutUnitTyped == TypeInv => WithoutUnit \in [Pids -> Process \cup {None}]
BY DEF TypeInv, ProcTypeOK, Installed, WithoutUnit

LEMMA SeenTyped ==
    ASSUME TypeInv, Seen
    PROVE  startedPID' \in Pids \cup {None} /\ binaryPath' \in {"bin", "other"}
BY DEF Seen, Probed, TypeInv, ProcTypeOK, Installed

LEMMA ToTyped ==
    ASSUME TypeInv, op.at # "idle", NEW s \in Steps, To(s)
    PROVE  op' \in OpType /\ op'.cfg \in Paths
BY DEF TypeInv, To, OpType

LEMMA FaultTyped == ASSUME TypeInv, NEW k, Fault(k) \/ NoFault PROVE faults' \in Nat
BY DEF TypeInv, ProcTypeOK, Installed, Fault, NoFault

\* A step of an operation.
LEMMA OpTyped ==
    ASSUME TypeInv, OpFrame, faults' \in Nat, wanted' \in BOOLEAN,
           proc' \in [Pids -> Process \cup {None}],
           startedPID' \in Pids \cup {None}, binaryPath' \in {"bin", "other"},
           op' \in OpType, op'.at # "idle" => op'.cfg \in Paths
    PROVE  TypeInv'
BY DEF TypeInv, ProcTypeOK, Installed, OpFrame, unitVars, pathVars, OpType, Steps

LEMMA OpStepTyped == ASSUME TypeInv, OpStep PROVE TypeInv'
<1> USE ProcessAssumption
<1>0. /\ wanted \in BOOLEAN /\ proc \in [Pids -> Process \cup {None}] /\ loaded \in Paths
      /\ startedPID \in Pids \cup {None} /\ binaryPath \in {"bin", "other"}
      /\ Probed \in {"bin", "other"} /\ Installed
      /\ op \in OpType /\ (op.at # "idle" => op.cfg \in Paths)
  BY DEF TypeInv, ProcTypeOK, Installed, Probed
<1>1. CASE ReloadStep
  <2>1. op' \in OpType /\ op'.cfg \in Paths
    BY <1>1, ToTyped DEF ReloadStep, Steps
  <2> QED BY <1>0, <1>1, <2>1, SeenTyped, FaultTyped, OpTyped DEF ReloadStep
<1>2. CASE RestartStandalone
  <2>1. op' \in OpType /\ op'.cfg \in Paths
    BY <1>2, ToTyped DEF RestartStandalone, Steps
  <2> QED BY <1>0, <1>2, <2>1, SeenTyped, FaultTyped, OpTyped DEF RestartStandalone
<1>3. CASE RestartUnit
  <2>1. op' \in OpType /\ op'.cfg \in Paths
    BY <1>3, ToTyped DEF RestartUnit, Steps
  <2>2. proc' \in [Pids -> Process \cup {None}]
    BY <1>0, <1>3, LaunchTyped, WithoutUnitTyped, NamesAre DEF RestartUnit
  <2> QED BY <1>0, <1>3, <2>1, <2>2, FaultTyped, OpTyped DEF RestartUnit
<1>4. CASE Direct
  <2>1. op' \in OpType /\ op'.cfg \in Paths
    BY <1>4, ToTyped DEF Direct, Steps
  <2> QED BY <1>0, <1>4, <2>1, FaultTyped, OpTyped DEF Direct
<1>5. CASE StopStep
  <2>1. CASE To("err") \/ To("unitGone")
    <3>1. op' \in OpType /\ op'.cfg \in Paths
      BY <1>5, <2>1, ToTyped DEF StopStep, Steps
    <3>2. proc' \in [Pids -> Process \cup {None}] /\ wanted' \in BOOLEAN
      <4>1. CASE UNCHANGED <<proc, wanted>>
        BY <1>0, <4>1
      <4>2. CASE proc' = WithoutUnit /\ wanted' = FALSE
        BY <4>2, WithoutUnitTyped
      <4>3. CASE \E p \in findPID : op' = [op EXCEPT !.at = "gone", !.pid = p]
        BY <1>0, <2>1, <4>3 DEF To, OpType
      <4> QED BY <1>5, <4>1, <4>2, <4>3 DEF StopStep
    <3> QED BY <1>0, <1>5, <3>1, <3>2, SeenTyped, FaultTyped, OpTyped DEF StopStep
  <2>2. ASSUME NEW p \in findPID, UNCHANGED wanted,
               proc' = [proc EXCEPT ![p].term = TRUE],
               op' = [op EXCEPT !.at = "gone", !.pid = p]
        PROVE  TypeInv'
    <3>1. p \in Pids /\ proc[p] \in Process
      BY <1>0, <2>2 DEF findPID, Found, Alive
    <3>2. [proc[p] EXCEPT !.term = TRUE] \in Process
      BY <3>1 DEF Process
    <3>3. proc' \in [Pids -> Process \cup {None}]
      BY <1>0, <2>2, <3>1, <3>2
    <3>4. op' \in OpType /\ op'.cfg \in Paths
      BY <1>0, <1>5, <2>2, <3>1 DEF OpType, Steps, StopStep
    <3> QED BY <1>0, <1>5, <2>2, <3>3, <3>4, SeenTyped, FaultTyped, OpTyped DEF StopStep
  <2> QED BY <1>5, <2>1, <2>2 DEF StopStep
<1>6. CASE StopPolled
  <2>1. op' \in OpType /\ op'.cfg \in Paths
    BY <1>6, ToTyped DEF StopPolled, Stopped, Steps
  <2> QED BY <1>0, <1>6, <2>1, FaultTyped, OpTyped DEF StopPolled
<1>7. CASE StopTimesOut
  <2>1. op' \in OpType /\ op'.cfg \in Paths
    BY <1>7, ToTyped DEF StopTimesOut, Steps
  <2>2. proc' \in [Pids -> Process \cup {None}]
    BY <1>0, <1>7 DEF StopTimesOut
  <2> QED BY <1>0, <1>7, <2>1, <2>2, SeenTyped, FaultTyped, OpTyped DEF StopTimesOut
<1>8. CASE StartStep
  <2>1. op' \in OpType /\ op'.cfg \in Paths
    BY <1>8, ToTyped DEF StartStep, Steps
  <2>2. op.cfg \in Paths
    BY <1>0, <1>8 DEF StartStep
  <2>3. binaryPath' \in {"bin", "other"} /\ At(binaryPath') \in Names
    BY <1>0, <1>8, NamesAre DEF StartStep
  <2>4. proc' \in [Pids -> Process \cup {None}]
    <3>1. CASE Launch("unit", loaded, At("bin"), proc)
      BY <1>0, <3>1, LaunchTyped, NamesAre
    <3>2. CASE file[At(binaryPath')] # None /\ \E p \in Pids :
                 proc' = [proc EXCEPT ![p] = Launched("own", op.cfg, At(binaryPath'))]
      <4>1. Launched("own", op.cfg, At(binaryPath')) \in Process
        BY <1>0, <2>2, <2>3, <3>2 DEF Launched, Process, Installed
      <4> QED BY <1>0, <3>2, <4>1
    <3> QED BY <1>0, <1>8, <3>1, <3>2 DEF StartStep
  <2>5. wanted' \in BOOLEAN /\ startedPID' \in Pids \cup {None}
    BY <1>0, <1>8 DEF StartStep
  <2>6. faults' \in Nat
    BY <1>8, FaultTyped DEF StartStep
  <2> QED BY <1>8, <2>1, <2>3, <2>4, <2>5, <2>6, OpTyped DEF StartStep
<1>9. CASE VerifyStep
  <2>1. op' \in OpType /\ op'.cfg \in Paths
    BY <1>9, ToTyped DEF VerifyStep, Steps
  <2> QED BY <1>0, <1>9, <2>1, SeenTyped, FaultTyped, OpTyped DEF VerifyStep
<1> QED BY <1>1, <1>2, <1>3, <1>4, <1>5, <1>6, <1>7, <1>8, <1>9 DEF OpStep

\* A step of the machine: it moves processes and what systemd has loaded.
LEMMA MachineTyped ==
    ASSUME TypeInv, NEW p \in Pids, NEW c \in Paths,
           Exits(p) \/ Respawns \/ HandStart(c) \/ OutsideReload
    PROVE  TypeInv'
<1> USE ProcessAssumption
<1>0. /\ proc \in [Pids -> Process \cup {None}] /\ loaded \in Paths
      /\ dropIn \in Paths \cup {None} /\ Effective \in Paths
  BY DEF TypeInv, ProcTypeOK, Installed, Effective
<1>1. CASE Exits(p)
  <2>1. faults' \in Nat
    BY <1>1, FaultTyped DEF Exits
  <2>2. proc' \in [Pids -> Process \cup {None}]
    BY <1>0, <1>1 DEF Exits
  <2> QED BY <1>1, <2>1, <2>2 DEF Exits, TypeInv, ProcTypeOK, Installed, unitVars, pathVars
<1>2. CASE Respawns
  <2>1. faults' \in Nat
    BY <1>2, FaultTyped DEF Respawns
  <2>2. proc' \in [Pids -> Process \cup {None}]
    BY <1>0, <1>2, LaunchTyped, NamesAre DEF Respawns
  <2> QED BY <1>2, <2>1, <2>2 DEF Respawns, TypeInv, ProcTypeOK, Installed, unitVars, pathVars
<1>3. CASE HandStart(c)
  <2>1. faults' \in Nat
    BY <1>3, FaultTyped DEF HandStart
  <2>2. proc' \in [Pids -> Process \cup {None}]
    BY <1>0, <1>3, LaunchTyped, NamesAre DEF HandStart
  <2> QED BY <1>3, <2>1, <2>2 DEF HandStart, TypeInv, ProcTypeOK, Installed, unitVars, pathVars
<1>4. CASE OutsideReload
  <2>1. faults' \in Nat
    BY <1>4, FaultTyped DEF OutsideReload
  <2> QED BY <1>0, <1>4, <2>1 DEF OutsideReload, TypeInv, ProcTypeOK, Installed, pathVars
<1> QED BY <1>1, <1>2, <1>3, <1>4

\* An operation is asked for, answered, or the status is read.
LEMMA AskTyped ==
    ASSUME TypeInv, NEW k \in {"start", "stop", "restart", "reload"},
           Control(k) \/ Finish \/ StatusPoll
    PROVE  TypeInv'
<1> USE ProcessAssumption
<1>0. /\ proc \in [Pids -> Process \cup {None}] /\ cfgPath \in Paths
      /\ wanted \in BOOLEAN /\ ops \in Nat /\ op \in OpType
      /\ startedPID \in Pids \cup {None} /\ binaryPath \in {"bin", "other"}
      /\ (op.at # "idle" => op.cfg \in Paths)
  BY DEF TypeInv, ProcTypeOK, Installed
<1>1. CASE Control(k)
  <2>1. proc' \in [Pids -> Process \cup {None}]
    <3>1. \A q \in Process : [q EXCEPT !.prior = TRUE] \in Process
      BY DEF Process
    <3> QED BY <1>0, <1>1, <3>1 DEF Control, Begin
  <2>2. op' \in OpType /\ op'.cfg \in Paths
    BY <1>0, <1>1 DEF Control, Begin, NoOp, OpType, Steps
  <2>3. ops' \in Nat
    BY <1>0, <1>1 DEF Control, Operation
  <2> QED BY <1>1, <2>1, <2>2, <2>3
          DEF Control, TypeInv, ProcTypeOK, Installed, unitVars, pathVars, OpType, Steps
<1>2. CASE Finish
  <2>1. op' \in OpType /\ op'.at = "idle"
    BY <1>2 DEF Finish, NoOp, OpType, Steps
  <2> QED BY <1>0, <1>2, <2>1, FaultTyped, OpTyped DEF Finish
<1>3. CASE StatusPoll
  BY <1>0, <1>3, SeenTyped, FaultTyped, OpTyped DEF StatusPoll
<1> QED BY <1>1, <1>2, <1>3

\* The paths a repair moves, and its request.
LEMMA RepairTyped ==
    ASSUME TypeInv, NEW h \in Repairs, ReqFrame,
           loaded' \in Paths, dropIn' \in Paths \cup {None},
           ours' \in Paths, cfgPath' \in Paths,
           unitPath' \in Paths \cup {None}, saved' \in Paths \cup {None},
           ops' \in Nat, faults' \in Nat,
           NEW r \in ReqType, Move(h, r),
           r.at \in {"write", "reload", "confirm", "record", "setPath", "adopt"} => r.path \in Paths,
           r.at = "record" => r.mine \in Paths
    PROVE  TypeInv'
<1>1. req' \in [Repairs -> ReqType] /\ req'[h] = r /\ \A g \in Repairs : g # h => req'[g] = req[g]
  BY DEF Move, TypeInv
<1>2. /\ UNCHANGED <<hasUnit, proc, wanted, file, binaryPath, startedPID, op>>
      /\ ProcTypeOK /\ Installed
      /\ op \in OpType /\ (op.at # "idle" => op.cfg \in Paths)
  BY DEF ReqFrame, TypeInv
<1>3. ProcTypeOK'
  BY <1>2 DEF ProcTypeOK
<1>4. \A g \in Repairs :
          /\ req'[g].at \in {"write", "reload", "confirm", "record", "setPath", "adopt"}
                => req'[g].path \in Paths
          /\ req'[g].at = "record" => req'[g].mine \in Paths
  BY <1>1 DEF TypeInv
<1> QED BY <1>1, <1>2, <1>3, <1>4 DEF TypeInv, Installed

LEMMA RepairStepTyped ==
    ASSUME TypeInv, NEW h \in Repairs, Fix(h) \/ Remove(h) \/ Adopt(h) \/ RepairStep(h)
    PROVE  TypeInv'
<1> USE ProcessAssumption
<1> DEFINE q == req[h]
<1>0. /\ loaded \in Paths /\ dropIn \in Paths \cup {None} /\ Effective \in Paths
      /\ ours \in Paths /\ cfgPath \in Paths /\ ops \in Nat
      /\ unitPath \in Paths \cup {None} /\ saved \in Paths \cup {None}
      /\ q \in ReqType
      /\ q.at \in {"write", "reload", "confirm", "record", "setPath", "adopt"} => q.path \in Paths
      /\ q.at = "record" => q.mine \in Paths
  BY DEF TypeInv, ProcTypeOK, Installed, Effective
<1>1. NoReq \in ReqType /\ NoReq.at = "idle"
  BY DEF NoReq, ReqType, Places
<1>2. Operation => ops' \in Nat
  BY <1>0 DEF Operation
<1> HIDE DEF q
<1>3. \A s \in Places : [q EXCEPT !.at = s] \in ReqType /\ [q EXCEPT !.at = s].at = s
                        /\ [q EXCEPT !.at = s].path = q.path
  BY <1>0 DEF ReqType
<1> USE DEF Reached, Go, Done, Paused, Warned, Known, Places
<1>4. CASE Fix(h)
  <2> DEFINE r == [NoReq EXCEPT !.at = "write", !.path = ours]
  <2>1. r \in ReqType /\ r.at = "write" /\ r.path \in Paths
    BY <1>0 DEF NoReq, ReqType
  <2>2. ops' \in Nat /\ faults' \in Nat /\ ReqFrame /\ Move(h, r)
        /\ UNCHANGED <<loaded, dropIn, ours, unitPath, cfgPath, saved>>
    BY <1>2, <1>4, FaultTyped DEF Fix, pathVars
  <2> HIDE DEF r
  <2> QED BY <1>0, <2>1, <2>2, RepairTyped
<1>5. CASE WriteDropIn(h)
  <2>1. ops' \in Nat /\ faults' \in Nat /\ ReqFrame /\ dropIn' \in Paths \cup {None}
        /\ UNCHANGED <<loaded, ours, unitPath, cfgPath, saved>>
    BY <1>0, <1>5, FaultTyped DEF WriteDropIn, pathVars, q
  <2>2. Move(h, [q EXCEPT !.at = "reload"]) \/ Move(h, NoReq)
    BY <1>5 DEF WriteDropIn, q
  <2> QED BY <1>0, <1>1, <1>3, <1>5, <2>1, <2>2, RepairTyped DEF WriteDropIn, q
<1>6. CASE ReloadWritten(h)
  <2>1. ops' \in Nat /\ faults' \in Nat /\ ReqFrame /\ loaded' \in Paths
        /\ UNCHANGED <<dropIn, ours, unitPath, cfgPath, saved>>
    BY <1>0, <1>6, FaultTyped DEF ReloadWritten, pathVars
  <2>2. Move(h, [q EXCEPT !.at = "confirm"]) \/ Move(h, NoReq)
    BY <1>6 DEF ReloadWritten, q
  <2> QED BY <1>0, <1>1, <1>3, <1>6, <2>1, <2>2, RepairTyped DEF ReloadWritten, q
<1>7. CASE VerifyRetargeted(h)
  <2>1. ops' \in Nat /\ faults' \in Nat /\ ReqFrame /\ ours' \in Paths
        /\ unitPath' \in Paths \cup {None} /\ UNCHANGED <<loaded, dropIn, cfgPath, saved>>
    BY <1>0, <1>7, FaultTyped DEF VerifyRetargeted, q
  <2>2. Move(h, NoReq)
    BY <1>7 DEF VerifyRetargeted
  <2> QED BY <1>0, <1>1, <2>1, <2>2, RepairTyped
<1>8. CASE Remove(h)
  <2>1. ops' \in Nat /\ faults' \in Nat /\ ReqFrame /\ dropIn' \in Paths \cup {None}
        /\ UNCHANGED <<loaded, ours, unitPath, cfgPath, saved>>
    BY <1>2, <1>8, FaultTyped DEF Remove, pathVars
  <2>2. Move(h, [q EXCEPT !.at = "unload"])
    BY <1>8 DEF Remove, q
  <2> QED BY <1>0, <1>3, <2>1, <2>2, RepairTyped
<1>9. CASE ReloadRemoved(h)
  <2>1. ops' \in Nat /\ faults' \in Nat /\ ReqFrame /\ loaded' \in Paths
        /\ UNCHANGED <<dropIn, ours, unitPath, cfgPath, saved>>
    BY <1>0, <1>9, FaultTyped DEF ReloadRemoved, pathVars
  <2>2. Move(h, [q EXCEPT !.at = "reread"]) \/ Move(h, NoReq)
    BY <1>9 DEF ReloadRemoved, q
  <2> QED BY <1>0, <1>1, <1>3, <2>1, <2>2, RepairTyped
<1>10. CASE Reread(h)
  <2> DEFINE r == [at |-> "record", path |-> loaded, mine |-> ours]
  <2>1. r \in ReqType /\ r.at = "record" /\ r.path \in Paths /\ r.mine \in Paths
    BY <1>0 DEF ReqType
  <2>2. ops' \in Nat /\ faults' \in Nat /\ ReqFrame
        /\ UNCHANGED <<loaded, dropIn, ours, unitPath, cfgPath, saved>>
    BY <1>0, <1>10, FaultTyped DEF Reread, pathVars
  <2>3. Move(h, r) \/ Move(h, NoReq)
    BY <1>10 DEF Reread
  <2> HIDE DEF r
  <2> QED BY <1>0, <1>1, <2>1, <2>2, <2>3, RepairTyped
<1>11. CASE RecordRemoved(h)
  <2>1. ops' \in Nat /\ faults' \in Nat /\ ReqFrame /\ ours' \in Paths
        /\ unitPath' \in Paths \cup {None} /\ UNCHANGED <<loaded, dropIn, cfgPath, saved>>
    BY <1>0, <1>11, FaultTyped DEF RecordRemoved, q
  <2>2. Move(h, NoReq)
    BY <1>11 DEF RecordRemoved
  <2> QED BY <1>0, <1>1, <2>1, <2>2, RepairTyped
<1>12. CASE Adopt(h)
  <2> DEFINE r == [NoReq EXCEPT !.at = "setPath", !.path = loaded]
  <2>1. r \in ReqType /\ r.at = "setPath" /\ r.path \in Paths
    BY <1>0 DEF NoReq, ReqType
  <2>2. ops' \in Nat /\ faults' \in Nat /\ ReqFrame /\ Move(h, r)
        /\ UNCHANGED <<loaded, dropIn, ours, unitPath, cfgPath, saved>>
    BY <1>2, <1>12, FaultTyped DEF Adopt, pathVars
  <2> HIDE DEF r
  <2> QED BY <1>0, <2>1, <2>2, RepairTyped
<1>13. CASE SetPath(h)
  <2>1. ops' \in Nat /\ faults' \in Nat /\ ReqFrame /\ cfgPath' \in Paths
        /\ UNCHANGED <<loaded, dropIn, ours, unitPath, saved>>
    BY <1>0, <1>13, FaultTyped DEF SetPath, q
  <2>2. Move(h, [q EXCEPT !.at = "adopt"]) \/ Move(h, NoReq)
    BY <1>13 DEF SetPath, q
  <2> QED BY <1>0, <1>1, <1>3, <1>13, <2>1, <2>2, RepairTyped DEF SetPath, q
<1>14. CASE RecordAdopted(h)
  <2>1. ops' \in Nat /\ faults' \in Nat /\ ReqFrame /\ ours' \in Paths
        /\ unitPath' \in Paths \cup {None} /\ saved' \in Paths \cup {None}
        /\ UNCHANGED <<loaded, dropIn, cfgPath>>
    BY <1>0, <1>14, FaultTyped DEF RecordAdopted, q
  <2>2. Move(h, NoReq)
    BY <1>14 DEF RecordAdopted
  <2> QED BY <1>0, <1>1, <2>1, <2>2, RepairTyped
<1> QED BY <1>4, <1>5, <1>6, <1>7, <1>8, <1>9, <1>10, <1>11, <1>12, <1>13, <1>14 DEF RepairStep

LEMMA BootTyped ==
    ASSUME TypeInv, Booted, faults' \in Nat
    PROVE  TypeInv'
<1> USE ProcessAssumption
<1>0. /\ proc \in [Pids -> Process \cup {None}] /\ loaded \in Paths
      /\ saved \in Paths \cup {None}
  BY DEF TypeInv, ProcTypeOK, Installed
<1>1. BootPaths \subseteq Paths
  <2>1. \A p \in Found : proc[p].cfg \in Paths
    BY <1>0 DEF Found, Alive, Process
  <2> QED BY <1>0, <2>1 DEF BootPaths
<1>2. ours' \in Paths /\ cfgPath' \in Paths /\ unitPath' \in Paths \cup {None}
  BY <1>0, <1>1 DEF Booted
<1>3. binaryPath' \in {"bin", "other"} /\ startedPID' \in Pids \cup {None}
  BY DEF Booted, findBinary
<1>4. op' \in OpType /\ op'.at = "idle" /\ faults' \in Nat
  BY <1>0 DEF Booted, NoOp, OpType, Steps
<1>5. req' \in [Repairs -> ReqType] /\ \A h \in Repairs : req'[h].at = "idle"
  BY DEF Booted, NoReq, ReqType, Places
<1>6. UNCHANGED <<hasUnit, proc, wanted, loaded, dropIn, file, saved, ops>>
  BY DEF Booted, unitVars
<1>7. ProcTypeOK'
  BY <1>2, <1>3, <1>4, <1>6 DEF TypeInv, ProcTypeOK, Installed, OpType, Steps
<1> QED BY <1>4, <1>5, <1>6, <1>7 DEF TypeInv, Installed

LEMMA InitTyped == Init => TypeInv
<1> SUFFICES ASSUME Init PROVE TypeInv
  OBVIOUS
<1> USE ProcessAssumption
<1>1. file \in [Names -> Builds \cup {None}] /\ file[At("bin")] \in Builds
  BY NamesAre DEF Init, At
<1>2. /\ hasUnit \in BOOLEAN /\ wanted \in BOOLEAN /\ loaded \in Paths
      /\ saved \in Paths \cup {None} /\ ours \in Paths /\ cfgPath \in Paths
      /\ unitPath \in Paths \cup {None} /\ dropIn \in Paths \cup {None}
  BY DEF Init
<1>3. proc \in [Pids -> Process \cup {None}]
  <2>1. Launched("unit", loaded, At("bin")) \in Process
    BY <1>1, <1>2, NamesAre DEF Launched, Process
  <2> QED BY <2>1 DEF Init
<1>4. op \in OpType /\ op.at = "idle" /\ ops \in Nat /\ faults \in Nat
  BY DEF Init, NoOp, OpType, Steps
<1>5. req \in [Repairs -> ReqType] /\ \A h \in Repairs : req[h].at = "idle"
  BY DEF Init, NoReq, ReqType, Places
<1>6. binaryPath \in {"bin", "other"} /\ startedPID \in Pids \cup {None}
  BY DEF Init
<1>7. ProcTypeOK
  BY <1>1, <1>2, <1>3, <1>4, <1>6 DEF ProcTypeOK, OpType, Steps
<1> QED BY <1>1, <1>4, <1>5, <1>7, NamesAre DEF TypeInv, Installed

LEMMA StepTyped == TypeInv /\ [Next]_procVars => TypeInv'
<1> SUFFICES ASSUME TypeInv, [Next]_procVars PROVE TypeInv'
  OBVIOUS
<1>1. CASE Next
  <2>1. UnitFileCfg \in Paths
    BY ProcessAssumption
  <2>2. CASE Respawns \/ OutsideReload \/ \E c \in Paths : HandStart(c)
    <3>1. CASE Pids = {}
      <4>1. CASE Respawns
        <5>1. proc' \in [Pids -> Process \cup {None}]
          BY <3>1, <4>1, LaunchTyped, NamesAre DEF Respawns, TypeInv, ProcTypeOK, Installed
        <5> QED BY <4>1, <5>1, FaultTyped DEF Respawns, TypeInv, ProcTypeOK, Installed, unitVars, pathVars
      <4>2. ASSUME NEW c \in Paths, HandStart(c) PROVE TypeInv'
        <5>1. proc' \in [Pids -> Process \cup {None}]
          BY <3>1, <4>2, LaunchTyped, NamesAre DEF HandStart, TypeInv, ProcTypeOK, Installed
        <5> QED BY <4>2, <5>1, FaultTyped DEF HandStart, TypeInv, ProcTypeOK, Installed, unitVars, pathVars
      <4>3. CASE OutsideReload
        <5>1. faults' \in Nat
          BY <4>3, FaultTyped DEF OutsideReload
        <5> QED BY <4>3, <5>1, <2>1 DEF OutsideReload, Effective, TypeInv, ProcTypeOK, Installed, pathVars
      <4> QED BY <2>2, <4>1, <4>2, <4>3
    <3>2. CASE Pids # {}
      BY <2>1, <2>2, <3>2, MachineTyped
    <3> QED BY <3>1, <3>2
  <2>3. CASE Reboot
    BY <2>3, FaultTyped, BootTyped DEF Reboot
  <2> QED BY <1>1, <2>1, <2>2, <2>3, AskTyped, OpStepTyped, MachineTyped, RepairStepTyped
          DEF Next
<1>2. CASE UNCHANGED procVars
  BY <1>2 DEF procVars, unitVars, pathVars, TypeInv, ProcTypeOK, Installed
<1> QED BY <1>1, <1>2

\* The process manager is type-correct: the variables of process.Manager, of
\* systemd and of the requests keep their types through every operation,
\* repair, failure and restart of the panel.
THEOREM ProcessTyped == Spec => []ProcTypeOK
<1>1. TypeInv => ProcTypeOK
  BY DEF TypeInv
<1> QED BY <1>1, InitTyped, StepTyped, PTL DEF Spec

-----------------------------------------------------------------------------
(* The gate.                                                                 *)

\* What the unit is on record to name, it does name, or the record shows a
\* mismatch, or RouteBox has warned.
OnRecord == unsure \/ Mismatch \/ unitPath = loaded

Settled == cfgPath = ours /\ (hasUnit => OnRecord)

\* What a request has read still holds.
Fresh(h) == unsure \/ req[h].path = loaded

\* What each step of a repair relies on.
Relies(h) ==
    LET s == req[h].at IN
    /\ s \in {"idle", "write", "reload", "setPath"} => Settled
    /\ s \in {"write", "reload", "confirm"} => Mismatch /\ req[h].path = ours /\ cfgPath = ours
    /\ s \in {"unload", "reread"} => cfgPath = ours
    /\ s = "record" => req[h].mine = ours /\ cfgPath = ours /\ Fresh(h)
    /\ s = "setPath" => Fresh(h)
    /\ s = "adopt" => cfgPath = req[h].path /\ Fresh(h)

GateInv == TypeInv /\ ((Repairs = {}) => Settled) /\ \A h \in Repairs : Relies(h)

OneRepair == \A g, h \in Repairs : g = h

LEMMA GateShown == GateInv => GateIsTruthful
<1> SUFFICES ASSUME GateInv, hasUnit, \A h \in Repairs : req[h] = NoReq, ~Mismatch, ~unsure
             PROVE  cfgPath = loaded
  BY DEF GateIsTruthful
<1>1. Settled
  BY DEF GateInv, Relies, NoReq
<1>2. loaded # None
  BY ProcessAssumption DEF GateInv, TypeInv, ProcTypeOK, Installed
<1> QED BY <1>1, <1>2 DEF Settled, OnRecord, Mismatch

\* A step that moves no path.
LEMMA PathsKept ==
    ASSUME GateInv, TypeInv', UNCHANGED <<hasUnit, loaded, ours, unitPath, cfgPath, req, unsure>>
    PROVE  GateInv'
BY DEF GateInv, Relies, Settled, OnRecord, Fresh, Mismatch

LEMMA RepairKeepsGate ==
    ASSUME OneRepair, GateInv, TypeInv', NEW h \in Repairs,
           Fix(h) \/ Remove(h) \/ Adopt(h) \/ RepairStep(h)
    PROVE  GateInv'
<1>1. Repairs = {h}
  BY DEF OneRepair
<1>2. Relies(h) /\ req \in [Repairs -> ReqType] /\ req[h] \in ReqType
  BY DEF GateInv, TypeInv
<1> SUFFICES Relies(h)'
  BY <1>1 DEF GateInv
<1> USE DEF Reached, Go, Done, Paused, Warned, Known, Move, NoReq, ReqFrame, Relies,
            Settled, OnRecord, Fresh, Mismatch
<1>3. CASE Fix(h)
  BY <1>2, <1>3 DEF Fix, pathVars
<1>4. CASE WriteDropIn(h)
  BY <1>2, <1>4 DEF WriteDropIn, pathVars, ReqType
<1>5. CASE ReloadWritten(h)
  BY <1>2, <1>5 DEF ReloadWritten, pathVars, ReqType
<1>6. CASE VerifyRetargeted(h)
  BY <1>2, <1>6 DEF VerifyRetargeted
<1>7. CASE Remove(h)
  BY <1>2, <1>7 DEF Remove, pathVars, ReqType
<1>8. CASE ReloadRemoved(h)
  BY <1>2, <1>8 DEF ReloadRemoved, pathVars, ReqType
<1>9. CASE Reread(h)
  BY <1>2, <1>9 DEF Reread, pathVars, ReqType
<1>10. CASE RecordRemoved(h)
  BY <1>2, <1>10 DEF RecordRemoved
<1>11. CASE Adopt(h)
  BY <1>2, <1>11 DEF Adopt, pathVars
<1>12. CASE SetPath(h)
  BY <1>2, <1>12 DEF SetPath, ReqType
<1>13. CASE RecordAdopted(h)
  BY <1>2, <1>13 DEF RecordAdopted
<1> QED BY <1>3, <1>4, <1>5, <1>6, <1>7, <1>8, <1>9, <1>10, <1>11, <1>12, <1>13 DEF RepairStep

LEMMA StepKeepsGate == OneRepair /\ GateInv /\ [Next]_procVars => GateInv'
<1> SUFFICES ASSUME OneRepair, GateInv, [Next]_procVars PROVE GateInv'
  OBVIOUS
<1>1. TypeInv'
  BY StepTyped DEF GateInv
<1>2. ASSUME NEW k \in {"start", "stop", "restart", "reload"}, Control(k) PROVE GateInv'
  BY <1>1, <1>2, PathsKept DEF Control, unitVars, pathVars
<1>3. CASE OpStep \/ Finish \/ StatusPoll
  <2>1. OpFrame
    BY <1>3 DEF OpStep, ReloadStep, RestartStandalone, RestartUnit, Direct, StopStep,
                StopPolled, StopTimesOut, StartStep, VerifyStep, Finish, StatusPoll
  <2> QED BY <1>1, <2>1, PathsKept DEF OpFrame, pathVars
<1>4. ASSUME NEW p \in Pids, Exits(p) PROVE GateInv'
  BY <1>1, <1>4, PathsKept DEF Exits, unitVars, pathVars
<1>5. CASE Respawns
  BY <1>1, <1>5, PathsKept DEF Respawns, unitVars, pathVars
<1>6. ASSUME NEW c \in Paths, HandStart(c) PROVE GateInv'
  BY <1>1, <1>6, PathsKept DEF HandStart, unitVars, pathVars
<1>7. CASE OutsideReload
  BY <1>1, <1>7 DEF OutsideReload, pathVars, GateInv, Relies, Settled, OnRecord, Fresh, Mismatch
<1>8. CASE Reboot
  BY <1>1, <1>8 DEF Reboot, Booted, unitVars, NoReq, GateInv, Relies, Settled, OnRecord
<1>9. CASE UNCHANGED procVars
  BY <1>1, <1>9, PathsKept DEF procVars, unitVars, pathVars
<1> QED BY <1>1, <1>2, <1>3, <1>4, <1>5, <1>6, <1>7, <1>8, <1>9, RepairKeepsGate DEF Next

\* With one repair of the config path at a time, the gate in front of Start,
\* Restart and Reload tells the truth about the unit, whatever step of a
\* repair fails and wherever the panel is restarted (checkConfigMismatch).
THEOREM GateHolds == ASSUME OneRepair PROVE Spec => []GateIsTruthful
<1>1. Init => GateInv
  <2> SUFFICES ASSUME Init PROVE GateInv
    OBVIOUS
  <2>1. Settled /\ \A h \in Repairs : req[h].at = "idle"
    BY DEF Init, Settled, OnRecord, NoReq
  <2> QED BY <2>1, InitTyped DEF GateInv, Relies
<1>2. GateInv /\ [Next]_procVars => GateInv'
  BY StepKeepsGate
<1> QED BY <1>1, <1>2, GateShown, PTL DEF Spec

-----------------------------------------------------------------------------
(* The processes.                                                            *)

\* RouteBox finds every process, but for one of the unit that runs under the
\* name which the rollback of an update gave its binary.
Findable == \A p \in Alive : /\ proc[p].by = "unit" => hasUnit
                             /\ exeMatches(p) \/ proc[p].by = "unit"

\* A step starts no process, nor changes who started one, its binary, its build.
Kept == \A p \in Alive' : /\ p \in Alive
                          /\ proc'[p].by = proc[p].by /\ proc'[p].exe = proc[p].exe
                          /\ proc'[p].build = proc[p].build

Quiet == Kept /\ \A p \in Alive' : proc'[p].prior = proc[p].prior

\* A step leaves no process but one it has launched.
Alone(by, b) ==
    /\ \A p, q \in Alive' : p = q
    /\ \A p \in Alive' : /\ proc'[p].by = by /\ proc'[p].exe = At(b)
                         /\ proc'[p].build = file[At(b)] /\ proc'[p].prior = FALSE

LEMMA StillQuiet == proc' = proc => Quiet
BY DEF Quiet, Kept, Alive

\* Launching where nothing runs.
LEMMA LaunchAlone ==
    ASSUME NEW ps, DOMAIN ps = Pids, ps = [p \in Pids |-> ps[p]], \A p \in Pids : ps[p] = None,
           NEW by, NEW cfg, NEW b, Launch(by, cfg, At(b), ps)
    PROVE  Alone(by, b)
<1>1. CASE file[At(b)] = None
  BY <1>1 DEF Launch, Alone, Alive
<1>2. CASE file[At(b)] # None
  <2> DEFINE L == Launched(by, cfg, At(b))
  <2>1. L.by = by /\ L.exe = At(b) /\ L.build = file[At(b)] /\ L.prior = FALSE
    BY DEF Launched
  <2> HIDE DEF L
  <2>2. PICK p \in Pids : proc' = [ps EXCEPT ![p] = L]
    BY <1>2 DEF Launch, L
  <2>3. proc'[p] = L /\ \A q \in Pids : q # p => proc'[q] = None
    BY <2>2
  <2>4. Alive' \subseteq {p}
    BY <2>3 DEF Alive
  <2> QED BY <2>1, <2>3, <2>4 DEF Alone
<1> QED BY <1>1, <1>2

LEMMA LaunchedAlone ==
    ASSUME TypeInv, Alive = {}, NEW by, NEW cfg, NEW b, Launch(by, cfg, At(b), proc)
    PROVE  Alone(by, b)
BY LaunchAlone DEF TypeInv, ProcTypeOK, Alive

\* An operation is begun: what runs is remembered.
LEMMA BeginKeeps == ASSUME NEW k, NEW w, Begin(k, w) PROVE Kept
BY DEF Begin, Kept, Alive

\* systemctl restart replaces the one process there is.
LEMMA RestartUnitAlone ==
    ASSUME TypeInv, OneProcess, Findable, RestartUnit
    PROVE  hasUnit /\ Alone("unit", "bin")
<1>1. \A p \in Alive : proc[p].by = "unit"
  BY DEF RestartUnit, IsSystemdManaged, OneProcess
<1>2. \A p \in Pids : WithoutUnit[p] = None
  BY <1>1 DEF WithoutUnit, Alive
<1>3. DOMAIN WithoutUnit = Pids /\ WithoutUnit = [p \in Pids |-> WithoutUnit[p]]
  BY DEF WithoutUnit
<1>4. Launch("unit", loaded, At("bin"), WithoutUnit) /\ hasUnit
  BY DEF RestartUnit, IsSystemdManaged
<1> HIDE DEF WithoutUnit
<1> QED BY <1>2, <1>3, <1>4, LaunchAlone

\* Nothing runs when nothing is found and no unit is active.
LEMMA NothingRuns == Findable /\ Found = {} /\ (~IsSystemdManaged \/ ~hasUnit) => Alive = {}
BY DEF Findable, Found, IsSystemdManaged

\* startLocked launches only where nothing runs.
LEMMA StartAlone ==
    ASSUME TypeInv, OneProcess, Findable, StartStep
    PROVE  \/ Quiet
           \/ hasUnit /\ Alone("unit", "bin")
           \/ op'.at = "verify" /\ Alone("own", binaryPath')
<1>1. CASE UNCHANGED proc
  BY <1>1, StillQuiet
<1>2. CASE Found = {} /\ hasUnit /\ ~IsSystemdManaged /\ Launch("unit", loaded, At("bin"), proc)
  BY <1>2, NothingRuns, LaunchedAlone
<1>3. CASE /\ Found = {} /\ ~hasUnit /\ To("verify")
           /\ \E p \in {q \in Pids : proc[q] = None} :
                 proc' = [proc EXCEPT ![p] = Launched("own", op.cfg, At(binaryPath'))]
  <2> DEFINE L == Launched("own", op.cfg, At(binaryPath'))
  <2>1. /\ L.by = "own" /\ L.exe = At(binaryPath') /\ L.build = file[At(binaryPath')]
        /\ L.prior = FALSE
    BY DEF Launched
  <2>2. Alive = {}
    BY <1>3, NothingRuns
  <2>3. PICK p \in Pids : proc' = [proc EXCEPT ![p] = L]
    BY <1>3
  <2> HIDE DEF L
  <2>4. proc'[p] = L /\ \A q \in Pids : q # p => proc'[q] = None
    BY <2>2, <2>3 DEF TypeInv, ProcTypeOK, Alive
  <2>5. Alive' \subseteq {p}
    BY <2>4 DEF Alive
  <2>6. op'.at = "verify"
    BY <1>3 DEF To, TypeInv, OpType
  <2> QED BY <2>1, <2>4, <2>5, <2>6 DEF Alone
<1> QED BY <1>1, <1>2, <1>3 DEF StartStep

\* What a step of an operation does to the processes.
LEMMA OpEffect ==
    ASSUME TypeInv, OneProcess, Findable, OpStep
    PROVE  \/ Quiet
           \/ hasUnit /\ Alone("unit", "bin")
           \/ op.at = "start" /\ op'.at = "verify" /\ Alone("own", binaryPath')
<1>1. CASE ReloadStep \/ RestartStandalone \/ Direct \/ StopPolled \/ VerifyStep
  BY <1>1, StillQuiet DEF ReloadStep, RestartStandalone, Direct, StopPolled, VerifyStep
<1>2. CASE RestartUnit
  BY <1>2, RestartUnitAlone
<1>3. CASE StopStep
  <2>1. CASE UNCHANGED proc
    BY <2>1, StillQuiet
  <2>2. CASE proc' = WithoutUnit
    BY <2>2 DEF WithoutUnit, Quiet, Kept, Alive
  <2>3. ASSUME NEW p \in findPID, proc' = [proc EXCEPT ![p].term = TRUE] PROVE Quiet
    <3>1. p \in Alive /\ proc[p] \in Process
      BY DEF findPID, Found, Alive, TypeInv, ProcTypeOK
    <3>2. /\ \A q \in Pids : q # p => proc'[q] = proc[q]
          /\ proc'[p].by = proc[p].by /\ proc'[p].exe = proc[p].exe
          /\ proc'[p].build = proc[p].build /\ proc'[p].prior = proc[p].prior
      BY <2>3, <3>1 DEF Alive, TypeInv, ProcTypeOK, Process
    <3> QED BY <3>1, <3>2 DEF Quiet, Kept, Alive
  <2> QED BY <1>3, <2>1, <2>2, <2>3 DEF StopStep
<1>4. CASE StopTimesOut
  <2>1. \A p \in Pids : proc'[p] \in {proc[p], None}
    BY <1>4 DEF StopTimesOut, TypeInv, ProcTypeOK
  <2> QED BY <2>1 DEF Quiet, Kept, Alive
<1>5. CASE StartStep
  BY <1>5, StartAlone DEF StartStep
<1> QED BY <1>1, <1>2, <1>3, <1>4, <1>5 DEF OpStep

\* How a restart comes to launch, and to its answer.
LEMMA RestartTurns ==
    ASSUME TypeInv, OneProcess, Findable, OpStep, op.kind = "restart",
           op'.at \in {"start", "verify", "ok"}
    PROVE  \/ op.at \in {"start", "verify"}
           \/ Found = {} /\ ~IsSystemdManaged /\ op.at = "decide" /\ Quiet
           \/ Found = {} /\ op.at \in {"unitGone", "gone", "killed"} /\ Quiet
           \/ op.at = "decide" /\ Alone("unit", "bin")
<1>0. op \in OpType
  BY DEF TypeInv
<1>1. CASE ReloadStep \/ Direct
  BY <1>0, <1>1 DEF ReloadStep, Direct
<1>2. CASE RestartStandalone
  BY <1>0, <1>2, StillQuiet DEF RestartStandalone, To, OpType
<1>3. CASE RestartUnit
  BY <1>3, RestartUnitAlone DEF RestartUnit
<1>4. CASE StopStep
  BY <1>0, <1>4 DEF StopStep, To, OpType
<1>5. CASE StopPolled
  BY <1>5, StillQuiet DEF StopPolled, Stopped
<1>6. CASE StopTimesOut
  BY <1>0, <1>6 DEF StopTimesOut, To, OpType
<1>7. CASE StartStep \/ VerifyStep
  BY <1>7 DEF StartStep, VerifyStep
<1> QED BY <1>1, <1>2, <1>3, <1>4, <1>5, <1>6, <1>7 DEF OpStep

\* What a restart under the operations alone relies on: every process runs
\* from an install path, and none but one is old once it may launch.
RestartInv ==
    /\ TypeInv /\ OneProcess
    /\ \A p \in Alive : proc[p].exe[2] = "at" /\ (proc[p].by = "unit" => hasUnit)
    /\ op.kind = "restart" /\ op.at \in {"start", "verify", "ok"}
          => \A p \in Alive : ~proc[p].prior

LEMMA RestartFinds == RestartInv => Findable /\ Found = Alive
BY DEF RestartInv, Findable, Found, exeMatches

\* A step that launches nothing, or only where nothing else is left.
LEMMA RestartKept ==
    ASSUME RestartInv, TypeInv', UNCHANGED hasUnit,
           Kept \/ Alone("hand", "bin") \/ (hasUnit /\ Alone("unit", "bin")) \/ Alone("own", binaryPath'),
           op'.kind = "restart" /\ op'.at \in {"start", "verify", "ok"}
               => \A p \in Alive' : ~proc'[p].prior
    PROVE  RestartInv'
<1> USE DEF RestartInv, OneProcess
<1>1. CASE Kept
  BY <1>1 DEF Kept
<1>2. ASSUME NEW by, NEW b, Alone(by, b), by = "unit" => hasUnit PROVE RestartInv'
  BY <1>2 DEF Alone, At
<1> QED BY <1>1, <1>2

LEMMA OpKeepsRestart == RestartInv /\ OpStep /\ TypeInv' => RestartInv'
<1> SUFFICES ASSUME RestartInv, OpStep, TypeInv' PROVE RestartInv'
  OBVIOUS
<1>0. /\ TypeInv /\ OneProcess /\ Findable /\ Found = Alive /\ op \in OpType
      /\ UNCHANGED hasUnit
  BY RestartFinds DEF RestartInv, TypeInv, OpStep, OpFrame, ReloadStep, RestartStandalone,
     RestartUnit, Direct, StopStep, StopPolled, StopTimesOut, StartStep, VerifyStep
<1>1. op'.kind = op.kind
  BY <1>0 DEF OpStep, To, OpType, ReloadStep, RestartStandalone, RestartUnit, Direct,
     StopStep, StopPolled, Stopped, StopTimesOut, StartStep, VerifyStep
<1>2. Kept \/ (hasUnit /\ Alone("unit", "bin")) \/ Alone("own", binaryPath')
  BY <1>0, OpEffect DEF Quiet
<1>3. ASSUME op.kind = "restart", op'.at \in {"start", "verify", "ok"}
      PROVE  \A p \in Alive' : ~proc'[p].prior
  <2>1. CASE op.at \in {"start", "verify"}
    <3>1. Quiet \/ Alone("unit", "bin") \/ Alone("own", binaryPath')
      BY <1>0, OpEffect
    <3> QED BY <1>3, <2>1, <3>1 DEF RestartInv, Quiet, Kept, Alone
  <2>2. CASE Found = {} /\ Quiet
    BY <1>0, <2>2 DEF Quiet, Kept
  <2>3. CASE Alone("unit", "bin")
    BY <2>3 DEF Alone
  <2> QED BY <1>0, <1>3, <2>1, <2>2, <2>3, RestartTurns
<1> QED BY <1>0, <1>1, <1>2, <1>3, RestartKept

LEMMA StepKeepsRestart == RestartInv /\ [Next]_procVars => RestartInv'
<1> SUFFICES ASSUME RestartInv, [Next]_procVars PROVE RestartInv'
  OBVIOUS
<1>0. TypeInv' /\ TypeInv /\ op \in OpType
  BY StepTyped DEF RestartInv, TypeInv
<1>1. ASSUME NEW k \in {"start", "stop", "restart", "reload"}, Control(k) PROVE RestartInv'
  <2>1. Kept /\ UNCHANGED hasUnit /\ op'.at = "decide"
    BY <1>1, BeginKeeps DEF Control, Begin, NoOp
  <2> QED BY <1>0, <2>1, RestartKept
<1>2. CASE OpStep
  BY <1>0, <1>2, OpKeepsRestart
<1>3. CASE Finish \/ StatusPoll \/ OutsideReload \/ Reboot \/ UNCHANGED procVars
           \/ \E h \in Repairs : Fix(h) \/ Remove(h) \/ Adopt(h) \/ RepairStep(h)
  <2>1. UNCHANGED <<hasUnit, proc>> /\ (op' = op \/ op' = NoOp)
    BY <1>3 DEF Finish, StatusPoll, OutsideReload, Reboot, Booted, procVars, OpFrame, RepairStep,
       ReqFrame, Fix, Remove, Adopt, WriteDropIn, ReloadWritten, VerifyRetargeted,
       ReloadRemoved, Reread, RecordRemoved, SetPath, RecordAdopted
  <2>2. Quiet
    BY <2>1, StillQuiet
  <2> QED BY <1>0, <2>1, <2>2, RestartKept DEF Quiet, Kept, RestartInv, NoOp
<1>4. ASSUME NEW p \in Pids, Exits(p) PROVE RestartInv'
  <2>1. UNCHANGED <<hasUnit, op>> /\ \A q \in Pids : proc'[q] \in {proc[q], None}
    BY <1>0, <1>4 DEF Exits, TypeInv, ProcTypeOK
  <2>2. Quiet
    BY <2>1 DEF Quiet, Kept, Alive
  <2> QED BY <1>0, <2>1, <2>2, RestartKept DEF Quiet, Kept, RestartInv
<1>5. CASE Respawns \/ \E c \in Paths : HandStart(c)
  <2>1. UNCHANGED op /\ ((hasUnit /\ Alone("unit", "bin")) \/ Alone("hand", "bin")) /\ UNCHANGED hasUnit
    BY <1>0, <1>5, LaunchedAlone DEF Respawns, HandStart
  <2> QED BY <1>0, <2>1, RestartKept DEF Alone
<1> QED BY <1>1, <1>2, <1>3, <1>4, <1>5 DEF Next

LEMMA RestartInvHolds == Spec => []RestartInv
<1>1. Init => RestartInv
  <2> SUFFICES ASSUME Init PROVE RestartInv
    OBVIOUS
  <2>1. PICK p \in Pids : proc = [q \in Pids |->
          IF q = p /\ wanted THEN Launched("unit", loaded, At("bin")) ELSE None]
    BY DEF Init
  <2>2. Alive \subseteq {p} /\ (Alive # {} => hasUnit /\ proc[p].exe = At("bin"))
    BY <2>1 DEF Alive, Init, Launched
  <2>3. op.at = "idle"
    BY DEF Init, NoOp
  <2> QED BY <2>2, <2>3, InitTyped DEF RestartInv, OneProcess, At
<1> QED BY <1>1, StepKeepsRestart, PTL DEF Spec

\* Without updates, no start or restart brings up a second amnezia-box, whoever
\* asks for it and whatever exits or is respawned (startLocked looks first).
THEOREM StartsOnlyOne == Spec => []OneProcess
<1>1. RestartInv => OneProcess
  BY DEF RestartInv
<1> QED BY <1>1, RestartInvHolds, PTL

\* A restart that answers success leaves nothing of what ran when it was asked
\* for, whatever exits, is respawned or started by hand meanwhile (Restart:
\* stopLocked until nothing is found, or systemctl restart of an active unit).
THEOREM RestartIsReal == Spec => []RestartReplaces
<1>1. RestartInv => RestartReplaces
  BY DEF RestartInv, RestartReplaces
<1> QED BY <1>1, RestartInvHolds, PTL

-----------------------------------------------------------------------------
(* The files of an update.                                                   *)

Phases == {"idle", "download", "verify", "swap", "install", "restart", "waits",
           "putAside", "putBack", "again", "waitsAgain", "done", "err"}

Update == [at : Phases, for : Asks \cup {None}, path : {"bin", "other"},
           rel : Builds \cup {None}, was : Builds \cup {None}, slip : BOOLEAN]

Asked == [at : {"idle", "taken", "cached", "newer", "applying"}, rel : Builds \cup {None}]

UpdTypeOK ==
    /\ file \in [Names -> Builds \cup {None, "torn"}]
    /\ binaryPath \in {"bin", "other"}
    /\ latest \in Builds /\ cache \in Builds \cup {None}
    /\ upd \in Update
    /\ ask \in [Asks -> Asked]
    /\ \A r \in Asks : ask[r].at \in {"taken", "newer"} => ask[r].rel \in Builds

\* Only a download is ever torn, and the install path of the unit has a build.
WholeFiles ==
    /\ \A b \in {"bin", "other"}, s \in {"at", "old", "failed"} : file[<<b, s>>] # "torn"
    /\ file[<<"bin", "at">>] \in Builds \/ file[<<"bin", "old">>] \in Builds

\* What each phase may count on.
SlotsOK ==
    /\ upd.at # "idle" => upd.rel \in Builds
    /\ upd.at \in {"swap", "install"} => file[Slot("new")] \in Builds
    /\ upd.at \in {"download", "verify", "swap"} => file[Slot("at")] = upd.was
    /\ upd.at \in {"install", "restart", "waits", "putAside", "putBack"}
          => file[Slot("old")] = upd.was /\ upd.was \in Builds
    /\ upd.at \in {"again", "waitsAgain", "err"} /\ ~upd.slip => file[Slot("at")] = upd.was

UpdInv == UpdTypeOK /\ WholeFiles /\ SlotsOK

-----------------------------------------------------------------------------
(* Renaming and dropping files.                                              *)

LEMMA SlotNames ==
    ASSUME NEW b \in {"bin", "other"}, NEW s \in {"at", "new", "old", "failed"}
    PROVE  <<b, s>> \in Names /\ <<b, s>>[2] = s
BY DEF Names

\* What a rename leaves in every slot.
LEMMA RenameMoves ==
    ASSUME UpdTypeOK, NEW a \in Names, NEW b \in Names, a # b, Rename(a, b)
    PROVE  /\ file' \in [Names -> Builds \cup {None, "torn"}]
           /\ file'[b] = file[a] /\ file'[a] = None
           /\ \A n \in Names : n # a /\ n # b => file'[n] = file[n]
BY DEF UpdTypeOK, Rename

\* A step that leaves the files and the update alone.
LEMMA OtherStep ==
    ASSUME UpdInv, UNCHANGED <<file, latest, upd, ask>>,
           binaryPath' \in {"bin", "other"}, cache' \in Builds \cup {None}
    PROVE  UpdInv'
BY DEF UpdInv, UpdTypeOK, WholeFiles, SlotsOK, Slot

LEMMA ProbedOK == UpdTypeOK => Probed \in {"bin", "other"}
BY DEF UpdTypeOK, Probed

-----------------------------------------------------------------------------
(* The process manager leaves the files alone.                               *)

LEMMA UnderKeeps == UpdInv /\ UnderStep => UpdInv'
<1> SUFFICES ASSUME UpdInv, UnderStep PROVE UpdInv'
  OBVIOUS
<1> USE DEF UpdInv
<1>1. UNCHANGED <<latest, cache, upd, ask>>
  BY DEF UnderStep, updVars
<1>2. Probed \in {"bin", "other"} /\ binaryPath \in {"bin", "other"} /\ cache \in Builds \cup {None}
  BY ProbedOK DEF UpdTypeOK
<1>3. ASSUME NEW k \in Controls, Control(k) PROVE UNCHANGED <<file, binaryPath>>
  BY <1>3 DEF Control
<1>4. ASSUME OpStep PROVE UNCHANGED file /\ binaryPath' \in {binaryPath, Probed}
  BY <1>4 DEF OpStep, OpFrame, Seen, ReloadStep, RestartStandalone, RestartUnit, Direct,
              StopStep, StopPolled, StopTimesOut, StartStep, VerifyStep
<1>5. ASSUME Finish \/ StatusPoll PROVE UNCHANGED file /\ binaryPath' \in {binaryPath, Probed}
  BY <1>5 DEF Finish, StatusPoll, OpFrame, Seen
<1>6. ASSUME NEW p \in Pids, Exits(p) PROVE UNCHANGED <<file, binaryPath>>
  BY <1>6 DEF Exits
<1>7. ASSUME Respawns PROVE UNCHANGED <<file, binaryPath>>
  BY <1>7 DEF Respawns
<1>8. UNCHANGED file /\ binaryPath' \in {"bin", "other"}
  BY <1>2, <1>3, <1>4, <1>5, <1>6, <1>7 DEF UnderStep
<1> QED BY <1>1, <1>2, <1>8, OtherStep

-----------------------------------------------------------------------------
(* The handler: the release it takes is one that was published.              *)

LEMMA AskKeeps ==
    ASSUME UpdInv, UNCHANGED <<file, latest, upd>>,
           binaryPath' \in {"bin", "other"}, cache' \in Builds \cup {None},
           ask' \in [Asks -> Asked],
           \A r \in Asks : ask'[r].at \in {"taken", "newer"} => ask'[r].rel \in Builds
    PROVE  UpdInv'
BY DEF UpdInv, UpdTypeOK, WholeFiles, SlotsOK, Slot

LEMMA HandlerKeeps ==
    ASSUME UpdInv, NEW r \in Asks, AskUpdate(r) \/ TakeRelease(r) \/ CompareVersion(r) \/ Admit(r)
    PROVE  UpdInv'
<1> USE UpdatesAssumption, ProcessAssumption DEF UpdInv
<1>1. CASE AskUpdate(r)
  <2>1. cache' \in Builds \cup {None} /\ UNCHANGED <<file, latest, upd, binaryPath>>
    BY <1>1 DEF AskUpdate, Fetched, UpdTypeOK
  <2>2. /\ ask' \in [Asks -> Asked]
        /\ \A q \in Asks : ask'[q].at \in {"taken", "newer"} => ask'[q].rel \in Builds
    BY <1>1 DEF AskUpdate, Fetched, UpdTypeOK, Set, Asked
  <2> QED BY <2>1, <2>2, AskKeeps DEF UpdTypeOK
<1>2. CASE TakeRelease(r)
  <2>1. UNCHANGED <<file, latest, upd, binaryPath, cache>>
    BY <1>2 DEF TakeRelease, ProcFrame
  <2>2. /\ ask' \in [Asks -> Asked]
        /\ \A q \in Asks : ask'[q].at \in {"taken", "newer"} => ask'[q].rel \in Builds
    BY <1>2 DEF TakeRelease, UpdTypeOK, Set, Asked, NoAsk
  <2> QED BY <2>1, <2>2, AskKeeps DEF UpdTypeOK
<1>3. CASE CompareVersion(r)
  <2>1. UNCHANGED <<file, latest, upd, cache>> /\ binaryPath' \in {"bin", "other"}
    BY <1>3, ProbedOK DEF CompareVersion, ProcFrame
  <2>2. /\ ask' \in [Asks -> Asked]
        /\ \A q \in Asks : ask'[q].at \in {"taken", "newer"} => ask'[q].rel \in Builds
    BY <1>3 DEF CompareVersion, UpdTypeOK, Set, Asked, NoAsk
  <2> QED BY <2>1, <2>2, AskKeeps DEF UpdTypeOK
<1>4. CASE Admit(r)
  <2>1. UNCHANGED <<file, latest, cache, binaryPath>> /\ binaryPath \in {"bin", "other"}
    BY <1>4 DEF Admit, ProcFrame, UpdTypeOK
  <2>2. /\ ask' \in [Asks -> Asked]
        /\ \A q \in Asks : ask'[q].at \in {"taken", "newer"} => ask'[q].rel \in Builds
    BY <1>4 DEF Admit, UpdTypeOK, Set, Asked, NoAsk
  <2>3. CASE UNCHANGED upd
    BY <2>1, <2>2, <2>3, AskKeeps DEF UpdTypeOK
  <2>4. CASE upd' # upd
    <3>1. /\ ask[r].rel \in Builds
          /\ upd' = [NoUpd EXCEPT !.at = "download", !.for = r, !.rel = ask[r].rel,
                                  !.was = file[At(binaryPath)], !.path = binaryPath]
      BY <1>4, <2>4 DEF Admit, UpdTypeOK
    <3>2. file[At(binaryPath)] \in Builds \cup {None}
      BY <2>1, SlotNames DEF UpdTypeOK, WholeFiles, At
    <3>3. /\ upd' \in Update /\ upd'.at = "download" /\ upd'.path = binaryPath
          /\ upd'.was = file[At(binaryPath)] /\ upd'.rel \in Builds
      BY <2>1, <3>1, <3>2 DEF NoUpd, Update, Phases
    <3>4. UpdTypeOK'
      BY <2>1, <2>2, <3>3 DEF UpdTypeOK
    <3>5. WholeFiles'
      BY <2>1 DEF WholeFiles
    <3>6. SlotsOK'
      BY <2>1, <3>3 DEF SlotsOK, Slot, At
    <3> QED BY <3>4, <3>5, <3>6
  <2> QED BY <2>3, <2>4
<1> QED BY <1>1, <1>2, <1>3, <1>4

-----------------------------------------------------------------------------
(* The steps of an update.                                                   *)

\* A step of apply that moves no file: to the next phase, or an answer.
LEMMA PhaseKeeps ==
    ASSUME UpdInv, NEW s \in Phases, Phase(s), UpdRest, UNCHANGED <<file, binaryPath>>,
           s \in {"download", "verify", "swap", "install"} =>
               /\ upd.at \in {"download", "verify", "swap"} /\ s # "install"
               /\ s = "swap" => file[Slot("new")] \in Builds,
           s \in {"restart", "waits", "putAside", "putBack"} =>
               upd.at \in {"install", "restart", "waits", "putAside", "putBack"},
           s \in {"again", "waitsAgain", "err"} =>
               upd.at \in {"download", "verify", "swap", "again", "waitsAgain"},
           upd.at # "idle"
    PROVE  UpdInv'
<1> USE DEF UpdInv
<1>1. upd' \in Update /\ upd' = [upd EXCEPT !.at = s]
  BY DEF UpdTypeOK, Phase, Update
<1>2. /\ upd'.at = s /\ upd'.path = upd.path /\ upd'.was = upd.was
      /\ upd'.rel = upd.rel /\ upd'.slip = upd.slip
  BY <1>1 DEF UpdTypeOK, Update
<1>3. UpdTypeOK'
  BY <1>1 DEF UpdTypeOK, UpdRest
<1>4. WholeFiles'
  BY DEF WholeFiles
<1>5. SlotsOK'
  BY <1>2 DEF SlotsOK, Slot
<1> QED BY <1>3, <1>4, <1>5

\* The download slot is nobody else's.
LEMMA NewSlotKeeps ==
    ASSUME UpdInv, NEW c \in Builds \cup {None, "torn"}, UpdRest, UNCHANGED binaryPath,
           file' = [file EXCEPT ![Slot("new")] = c],
           upd' \in Update, upd'.path = upd.path, upd'.was = upd.was, upd'.rel = upd.rel,
           upd.at \in {"download", "verify", "swap"},
           upd'.at \in {"download", "verify", "err"}
    PROVE  UpdInv'
<1> USE DEF UpdInv
<1>1. upd.path \in {"bin", "other"}
  BY DEF UpdTypeOK, Update
<1>2. /\ file' \in [Names -> Builds \cup {None, "torn"}]
      /\ \A b \in {"bin", "other"}, s \in {"at", "old", "failed"} : file'[<<b, s>>] = file[<<b, s>>]
  BY <1>1, SlotNames DEF UpdTypeOK, Slot
<1>3. UpdTypeOK'
  BY <1>2 DEF UpdTypeOK, UpdRest
<1>4. WholeFiles'
  BY <1>2 DEF WholeFiles
<1>5. SlotsOK'
  BY <1>1, <1>2 DEF SlotsOK, Slot
<1> QED BY <1>3, <1>4, <1>5

LEMMA GiveUpKeeps ==
    ASSUME UpdInv, GiveUp, UpdRest, UNCHANGED binaryPath, upd.at \in {"download", "verify", "swap"}
    PROVE  UpdInv'
<1>1. upd' \in Update /\ upd' = [upd EXCEPT !.at = "err"]
  BY DEF UpdInv, UpdTypeOK, GiveUp, Phase, Update, Phases
<1>2. upd'.at = "err" /\ upd'.path = upd.path /\ upd'.was = upd.was /\ upd'.rel = upd.rel
  BY <1>1 DEF UpdInv, UpdTypeOK, Update
<1> QED BY <1>1, <1>2, NewSlotKeeps DEF GiveUp

LEMMA DownloadKeeps ==
    ASSUME UpdInv, DownloadBegins \/ DownloadEnds \/ Verify
    PROVE  UpdInv'
<1> USE UpdatesAssumption, ProcessAssumption DEF UpdInv
<1>1. CASE DownloadBegins
  <2>1. upd' = upd /\ upd \in Update /\ UNCHANGED binaryPath /\ UpdRest
    BY <1>1 DEF DownloadBegins, UpdTypeOK
  <2> QED BY <1>1, <2>1, NewSlotKeeps DEF DownloadBegins
<1>2. CASE DownloadEnds
  <2>1. upd.at = "download" /\ UNCHANGED binaryPath /\ UpdRest /\ upd.rel \in Builds
    BY <1>2 DEF DownloadEnds, SlotsOK
  <2>2. CASE GiveUp
    BY <2>1, <2>2, GiveUpKeeps
  <2>3. CASE Phase("verify") /\ file' = [file EXCEPT ![Slot("new")] = upd.rel]
    <3>1. /\ upd' \in Update /\ upd'.at = "verify" /\ upd'.path = upd.path
          /\ upd'.was = upd.was /\ upd'.rel = upd.rel
      BY <2>3 DEF Phase, UpdTypeOK, Update, Phases
    <3> QED BY <2>1, <2>3, <3>1, NewSlotKeeps
  <2>4. CASE Phase("verify") /\ UNCHANGED file
    BY <2>1, <2>4, PhaseKeeps DEF Phases
  <2> QED BY <1>2, <2>2, <2>3, <2>4 DEF DownloadEnds
<1>3. CASE Verify
  <2>1. upd.at = "verify" /\ UNCHANGED binaryPath /\ UpdRest /\ upd.rel \in Builds
    BY <1>3 DEF Verify, SlotsOK
  <2>2. CASE GiveUp
    BY <2>1, <2>2, GiveUpKeeps
  <2>3. CASE Phase("swap") /\ UNCHANGED file /\ file[Slot("new")] = upd.rel
    BY <2>1, <2>3, PhaseKeeps DEF Phases
  <2> QED BY <1>3, <2>2, <2>3 DEF Verify
<1> QED BY <1>1, <1>2, <1>3

\* The swap: at "install" the old binary is in .old, the new one in .new.
LEMMA SwapKeeps ==
    ASSUME UpdInv, BackUp \/ Install
    PROVE  UpdInv'
<1> USE UpdatesAssumption, ProcessAssumption DEF UpdInv
<1> DEFINE P == upd.path
<1>1. /\ P \in {"bin", "other"} /\ upd.rel \in Builds
      /\ upd.at \in {"swap", "install"} /\ file[Slot("new")] \in Builds
      /\ UNCHANGED binaryPath /\ UpdRest
  BY DEF BackUp, Install, UpdTypeOK, Update, SlotsOK
<1>2. \A s \in {"at", "new", "old", "failed"} : Slot(s) \in Names /\ Slot(s) = <<P, s>>
  BY <1>1, SlotNames DEF Slot
<1>3. CASE BackUp /\ GiveUp
  BY <1>1, <1>3, GiveUpKeeps DEF BackUp
<1>4. CASE BackUp /\ Phase("install") /\ Rename(Slot("at"), Slot("old"))
  <2>1. /\ file' \in [Names -> Builds \cup {None, "torn"}]
        /\ file'[Slot("old")] = upd.was /\ file'[Slot("at")] = None
        /\ \A n \in Names : n # Slot("at") /\ n # Slot("old") => file'[n] = file[n]
    BY <1>2, <1>4, RenameMoves DEF BackUp, SlotsOK, Slot
  <2>2. /\ upd' \in Update /\ upd'.at = "install" /\ upd'.path = P
        /\ upd'.was = upd.was /\ upd'.rel = upd.rel
    BY <1>4 DEF Phase, UpdTypeOK, Update, Phases
  <2>3. upd.was \in Builds
    <3>1. ~GiveUp
      BY <2>2 DEF GiveUp, Phase, UpdTypeOK, Update
    <3>2. file[Slot("at")] = upd.was /\ upd.was # None
      BY <1>4, <3>1 DEF BackUp, SlotsOK
    <3> QED BY <3>2 DEF UpdTypeOK, Update
  <2>4. WholeFiles'
    BY <1>1, <1>2, <2>1, <2>3, SlotNames DEF WholeFiles
  <2>5. SlotsOK'
    BY <1>1, <1>2, <2>1, <2>2, <2>3 DEF SlotsOK, Slot
  <2> QED BY <1>1, <2>1, <2>2, <2>4, <2>5 DEF UpdTypeOK, UpdRest
<1>5. CASE Install /\ Phase("restart") /\ Rename(Slot("new"), Slot("at"))
  <2>1. /\ file' \in [Names -> Builds \cup {None, "torn"}]
        /\ file'[Slot("at")] = file[Slot("new")]
        /\ \A n \in Names : n # Slot("at") /\ n # Slot("new") => file'[n] = file[n]
    BY <1>2, <1>5, RenameMoves DEF Slot
  <2>2. /\ upd' \in Update /\ upd'.at = "restart" /\ upd'.path = P
        /\ upd'.was = upd.was /\ upd'.rel = upd.rel
    BY <1>5 DEF Phase, UpdTypeOK, Update, Phases
  <2>3. WholeFiles'
    BY <1>1, <1>2, <2>1, SlotNames DEF WholeFiles
  <2>4. SlotsOK'
    BY <1>1, <1>2, <1>5, <2>1, <2>2 DEF SlotsOK, Slot, Install
  <2> QED BY <1>1, <2>1, <2>2, <2>3, <2>4 DEF UpdTypeOK, UpdRest
<1>6. CASE Install /\ Phase("err") /\ Rename(Slot("old"), Slot("at"))
  <2>1. /\ file' \in [Names -> Builds \cup {None, "torn"}]
        /\ file'[Slot("at")] = upd.was /\ file'[Slot("old")] = None
        /\ \A n \in Names : n # Slot("at") /\ n # Slot("old") => file'[n] = file[n]
    BY <1>2, <1>6, RenameMoves DEF Slot, SlotsOK, Install
  <2>2. /\ upd' \in Update /\ upd'.at = "err" /\ upd'.path = P
        /\ upd'.was = upd.was /\ upd'.rel = upd.rel
    BY <1>6 DEF Phase, UpdTypeOK, Update, Phases
  <2>3. upd.was \in Builds
    BY <1>6 DEF Install, SlotsOK
  <2>4. WholeFiles'
    BY <1>1, <1>2, <2>3, <2>1, SlotNames DEF WholeFiles
  <2>5. SlotsOK'
    BY <1>1, <1>2, <2>1, <2>2 DEF SlotsOK, Slot
  <2> QED BY <1>1, <2>1, <2>2, <2>4, <2>5 DEF UpdTypeOK, UpdRest
<1>7. CASE Install /\ upd' = [upd EXCEPT !.at = "err", !.slip = TRUE] /\ UNCHANGED file
  <2>1. /\ upd' \in Update /\ upd'.at = "err" /\ upd'.slip
        /\ upd'.was = upd.was /\ upd'.rel = upd.rel
    BY <1>7 DEF UpdTypeOK, Update, Phases
  <2>2. SlotsOK'
    BY <1>1, <2>1 DEF SlotsOK
  <2> QED BY <1>1, <1>7, <2>1, <2>2 DEF UpdTypeOK, UpdRest, WholeFiles
<1> QED BY <1>3, <1>4, <1>5, <1>6, <1>7 DEF BackUp, Install

LEMMA RestartKeeps ==
    ASSUME UpdInv, Restarts \/ Restarted
    PROVE  UpdInv'
<1>1. CASE Restarts
  <2>1. /\ upd.at \in {"restart", "again"} /\ UpdRest /\ UNCHANGED <<file, binaryPath>>
        /\ upd' = [upd EXCEPT !.at = IF @ = "restart" THEN "putAside" ELSE "err"]
           \/ upd' = [upd EXCEPT !.at = IF @ = "restart" THEN "waits" ELSE "waitsAgain"]
    BY <1>1 DEF Restarts
  <2>2. CASE upd.at = "restart"
    <3>1. Phase("putAside") \/ Phase("waits")
      BY <2>1, <2>2 DEF Phase
    <3> QED BY <2>1, <2>2, <3>1, PhaseKeeps DEF Phases
  <2>3. CASE upd.at = "again"
    <3>1. Phase("err") \/ Phase("waitsAgain")
      BY <2>1, <2>3 DEF Phase
    <3> QED BY <2>1, <2>3, <3>1, PhaseKeeps DEF Phases
  <2> QED BY <2>1, <2>2, <2>3
<1>2. CASE Restarted
  <2>1. /\ upd.at \in {"waits", "waitsAgain"} /\ UpdRest /\ UNCHANGED <<file, binaryPath>>
        /\ upd.at = "waitsAgain" => Phase("err")
        /\ upd.at = "waits" => Phase("done") \/ Phase("putAside")
    BY <1>2 DEF Restarted
  <2> QED BY <2>1, PhaseKeeps DEF Phases
<1> QED BY <1>1, <1>2

\* The rollback, whose renames may fail: slip remembers that.
LEMMA RollbackKeeps ==
    ASSUME UpdInv, PutAside \/ PutBack
    PROVE  UpdInv'
<1> USE UpdatesAssumption, ProcessAssumption DEF UpdInv
<1> DEFINE P == upd.path
<1>1. /\ P \in {"bin", "other"} /\ upd.was \in Builds /\ upd.rel \in Builds
      /\ file[Slot("old")] = upd.was
      /\ UNCHANGED binaryPath /\ UpdRest
  BY DEF PutAside, PutBack, UpdTypeOK, Update, SlotsOK
<1>2. \A s \in {"at", "new", "old", "failed"} : Slot(s) \in Names /\ Slot(s) = <<P, s>>
  BY <1>1, SlotNames DEF Slot
<1>3. CASE PutAside /\ Phase("putBack") /\ Rename(Slot("at"), Slot("failed"))
  <2>1. /\ file' \in [Names -> Builds \cup {None, "torn"}]
        /\ file'[Slot("failed")] = file[Slot("at")] /\ file'[Slot("at")] = None
        /\ \A n \in Names : n # Slot("at") /\ n # Slot("failed") => file'[n] = file[n]
    BY <1>2, <1>3, RenameMoves DEF Slot
  <2>2. /\ upd' \in Update /\ upd'.at = "putBack" /\ upd'.path = P
        /\ upd'.was = upd.was /\ upd'.rel = upd.rel
    BY <1>3 DEF Phase, UpdTypeOK, Update, Phases
  <2>3. WholeFiles'
    BY <1>1, <1>2, <2>1, SlotNames DEF WholeFiles
  <2>4. SlotsOK'
    BY <1>1, <1>2, <2>1, <2>2 DEF SlotsOK, Slot
  <2> QED BY <1>1, <2>1, <2>2, <2>3, <2>4 DEF UpdTypeOK, UpdRest
<1>4. CASE /\ UNCHANGED file
           /\ \/ PutAside /\ upd' = [upd EXCEPT !.at = "putBack", !.slip = TRUE]
              \/ PutBack /\ upd' = [upd EXCEPT !.at = "again", !.slip = TRUE]
  <2>1. PICK s \in {"putBack", "again"} : upd' = [upd EXCEPT !.at = s, !.slip = TRUE]
    BY <1>4
  <2>2. /\ upd' \in Update /\ upd'.path = P /\ upd'.was = upd.was /\ upd'.rel = upd.rel
        /\ upd'.at \in {"putBack", "again"}
    BY <2>1 DEF UpdTypeOK, Update, Phases
  <2>3. upd'.slip = TRUE
    BY <2>1, Zenon DEF UpdTypeOK, Update
  <2>4. UpdTypeOK' /\ WholeFiles'
    BY <1>1, <1>4, <2>2 DEF UpdTypeOK, WholeFiles, UpdRest
  <2>5. SlotsOK'
    BY <1>1, <1>4, <2>2, <2>3 DEF SlotsOK, Slot
  <2> QED BY <2>4, <2>5
<1>5. CASE PutBack /\ Phase("again") /\ Rename(Slot("old"), Slot("at"))
  <2>1. /\ file' \in [Names -> Builds \cup {None, "torn"}]
        /\ file'[Slot("at")] = upd.was /\ file'[Slot("old")] = None
        /\ \A n \in Names : n # Slot("at") /\ n # Slot("old") => file'[n] = file[n]
    BY <1>1, <1>2, <1>5, RenameMoves DEF Slot
  <2>2. /\ upd' \in Update /\ upd'.at = "again" /\ upd'.path = P
        /\ upd'.was = upd.was /\ upd'.rel = upd.rel
    BY <1>5 DEF Phase, UpdTypeOK, Update, Phases
  <2>3. WholeFiles'
    BY <1>1, <1>2, <2>1, SlotNames DEF WholeFiles
  <2>4. SlotsOK'
    BY <1>1, <1>2, <2>1, <2>2 DEF SlotsOK, Slot
  <2> QED BY <1>1, <2>1, <2>2, <2>3, <2>4 DEF UpdTypeOK, UpdRest
<1> QED BY <1>3, <1>4, <1>5 DEF PutAside, PutBack, RenameFails

LEMMA AnswerKeeps ==
    ASSUME UpdInv, NEW f, f \in Asks \cup {None},
           UNCHANGED <<file, latest>>, cache' \in Builds \cup {None},
           binaryPath' \in {"bin", "other"}, upd' = NoUpd, ask' \in [Asks -> Asked],
           \A r \in Asks : ask'[r].at \in {"taken", "newer"} => ask'[r].rel \in Builds
    PROVE  UpdInv'
BY DEF UpdInv, UpdTypeOK, WholeFiles, SlotsOK, Slot, NoUpd, Update, Phases

-----------------------------------------------------------------------------
(* The specification.                                                        *)

LEMMA UpdStep == UpdInv /\ [UpdNext]_allVars => UpdInv'
<1> SUFFICES ASSUME UpdInv, [UpdNext]_allVars PROVE UpdInv'
  OBVIOUS
<1>1. CASE UnderStep
  BY <1>1, UnderKeeps
<1>2. CASE Publishes \/ Check \/ SelfUpdate
  <2>1. /\ UNCHANGED <<file, upd, ask, binaryPath>>
        /\ latest' \in Builds /\ cache' \in Builds \cup {None}
    BY <1>2 DEF Publishes, Check, SelfUpdate, ProcFrame, Fetched, UpdInv, UpdTypeOK
  <2> QED BY <2>1 DEF UpdInv, UpdTypeOK, WholeFiles, SlotsOK, Slot
<1>3. ASSUME NEW r \in Asks, AskUpdate(r) \/ TakeRelease(r) \/ CompareVersion(r) \/ Admit(r) PROVE UpdInv'
  BY <1>3, HandlerKeeps
<1>4. CASE DownloadBegins \/ DownloadEnds \/ Verify
  BY <1>4, DownloadKeeps
<1>5. CASE BackUp \/ Install
  BY <1>5, SwapKeeps
<1>6. CASE Restarts \/ Restarted
  BY <1>6, RestartKeeps
<1>7. CASE PutAside \/ PutBack
  BY <1>7, RollbackKeeps
<1>8. CASE Answer
  <2>1. /\ UNCHANGED <<file, latest, cache, binaryPath>> /\ upd' = NoUpd
        /\ upd.for # None /\ ask' = [ask EXCEPT ![upd.for] = NoAsk]
    BY <1>8 DEF Answer, ProcFrame, Set
  <2>2. /\ ask' \in [Asks -> Asked]
        /\ \A r \in Asks : ask'[r].at \in {"taken", "newer"} => ask'[r].rel \in Builds
    BY <2>1 DEF UpdInv, UpdTypeOK, NoAsk, Asked, Update
  <2> QED BY <2>1, <2>2, AnswerKeeps DEF UpdInv, UpdTypeOK
<1>9. CASE ReExec \/ Crash
  <2>1. /\ UNCHANGED <<file, latest>> /\ cache' = None /\ upd' = NoUpd
        /\ binaryPath' \in {"bin", "other"} /\ ask' = [r \in Asks |-> NoAsk]
    BY <1>9 DEF ReExec, Crash, Rebooted, Booted, findBinary
  <2>2. /\ ask' \in [Asks -> Asked]
        /\ \A r \in Asks : ask'[r].at \in {"taken", "newer"} => ask'[r].rel \in Builds
    BY <2>1 DEF NoAsk, Asked
  <2> QED BY <2>1, <2>2, AnswerKeeps
<1>10. CASE UNCHANGED allVars
  BY <1>10 DEF allVars, updVars, procVars, UpdInv, UpdTypeOK, WholeFiles, SlotsOK, Slot
<1> QED BY <1>1, <1>2, <1>3, <1>4, <1>5, <1>6, <1>7, <1>8, <1>9, <1>10 DEF UpdNext, ApplyStep

LEMMA UpdStart == UpdInit => UpdInv
<1> SUFFICES ASSUME UpdInit PROVE UpdInv
  OBVIOUS
<1> USE UpdatesAssumption, ProcessAssumption DEF UpdInit, Init
<1>1. PICK b \in Builds, o \in Builds \cup {None} :
        file = [n \in Names |-> IF n = At("bin") THEN b
                                ELSE IF n = At("other") THEN o ELSE None]
  OBVIOUS
<1>2. file \in [Names -> Builds \cup {None, "torn"}]
  BY <1>1
<1>3. UpdTypeOK
  BY <1>2 DEF UpdTypeOK, NoUpd, NoAsk, Update, Asked, Phases
<1>4. WholeFiles
  BY <1>1, SlotNames DEF WholeFiles, At
<1>5. SlotsOK
  BY DEF SlotsOK, NoUpd
<1> QED BY <1>3, <1>4, <1>5 DEF UpdInv

-----------------------------------------------------------------------------
\* The invariant behind both theorems.
LEMMA UpdInvHolds == UpdSpec => []UpdInv
BY UpdStart, UpdStep, PTL DEF UpdSpec

\* For any releases, requests, failing renames and restarts of the panel, a
\* complete binary stays at the install path or in .old, and no torn download
\* leaves .new (apply: verification before the swap, then restore or rollback).
THEOREM BinaryIsKept == UpdSpec => []BinarySurvives
<1>1. UpdInv => BinarySurvives
  BY DEF UpdInv, WholeFiles, BinarySurvives, Names
<1> QED BY <1>1, UpdInvHolds, PTL

\* An update that ends with an error leaves the installed build in place, at
\* whichever phase it failed, unless a rename of the rollback failed too.
THEOREM FailureIsUndone == UpdSpec => []FailureRollsBack
<1>1. UpdInv => FailureRollsBack
  BY DEF UpdInv, SlotsOK, FailureRollsBack
<1> QED BY <1>1, UpdInvHolds, PTL

-----------------------------------------------------------------------------
(* The processes under an update.                                            *)

LEMMA UpdFaultTyped == ASSUME TypeInv, UpdNext PROVE faults' \in Nat /\ ops' \in Nat
<1> USE FaultTyped
<1>0. faults \in Nat /\ ops \in Nat
  BY DEF TypeInv, ProcTypeOK
<1>1. CASE UnderStep
  <2>1. ASSUME NEW k \in Controls, Control(k) PROVE faults' \in Nat /\ ops' \in Nat
    BY <1>0, <2>1 DEF Control, Operation
  <2>2. CASE OpStep
    <3>1. ops' = ops
      BY <2>2 DEF OpStep, OpFrame, ReloadStep, RestartStandalone, RestartUnit, Direct, StopStep,
         StopPolled, StopTimesOut, StartStep, VerifyStep
    <3>2. NoFault \/ Fault("systemctl")
      BY <2>2 DEF OpStep, ReloadStep, RestartStandalone, RestartUnit, Direct, StopStep,
         StopPolled, StopTimesOut, StartStep, VerifyStep
    <3> QED BY <1>0, <3>1, <3>2
  <2>3. CASE Finish \/ StatusPoll \/ Respawns
    BY <1>0, <2>3 DEF Finish, StatusPoll, OpFrame, Respawns
  <2>4. ASSUME NEW p \in Pids, Exits(p) PROVE faults' \in Nat /\ ops' \in Nat
    BY <1>0, <2>4 DEF Exits
  <2> QED BY <1>1, <2>1, <2>2, <2>3, <2>4 DEF UnderStep
<1>2. CASE Publishes \/ Check \/ SelfUpdate
  BY <1>0, <1>2 DEF Publishes, Check, Fetched, SelfUpdate, ProcFrame
<1>3. ASSUME NEW r \in Asks, AskUpdate(r) \/ TakeRelease(r) \/ CompareVersion(r) \/ Admit(r)
      PROVE  faults' \in Nat /\ ops' \in Nat
  BY <1>0, <1>3 DEF AskUpdate, Fetched, TakeRelease, CompareVersion, Admit, ProcFrame
<1>4. CASE ApplyStep
  <2>1. ops' = ops
    BY <1>4 DEF ApplyStep, FileFrame, ProcFrame, DownloadBegins, DownloadEnds, Verify, BackUp,
       Install, Restarts, Restarted, PutAside, PutBack, Answer
  <2>2. faults' \in Nat
    BY <1>0, <1>4 DEF ApplyStep, DownloadBegins, DownloadEnds, Verify, BackUp, Install,
       Restarts, Restarted, PutAside, PutBack, RenameFails, Answer
  <2> QED BY <1>0, <2>1, <2>2
<1>5. CASE ReExec \/ Crash
  BY <1>0, <1>5 DEF ReExec, Crash, Rebooted, Booted
<1> QED BY <1>1, <1>2, <1>3, <1>4, <1>5 DEF UpdNext

\* Renaming a binary: who runs it, and its build, stay; its name follows.
LEMMA RenameRuns ==
    ASSUME TypeInv, NEW a \in Names, NEW b \in Names, Rename(a, b)
    PROVE  /\ proc' \in [Pids -> Process \cup {None}]
           /\ \A p \in Alive' :
                 /\ p \in Alive
                 /\ proc'[p].by = proc[p].by /\ proc'[p].build = proc[p].build
                 /\ \/ proc[p].exe = a /\ proc'[p].exe = b
                    \/ proc[p].exe = b /\ b[2] # "failed" /\ proc'[p].exe = Gone
                    \/ proc[p].exe \notin {a, b} /\ proc'[p].exe = proc[p].exe
                    \/ proc[p].exe = b /\ b[2] = "failed" /\ proc'[p].exe = b
<1> DEFINE As(q, e) == [q EXCEPT !.exe = e]
<1>1. \A p \in Pids : proc[p] # None => proc[p] \in Process
  BY DEF TypeInv, ProcTypeOK
<1>2. \A q \in Process, e \in Names \cup {Gone} :
        As(q, e) \in Process /\ As(q, e).exe = e /\ As(q, e).by = q.by /\ As(q, e).build = q.build
  BY DEF Process
<1>3. \A p \in Pids : proc'[p] = IF proc[p] = None THEN None
         ELSE IF proc[p].exe = a THEN As(proc[p], b)
         ELSE IF proc[p].exe = b /\ b[2] # "failed" THEN As(proc[p], Gone)
         ELSE proc[p]
  BY DEF Rename
<1> HIDE DEF As
<1>4. proc' \in [Pids -> Process \cup {None}]
  <2>1. \A p \in Pids : proc'[p] \in Process \cup {None}
    BY <1>1, <1>2, <1>3
  <2>2. proc' = [p \in Pids |-> proc'[p]]
    BY DEF Rename
  <2> QED BY <2>1, <2>2
<1>5. ASSUME NEW p \in Alive'
      PROVE  /\ p \in Alive
             /\ proc'[p].by = proc[p].by /\ proc'[p].build = proc[p].build
             /\ \/ proc[p].exe = a /\ proc'[p].exe = b
                \/ proc[p].exe = b /\ b[2] # "failed" /\ proc'[p].exe = Gone
                \/ proc[p].exe \notin {a, b} /\ proc'[p].exe = proc[p].exe
                \/ proc[p].exe = b /\ b[2] = "failed" /\ proc'[p].exe = b
  <2>1. p \in Pids /\ proc'[p] # None
    BY DEF Alive
  <2>2. proc[p] # None /\ proc[p] \in Process /\ p \in Alive
    BY <1>1, <1>3, <2>1 DEF Alive
  <2>3. CASE proc[p].exe = a
    BY <1>2, <1>3, <2>1, <2>2, <2>3
  <2>4. CASE proc[p].exe # a /\ proc[p].exe = b /\ b[2] # "failed"
    BY <1>2, <1>3, <2>1, <2>2, <2>4
  <2>5. CASE proc[p].exe # a /\ ~(proc[p].exe = b /\ b[2] # "failed")
    BY <1>3, <2>1, <2>2, <2>5
  <2> QED BY <2>3, <2>4, <2>5
<1> QED BY <1>4, <1>5

\* A step of an update that moves files or processes, but no path of a config.
LEMMA FilesTyped ==
    ASSUME TypeInv, UpdInv', UNCHANGED <<hasUnit, unitVars, startedPID, pathVars, req, unsure>>,
           faults' \in Nat, ops' \in Nat, proc' \in [Pids -> Process \cup {None}],
           op' \in OpType, op'.at # "idle" => op'.cfg \in Paths
    PROVE  TypeInv'
<1>1. /\ file' \in [Names -> Builds \cup {None, "torn"}] /\ binaryPath' \in {"bin", "other"}
      /\ \A b \in {"bin", "other"} : file'[At(b)] # "torn"
  BY DEF UpdInv, UpdTypeOK, WholeFiles, At
<1>2. Installed'
  BY <1>1, NamesAre DEF Installed
<1>3. ProcTypeOK'
  BY <1>1 DEF TypeInv, ProcTypeOK, unitVars, pathVars, OpType, Steps
<1> QED BY <1>2, <1>3 DEF TypeInv

\* An operation of the process manager that may launch is the updater's own.
Mine == /\ op.kind \in {"start", "restart"} <=> upd.at \in {"waits", "waitsAgain"}
        /\ op.kind \in {"start", "restart"} => op.kind = "restart" /\ op.who = "updater"
        /\ op.kind = "none" <=> op.at = "idle"
        /\ op.at \in {"start", "verify"} => op.kind = "restart"

\* Until a new binary is known to run, what the panel itself started must not
\* be running from the name that the rollback would change to .failed.
Watched == \/ upd.at \in {"install", "restart", "putAside"}
           \/ upd.at = "waits" /\ op.at \notin {"verify", "ok"}
OwnSafe == Watched => \A p \in Alive : proc[p].by # "unit" => proc[p].exe # Slot("at")

UpdRuns == TypeInv /\ UpdInv /\ OneProcess /\ Findable /\ Mine /\ OwnSafe

\* Nobody else starts or restarts while an update is under way.
NoOtherStart == Controls \subseteq {"stop", "reload"}

LEMMA UpdRunsKept ==
    ASSUME UpdRuns, TypeInv', UpdInv', UNCHANGED hasUnit, Mine', OwnSafe',
           Kept \/ (hasUnit /\ Alone("unit", "bin")) \/ Alone("own", binaryPath')
    PROVE  UpdRuns'
<1> USE DEF UpdRuns, OneProcess, Findable, exeMatches
<1>1. CASE Kept
  BY <1>1 DEF Kept
<1>2. ASSUME NEW by, NEW b, Alone(by, b), by = "unit" => hasUnit PROVE UpdRuns'
  BY <1>2 DEF Alone, At
<1> QED BY <1>1, <1>2

\* OwnSafe while the phase lasts.
LEMMA OwnKept ==
    ASSUME OwnSafe, Watched' => Watched, upd'.path = upd.path, Kept \/ Alone("unit", "bin")
    PROVE  OwnSafe'
BY DEF OwnSafe, Kept, Alone, Slot

LEMMA OpKeepsRuns == ASSUME UpdRuns, OpStep, UNCHANGED updVars PROVE UpdRuns'
<1>0. /\ TypeInv /\ OneProcess /\ Findable /\ Mine /\ OwnSafe /\ op \in OpType
      /\ UNCHANGED <<hasUnit, upd>>
  BY DEF UpdRuns, TypeInv, OpStep, OpFrame, updVars, ReloadStep, RestartStandalone,
     RestartUnit, Direct, StopStep, StopPolled, StopTimesOut, StartStep, VerifyStep
<1>1. TypeInv' /\ UpdInv'
  BY OpStepTyped, UnderKeeps DEF UpdRuns, UnderStep
<1>2. /\ op'.kind = op.kind /\ op'.who = op.who /\ op.at # "idle" /\ op'.at # "idle"
      /\ op'.at \in {"start", "verify"} => op.kind \in {"start", "restart"}
  BY <1>0 DEF OpStep, To, OpType, Mine, ReloadStep, RestartStandalone, RestartUnit, Direct,
     StopStep, StopPolled, Stopped, StopTimesOut, StartStep, VerifyStep
<1>3. Mine'
  BY <1>0, <1>2 DEF Mine
<1>4. /\ Kept \/ (hasUnit /\ Alone("unit", "bin")) \/ Alone("own", binaryPath')
      /\ \/ Kept \/ Alone("unit", "bin")
         \/ op.at = "start" /\ op'.at = "verify"
  BY <1>0, OpEffect DEF Quiet
<1>5. OwnSafe'
  <2>1. CASE op.at = "verify"
    <3>1. VerifyStep
      BY <1>0, <2>1 DEF OpStep, ReloadStep, RestartStandalone, RestartUnit, Direct, StopStep,
         StopPolled, Stopped, StopTimesOut, StartStep
    <3>2. proc' = proc /\ (op'.at = "ok" \/ Found = {})
      BY <1>0, <3>1 DEF VerifyStep, To, OpType
    <3>3. CASE op'.at = "ok"
      BY <1>0, <1>2, <2>1, <3>2, <3>3, StillQuiet, OwnKept DEF Watched, Quiet, Mine
    <3>4. CASE Found = {}
      <4>1. \A p \in Alive : proc[p].by = "unit"
        BY <1>0, <3>4 DEF Findable, Found
      <4> QED BY <3>2, <4>1 DEF OwnSafe, Alive
    <3> QED BY <3>2, <3>3, <3>4
  <2>2. CASE op.at = "start" /\ op'.at = "verify"
    BY <1>0, <2>2 DEF OwnSafe, Watched, Mine
  <2>3. CASE op.at # "verify" /\ (Kept \/ Alone("unit", "bin"))
    <3>1. op.at # "ok"
      BY DEF OpStep, ReloadStep, RestartStandalone, RestartUnit, Direct, StopStep,
         StopPolled, Stopped, StopTimesOut, StartStep, VerifyStep
    <3>2. Watched' => Watched
      BY <1>0, <2>3, <3>1 DEF Watched
    <3> QED BY <1>0, <2>3, <3>2, OwnKept
  <2> QED BY <1>4, <2>1, <2>2, <2>3
<1> QED BY <1>0, <1>1, <1>3, <1>4, <1>5, UpdRunsKept

LEMMA UnderKeepsRuns == ASSUME NoOtherStart, UpdRuns, UnderStep PROVE UpdRuns'
<1>0. /\ TypeInv /\ UpdInv /\ OneProcess /\ Findable /\ Mine /\ OwnSafe /\ op \in OpType
      /\ UNCHANGED upd /\ UpdInv'
  BY UnderKeeps DEF UpdRuns, TypeInv, UnderStep, updVars
<1>1. ASSUME NEW k \in Controls, Control(k) PROVE UpdRuns'
  <2>1. k \in {"stop", "reload"} /\ op.kind = "none"
    BY <1>1 DEF NoOtherStart, Control, Begin, NoOp
  <2>2. /\ Kept /\ UNCHANGED hasUnit /\ TypeInv'
        /\ op'.kind = k /\ op'.at = "decide"
    BY <1>0, <1>1, <2>1, BeginKeeps, AskTyped DEF Control, Begin, NoOp
  <2>3. upd.at \notin {"waits", "waitsAgain"}
    BY <1>0, <2>1 DEF Mine
  <2>4. Mine' /\ OwnSafe'
    BY <1>0, <2>1, <2>2, <2>3, OwnKept DEF Mine, Watched
  <2> QED BY <1>0, <2>2, <2>4, UpdRunsKept
<1>2. CASE OpStep
  BY <1>2, OpKeepsRuns DEF UnderStep
<1>3. CASE Finish
  <2>1. TypeInv' /\ UNCHANGED <<hasUnit, proc>> /\ op.who = "panel" /\ op' = NoOp /\ op.at # "idle"
    BY <1>0, <1>3, AskTyped DEF Finish, OpFrame
  <2>2. upd.at \notin {"waits", "waitsAgain"}
    BY <1>0, <2>1 DEF Mine
  <2>3. Kept
    BY <2>1, StillQuiet DEF Quiet
  <2>4. Mine' /\ OwnSafe'
    BY <1>0, <2>1, <2>2, <2>3, OwnKept DEF Mine, Watched, NoOp
  <2> QED BY <1>0, <2>1, <2>3, <2>4, UpdRunsKept
<1>4. CASE StatusPoll \/ \E p \in Pids : Exits(p)
  <2>1. TypeInv' /\ UNCHANGED <<hasUnit, op>> /\ \A q \in Pids : proc'[q] \in {proc[q], None}
    <3>1. CASE StatusPoll
      BY <1>0, <3>1, AskTyped DEF StatusPoll, OpFrame
    <3>2. ASSUME NEW p \in Pids, Exits(p)
          PROVE  TypeInv' /\ UNCHANGED <<hasUnit, op>> /\ \A q \in Pids : proc'[q] \in {proc[q], None}
      <4>1. TypeInv'
        BY <1>0, <3>2, MachineTyped, ProcessAssumption
      <4> QED BY <1>0, <3>2, <4>1 DEF Exits, TypeInv, ProcTypeOK
    <3> QED BY <1>4, <3>1, <3>2
  <2>2. Kept
    BY <2>1 DEF Kept, Alive
  <2>3. Mine' /\ OwnSafe'
    BY <1>0, <2>1, <2>2, OwnKept DEF Mine, Watched
  <2> QED BY <1>0, <2>1, <2>2, <2>3, UpdRunsKept
<1>5. CASE Respawns
  <2>1. Alone("unit", "bin") /\ hasUnit /\ UNCHANGED <<hasUnit, op>>
    BY <1>0, <1>5, LaunchedAlone DEF Respawns
  <2>2. TypeInv'
    <3>1. PICK p \in Pids : TRUE
      BY <1>5 DEF Respawns, Launch
    <3> QED BY <1>0, <1>5, <3>1, MachineTyped, ProcessAssumption
  <2>3. Mine' /\ OwnSafe'
    BY <1>0, <2>1, OwnKept DEF Mine, Watched
  <2> QED BY <1>0, <2>1, <2>2, <2>3, UpdRunsKept
<1> QED BY <1>1, <1>2, <1>3, <1>4, <1>5 DEF UnderStep

\* A step of the checker or the handler moves no process and no operation.
LEMMA AsideKeepsRuns ==
    ASSUME UpdRuns, UpdNext, UpdInv', UNCHANGED <<hasUnit, proc, unitVars, startedPID, pathVars, op, req, unsure>>,
           Watched' => Watched /\ upd'.path = upd.path,
           upd'.at \in {"waits", "waitsAgain"} <=> upd.at \in {"waits", "waitsAgain"}
    PROVE  UpdRuns'
<1>1. TypeInv'
  BY UpdFaultTyped, FilesTyped DEF UpdRuns, TypeInv, ProcTypeOK
<1>2. Kept
  BY StillQuiet DEF Quiet
<1>3. Mine' /\ OwnSafe'
  BY <1>2, OwnKept DEF UpdRuns, Mine, OwnSafe
<1> QED BY <1>1, <1>2, <1>3, UpdRunsKept

\* A renaming of apply.
LEMMA RenameKeepsRuns ==
    ASSUME UpdRuns, UpdNext, UpdInv', FileFrame,
           NEW s \in {"at", "new", "old"}, NEW t \in {"at", "old", "failed"},
           Rename(Slot(s), Slot(t)),
           t = "failed" => s = "at" /\ upd.at = "putAside",
           upd'.path = upd.path,
           upd.at \notin {"waits", "waitsAgain"}, upd'.at \notin {"waits", "waitsAgain"},
           Watched' => <<s, t>> \in {<<"at", "old">>, <<"new", "at">>}
    PROVE  UpdRuns'
<1>0. /\ TypeInv /\ UpdInv /\ OneProcess /\ Findable /\ Mine /\ OwnSafe
      /\ UNCHANGED <<hasUnit, op>> /\ upd.path \in {"bin", "other"}
  BY DEF UpdRuns, FileFrame, UpdInv, UpdTypeOK, Update
<1>1. Slot(s) \in Names /\ Slot(t) \in Names
  BY <1>0, SlotNames DEF Slot
<1>2. /\ proc' \in [Pids -> Process \cup {None}]
      /\ \A p \in Alive' :
            /\ p \in Alive /\ proc'[p].by = proc[p].by
            /\ \/ proc[p].exe = Slot(s) /\ proc'[p].exe = Slot(t)
               \/ proc[p].exe = Slot(t) /\ t # "failed" /\ proc'[p].exe = Gone
               \/ proc[p].exe \notin {Slot(s), Slot(t)} /\ proc'[p].exe = proc[p].exe
               \/ proc[p].exe = Slot(t) /\ t = "failed" /\ proc'[p].exe = Slot(t)
  <2> DEFINE a == Slot(s)
             b == Slot(t)
  <2>1. b[2] = t
    BY DEF Slot
  <2>2. a \in Names /\ b \in Names /\ Rename(a, b)
    BY <1>1
  <2> HIDE DEF a, b
  <2>3. /\ proc' \in [Pids -> Process \cup {None}]
        /\ \A p \in Alive' :
              /\ p \in Alive
              /\ proc'[p].by = proc[p].by /\ proc'[p].build = proc[p].build
              /\ \/ proc[p].exe = a /\ proc'[p].exe = b
                 \/ proc[p].exe = b /\ b[2] # "failed" /\ proc'[p].exe = Gone
                 \/ proc[p].exe \notin {a, b} /\ proc'[p].exe = proc[p].exe
                 \/ proc[p].exe = b /\ b[2] = "failed" /\ proc'[p].exe = b
    BY <1>0, <2>2, RenameRuns
  <2> QED BY <2>1, <2>3 DEF a, b
<1>3. TypeInv'
  <2>1. op' \in OpType /\ (op'.at # "idle" => op'.cfg \in Paths)
    BY <1>0 DEF TypeInv
  <2>2. UNCHANGED <<hasUnit, unitVars, startedPID, pathVars, req, unsure>>
    BY DEF FileFrame
  <2>3. faults' \in Nat /\ ops' \in Nat
    BY <1>0, UpdFaultTyped
  <2> QED BY <1>0, <1>2, <2>1, <2>2, <2>3, FilesTyped
<1>4. OneProcess'
  BY <1>0, <1>2 DEF OneProcess
<1>5. Findable'
  <2>1. SUFFICES ASSUME NEW p \in Alive'
                 PROVE  /\ proc'[p].by = "unit" => hasUnit'
                        /\ proc'[p].exe[2] \in {"at", "old", "gone"} \/ proc'[p].by = "unit"
    BY DEF Findable, exeMatches
  <2>2. CASE t # "failed"
    BY <1>0, <1>2, <2>1, <2>2 DEF Findable, exeMatches, Slot, Gone
  <2>3. CASE t = "failed"
    BY <1>0, <1>2, <2>1, <2>3 DEF Findable, exeMatches, Slot, OwnSafe, Watched
  <2> QED BY <2>2, <2>3
<1>6. Mine'
  BY <1>0 DEF Mine
<1>7. OwnSafe'
  <2>1. SUFFICES ASSUME \/ s = "at" /\ t = "old"
                        \/ s = "new" /\ t = "at",
                        NEW p \in Alive', proc'[p].by # "unit"
                 PROVE  proc'[p].exe # Slot("at")
    BY DEF OwnSafe, Slot
  <2>2. p \in Alive /\ proc[p].by # "unit" /\ proc[p].exe[2] \in {"at", "old", "gone"}
    BY <1>0, <1>2, <2>1 DEF Findable, exeMatches
  <2>3. Gone # Slot("at") /\ (s = "new" => proc[p].exe # Slot(s)) /\ Slot("old") # Slot("at")
    BY <2>2 DEF Gone, Slot
  <2> QED BY <1>2, <2>1, <2>2, <2>3
<1> QED BY <1>0, <1>3, <1>4, <1>5, <1>6, <1>7 DEF UpdRuns

LEMMA ApplyKeepsRuns == ASSUME UpdRuns, UpdNext, ApplyStep, UpdInv' PROVE UpdRuns'
<1>0. /\ TypeInv /\ UpdInv /\ Mine /\ upd \in Update /\ upd.path \in {"bin", "other"}
  BY DEF UpdRuns, UpdInv, UpdTypeOK, Update
<1>1. \A s \in Phases : Phase(s) => upd'.at = s /\ upd'.path = upd.path
  BY <1>0 DEF Phase, Update
<1> USE DEF Phases
<1>2. CASE DownloadBegins \/ DownloadEnds \/ Verify \/ (BackUp /\ GiveUp)
  <2>1. UNCHANGED <<hasUnit, proc, unitVars, startedPID, pathVars, op, req, unsure>>
    BY <1>2 DEF DownloadBegins, DownloadEnds, Verify, GiveUp, BackUp, FileFrame
  <2>2. /\ upd.at \in {"download", "verify", "swap"} /\ upd'.path = upd.path
        /\ upd'.at \in {"download", "verify", "swap", "err"}
    BY <1>1, <1>2 DEF DownloadBegins, DownloadEnds, Verify, GiveUp, BackUp
  <2> QED BY <2>1, <2>2, AsideKeepsRuns DEF Watched
<1>3. CASE BackUp /\ Phase("install") /\ Rename(Slot("at"), Slot("old"))
  <2>1. FileFrame /\ upd.at = "swap" /\ upd'.at = "install" /\ upd'.path = upd.path
    BY <1>1, <1>3 DEF BackUp
  <2> QED BY <1>3, <2>1, RenameKeepsRuns
<1>4. CASE Install
  <2>1. FileFrame /\ upd.at = "install"
    BY <1>4 DEF Install
  <2>2. CASE Phase("restart") /\ Rename(Slot("new"), Slot("at"))
    BY <1>1, <2>1, <2>2, RenameKeepsRuns
  <2>3. CASE Phase("err") /\ Rename(Slot("old"), Slot("at"))
    BY <1>1, <2>1, <2>3, RenameKeepsRuns DEF Watched
  <2>4. CASE upd' = [upd EXCEPT !.at = "err", !.slip = TRUE] /\ UNCHANGED proc
    <3>1. UNCHANGED <<hasUnit, proc, unitVars, startedPID, pathVars, op, req, unsure>>
      BY <2>1, <2>4 DEF FileFrame
    <3>2. upd'.path = upd.path /\ upd'.at = "err"
      BY <1>0, <2>4 DEF Update
    <3> QED BY <2>1, <3>1, <3>2, AsideKeepsRuns DEF Watched
  <2> QED BY <1>4, <2>2, <2>3, <2>4 DEF Install
<1>5. CASE (PutAside \/ PutBack) /\ UNCHANGED proc
  <2>1. UNCHANGED <<hasUnit, proc, unitVars, startedPID, pathVars, op, req, unsure>>
    BY <1>5 DEF PutAside, PutBack, FileFrame
  <2>2. /\ upd.at \in {"putAside", "putBack"} /\ upd'.path = upd.path
        /\ upd'.at \in {"putBack", "again"}
    BY <1>0, <1>5 DEF PutAside, PutBack, Phase, Update
  <2> QED BY <2>1, <2>2, AsideKeepsRuns DEF Watched
<1>6. CASE PutAside /\ Phase("putBack") /\ Rename(Slot("at"), Slot("failed"))
  <2>1. FileFrame /\ upd.at = "putAside" /\ upd'.at = "putBack" /\ upd'.path = upd.path
    BY <1>1, <1>6 DEF PutAside
  <2>2. ~Watched'
    BY <2>1 DEF Watched
  <2> QED BY <1>6, <2>1, <2>2, RenameKeepsRuns
<1>7. CASE PutBack /\ Phase("again") /\ Rename(Slot("old"), Slot("at"))
  <2>1. FileFrame /\ upd.at = "putBack" /\ upd'.at = "again" /\ upd'.path = upd.path
    BY <1>1, <1>7 DEF PutBack
  <2>2. ~Watched'
    BY <2>1 DEF Watched
  <2> QED BY <1>7, <2>1, <2>2, RenameKeepsRuns
<1>8. CASE Restarts
  <2>1. UNCHANGED <<hasUnit, unitVars, startedPID, pathVars, req, unsure>> /\ upd'.path = upd.path
    BY <1>0, <1>8 DEF Restarts, Update
  <2>2. CASE UNCHANGED <<op, proc>> /\ upd' = [upd EXCEPT !.at = IF @ = "restart" THEN "putAside" ELSE "err"]
    <3>1. /\ upd.at \in {"restart", "again"} /\ upd'.at \in {"putAside", "err"}
          /\ upd'.at = "putAside" => upd.at = "restart"
      BY <1>0, <1>8, <2>2 DEF Restarts, Update
    <3> QED BY <2>1, <2>2, <3>1, AsideKeepsRuns DEF Watched
  <2>3. CASE Begin("restart", "updater") /\ upd' = [upd EXCEPT !.at = IF @ = "restart" THEN "waits" ELSE "waitsAgain"]
    <3>1. /\ upd.at \in {"restart", "again"} /\ upd'.at \in {"waits", "waitsAgain"}
          /\ upd'.at = "waits" => upd.at = "restart"
      BY <1>0, <1>8, <2>3 DEF Restarts, Update
    <3>2. Kept
      BY <2>3, BeginKeeps
    <3>3. op'.kind = "restart" /\ op'.who = "updater" /\ op'.at = "decide"
      BY <2>3 DEF Begin, NoOp
    <3>4. TypeInv'
      <4>1. \A q \in Process : [q EXCEPT !.prior = TRUE] \in Process
        BY DEF Process
      <4>2. proc' \in [Pids -> Process \cup {None}]
        BY <1>0, <2>3, <4>1 DEF Begin, TypeInv, ProcTypeOK
      <4>3. op' \in OpType /\ op'.cfg \in Paths
        BY <1>0, <2>3 DEF Begin, NoOp, OpType, Steps, TypeInv, ProcTypeOK
      <4> QED BY <1>0, <2>1, <4>2, <4>3, UpdFaultTyped, FilesTyped
    <3>5. Mine' /\ OwnSafe'
      BY <2>1, <3>1, <3>2, <3>3, OwnKept DEF Mine, Watched, UpdRuns
    <3> QED BY <2>1, <3>2, <3>4, <3>5, UpdRunsKept
  <2> QED BY <1>8, <2>2, <2>3 DEF Restarts
<1>9. CASE Restarted
  <2>1. /\ UNCHANGED <<hasUnit, proc, unitVars, startedPID, pathVars, req, unsure>>
        /\ upd'.path = upd.path /\ op' = NoOp
        /\ upd'.at \in {"err", "done", "putAside"}
        /\ upd'.at = "putAside" => upd.at = "waits" /\ op.at = "err"
    BY <1>0, <1>9 DEF Restarted, Phase, Update
  <2>2. Kept
    BY <2>1, StillQuiet DEF Quiet
  <2>3. TypeInv'
    <3>1. op' \in OpType /\ op'.at = "idle"
      BY <2>1 DEF NoOp, OpType, Steps
    <3>2. proc' \in [Pids -> Process \cup {None}]
      BY <1>0, <2>1 DEF TypeInv, ProcTypeOK
    <3> QED BY <1>0, <2>1, <3>1, <3>2, UpdFaultTyped, FilesTyped
  <2>4. Mine' /\ OwnSafe'
    BY <2>1, <2>2, OwnKept DEF Mine, Watched, UpdRuns, NoOp
  <2> QED BY <2>1, <2>2, <2>3, <2>4, UpdRunsKept
<1>10. CASE Answer
  <2>1. UNCHANGED <<hasUnit, proc, unitVars, startedPID, pathVars, op, req, unsure>>
    BY <1>10 DEF Answer, ProcFrame
  <2>2. upd.at \in {"done", "err"} /\ upd'.at = "idle"
    BY <1>10 DEF Answer, NoUpd
  <2> QED BY <2>1, <2>2, AsideKeepsRuns DEF Watched
<1> QED BY <1>2, <1>3, <1>4, <1>5, <1>6, <1>7, <1>8, <1>9, <1>10
        DEF ApplyStep, BackUp, PutAside, PutBack, RenameFails

LEMMA RunsStep == NoOtherStart /\ UpdRuns /\ [UpdNext]_allVars => UpdRuns'
<1> SUFFICES ASSUME NoOtherStart, UpdRuns, [UpdNext]_allVars PROVE UpdRuns'
  OBVIOUS
<1>0. UpdInv' /\ TypeInv /\ upd \in Update
  BY UpdStep DEF UpdRuns, UpdInv, UpdTypeOK
<1>1. CASE UnderStep
  BY <1>1, UnderKeepsRuns
<1>2. CASE UpdNext /\ (Publishes \/ Check \/ SelfUpdate)
  <2>1. UNCHANGED <<hasUnit, proc, unitVars, startedPID, pathVars, op, req, unsure, upd>>
    BY <1>2 DEF Publishes, Check, SelfUpdate, ProcFrame
  <2> QED BY <1>0, <1>2, <2>1, AsideKeepsRuns DEF Watched
<1>3. ASSUME UpdNext, NEW r \in Asks, AskUpdate(r) \/ TakeRelease(r) \/ CompareVersion(r) \/ Admit(r) PROVE UpdRuns'
  <2>1. UNCHANGED <<hasUnit, proc, unitVars, startedPID, pathVars, op, req, unsure>>
    BY <1>3 DEF AskUpdate, TakeRelease, CompareVersion, Admit, ProcFrame
  <2>2. upd' = upd \/ (upd.at = "idle" /\ upd'.at = "download")
    <3>1. CASE AskUpdate(r) \/ TakeRelease(r) \/ CompareVersion(r)
      BY <3>1 DEF AskUpdate, TakeRelease, CompareVersion
    <3>2. CASE Admit(r) /\ upd' # upd
      <4>1. /\ upd = NoUpd
            /\ upd' = [NoUpd EXCEPT !.at = "download", !.for = r, !.rel = ask[r].rel,
                                    !.was = file[At(binaryPath)], !.path = binaryPath]
        BY <3>2 DEF Admit
      <4> QED BY <4>1 DEF NoUpd
    <3> QED BY <1>3, <3>1, <3>2
  <2> QED BY <1>0, <1>3, <2>1, <2>2, AsideKeepsRuns DEF Watched
<1>4. CASE UpdNext /\ ApplyStep
  BY <1>0, <1>4, ApplyKeepsRuns
<1>5. CASE UpdNext /\ (ReExec \/ Crash)
  <2>1. UNCHANGED <<hasUnit, proc>> /\ op' = NoOp /\ upd' = NoUpd /\ Booted
    BY <1>5 DEF ReExec, Crash, Rebooted, Booted
  <2>2. TypeInv'
    BY <1>0, <1>5, <2>1, UpdFaultTyped, BootTyped
  <2>3. Kept
    BY <2>1, StillQuiet DEF Quiet
  <2>4. Mine' /\ OwnSafe'
    BY <2>1 DEF Mine, OwnSafe, Watched, NoOp, NoUpd
  <2> QED BY <1>0, <2>1, <2>2, <2>3, <2>4, UpdRunsKept
<1>6. CASE UNCHANGED allVars
  <2>1. UNCHANGED procVars /\ UNCHANGED <<hasUnit, proc, op, upd>>
    BY <1>6 DEF allVars, updVars, procVars
  <2>2. Kept
    BY <2>1, StillQuiet DEF Quiet
  <2>3. TypeInv'
    BY <1>0, <2>1, StepTyped
  <2>4. Mine' /\ OwnSafe'
    BY <2>1, <2>2, OwnKept DEF Mine, Watched, UpdRuns
  <2> QED BY <1>0, <2>1, <2>2, <2>3, <2>4, UpdRunsKept
<1> QED BY <1>1, <1>2, <1>3, <1>4, <1>5, <1>6 DEF UpdNext

LEMMA RunsStart == UpdInit => UpdRuns
<1> SUFFICES ASSUME UpdInit PROVE UpdRuns
  OBVIOUS
<1>1. TypeInv /\ UpdInv /\ Init
  BY InitTyped, UpdStart DEF UpdInit
<1>2. PICK p \in Pids : proc = [q \in Pids |->
        IF q = p /\ wanted THEN Launched("unit", loaded, At("bin")) ELSE None]
  BY <1>1 DEF Init
<1>3. /\ \A q \in Alive : q = p /\ hasUnit /\ proc[q].exe = At("bin")
  BY <1>1, <1>2 DEF Alive, Init, Launched
<1>4. op = NoOp /\ upd = NoUpd
  BY DEF UpdInit, Init
<1>5. Mine /\ OwnSafe
  BY <1>4 DEF Mine, OwnSafe, Watched, NoOp, NoUpd
<1> QED BY <1>1, <1>3, <1>5 DEF UpdRuns, OneProcess, Findable, exeMatches, At

\* As long as nobody else starts or restarts while it is under way, an update
\* and its rollback never bring up a second amnezia-box beside a live one,
\* under whichever of its names the binary runs (exeMatches, Manager.Restart).
THEOREM UpdateStartsOnlyOne == ASSUME NoOtherStart PROVE UpdSpec => []OneProcess
<1>1. UpdRuns => OneProcess
  BY DEF UpdRuns
<1>2. UpdRuns /\ [UpdNext]_allVars => UpdRuns'
  BY RunsStep
<1> QED BY <1>1, <1>2, RunsStart, PTL DEF UpdSpec

-----------------------------------------------------------------------------
(* What runs after an update, with a pinned binary path.                     *)

\* The release is what each phase finds in the slots; and once the restart has
\* looked, it sees everything there is, and what it launches is the release.
RelInv ==
    /\ binaryPath = "bin" /\ upd.path = "bin"
    /\ upd.at \in {"swap", "install"} => file[Slot("new")] = upd.rel
    /\ upd.at \in {"restart", "waits", "done"} => file[Slot("at")] = upd.rel
    /\ upd.at = "waits" /\ op.at # "decide" => Alive \subseteq Found
    /\ upd.at = "waits" /\ op.at \in {"start", "verify", "ok"}
          => \A p \in Alive : proc[p].build = upd.rel
    /\ UpdatedIsRunning

RelRuns == UpdRuns /\ RelInv

\* A step that leaves the update and the files alone.
LEMMA RelKept ==
    ASSUME RelRuns, UNCHANGED <<upd, file, op>>, binaryPath' = "bin", Kept \/ Alone("unit", "bin")
    PROVE  RelInv'
<1> USE DEF RelRuns, RelInv, Slot, UpdatedIsRunning
<1>1. CASE Kept
  BY <1>1 DEF Kept, Found, exeMatches
<1>2. CASE Alone("unit", "bin")
  BY <1>2 DEF Alone, Found, exeMatches, At
<1> QED BY <1>1, <1>2

LEMMA OpKeepsRel == ASSUME RelRuns, OpStep, UNCHANGED upd, binaryPath' = "bin" PROVE RelInv'
<1>0. /\ TypeInv /\ OneProcess /\ Findable /\ Mine /\ op \in OpType /\ UNCHANGED file
  BY DEF RelRuns, UpdRuns, TypeInv, OpStep, OpFrame, ReloadStep, RestartStandalone,
     RestartUnit, Direct, StopStep, StopPolled, StopTimesOut, StartStep, VerifyStep
<1>1. Quiet \/ Alone("unit", "bin") \/ (op.at = "start" /\ Alone("own", "bin"))
  BY <1>0, OpEffect
<1>2. ASSUME upd.at = "waits" PROVE Alive' \subseteq Found'
  <2>1. op.kind = "restart"
    BY <1>0, <1>2 DEF Mine
  <2>2. CASE op.at # "decide" /\ Quiet
    BY <1>2, <2>2 DEF RelRuns, RelInv, Quiet, Kept, Found, exeMatches
  <2>3. ASSUME NEW by, NEW b, Alone(by, b) PROVE Alive' \subseteq Found'
    BY <2>3 DEF Alone, Found, exeMatches, At
  <2>4. CASE RestartStandalone
    <3>1. proc' = proc /\ \A p \in Alive : proc[p].by # "unit"
      BY <1>0, <2>4 DEF RestartStandalone, IsSystemdManaged, Findable
    <3> QED BY <1>0, <3>1 DEF Findable, Found, exeMatches, Alive
  <2>5. CASE RestartUnit
    BY <1>0, <2>3, <2>5, RestartUnitAlone
  <2>6. op.at = "decide" => RestartStandalone \/ RestartUnit
    BY <2>1 DEF OpStep, ReloadStep, Direct, StopStep, StopPolled, Stopped, StopTimesOut,
       StartStep, VerifyStep
  <2> QED BY <1>1, <2>2, <2>3, <2>4, <2>5, <2>6
<1>3. ASSUME upd.at = "waits", op'.at \in {"start", "verify", "ok"}
      PROVE  \A p \in Alive' : proc'[p].build = upd.rel
  <2>1. op.kind = "restart" /\ file[At("bin")] = upd.rel
    BY <1>0, <1>3 DEF Mine, RelRuns, RelInv, Slot, At
  <2>2. CASE op.at \in {"start", "verify"}
    BY <1>1, <1>3, <2>1, <2>2 DEF RelRuns, RelInv, Quiet, Kept, Alone
  <2>3. CASE Alone("unit", "bin")
    BY <2>1, <2>3 DEF Alone
  <2>4. CASE Found = {} /\ ~IsSystemdManaged /\ Quiet
    BY <1>0, <2>4, NothingRuns DEF Quiet, Kept
  <2>5. CASE Found = {} /\ op.at \in {"unitGone", "gone", "killed"} /\ Quiet
    BY <1>3, <2>5 DEF RelRuns, RelInv, Quiet, Kept
  <2> QED BY <1>0, <1>3, <2>1, <2>2, <2>3, <2>4, <2>5, RestartTurns
<1>4. ASSUME upd.at = "done" PROVE \A p \in Alive' : proc'[p].build = upd.rel
  <2>1. op.at # "start" /\ file[At("bin")] = upd.rel
    BY <1>0, <1>4 DEF Mine, RelRuns, RelInv, Slot, At
  <2> QED BY <1>1, <1>4, <2>1 DEF RelRuns, RelInv, UpdatedIsRunning, Quiet, Kept, Alone
<1> QED BY <1>0, <1>2, <1>3, <1>4 DEF RelRuns, RelInv, Slot, UpdatedIsRunning

LEMMA UnderKeepsRel ==
    ASSUME NoOtherStart, Pinned, RelRuns, UnderStep PROVE RelInv'
<1>0. /\ TypeInv /\ Mine /\ UNCHANGED upd /\ binaryPath = "bin" /\ Probed = "bin"
  BY DEF RelRuns, UpdRuns, RelInv, UnderStep, updVars, Probed
<1>1. ASSUME NEW k \in Controls, Control(k) PROVE RelInv'
  <2>1. op.kind = "none" /\ UNCHANGED <<upd, file, binaryPath>> /\ Kept
    BY <1>0, <1>1, BeginKeeps DEF Control, Begin, NoOp
  <2>2. upd.at # "waits"
    BY <1>0, <2>1 DEF Mine
  <2> QED BY <2>1, <2>2 DEF RelRuns, RelInv, Slot, UpdatedIsRunning, Kept
<1>2. CASE OpStep
  <2>1. binaryPath' = "bin"
    BY <1>0, <1>2 DEF OpStep, Seen, ReloadStep, RestartStandalone, RestartUnit, Direct,
       StopStep, StopPolled, StopTimesOut, StartStep, VerifyStep
  <2> QED BY <1>0, <1>2, <2>1, OpKeepsRel
<1>3. CASE Finish
  <2>1. op.who = "panel" /\ op.at # "idle" /\ UNCHANGED <<upd, file, binaryPath, proc>>
    BY <1>0, <1>3 DEF Finish, OpFrame
  <2>2. upd.at # "waits" /\ Kept
    BY <1>0, <2>1, StillQuiet DEF Mine, Quiet
  <2> QED BY <2>1, <2>2 DEF RelRuns, RelInv, Slot, UpdatedIsRunning, Kept
<1>4. CASE StatusPoll
  <2>1. Kept /\ UNCHANGED <<file, op>> /\ binaryPath' = "bin"
    BY <1>0, <1>4, StillQuiet DEF StatusPoll, OpFrame, Seen, Quiet
  <2> QED BY <1>0, <2>1, RelKept
<1>5. ASSUME NEW p \in Pids, Exits(p) PROVE RelInv'
  <2>1. UNCHANGED <<file, op, binaryPath>> /\ \A q \in Pids : proc'[q] \in {proc[q], None}
    BY <1>0, <1>5 DEF Exits, TypeInv, ProcTypeOK
  <2>2. Kept
    BY <2>1 DEF Kept, Alive
  <2> QED BY <1>0, <2>1, <2>2, RelKept
<1>6. CASE Respawns
  <2>1. Alone("unit", "bin") /\ UNCHANGED <<file, op, binaryPath>>
    BY <1>0, <1>6, LaunchedAlone DEF Respawns
  <2> QED BY <1>0, <2>1, RelKept
<1> QED BY <1>1, <1>2, <1>3, <1>4, <1>5, <1>6 DEF UnderStep

\* A phase without release, and one in which the release is only downloaded.
LEMMA RelIdle ==
    ASSUME binaryPath' = "bin", upd'.path = "bin",
           upd'.at \in {"idle", "download", "verify", "putAside", "putBack", "again", "waitsAgain", "err"}
    PROVE  RelInv'
BY DEF RelInv, UpdatedIsRunning

LEMMA ApplyKeepsRel ==
    ASSUME RelRuns, ApplyStep PROVE RelInv'
<1>0. /\ TypeInv /\ UpdInv /\ Mine /\ upd \in Update /\ upd.path = "bin" /\ binaryPath = "bin"
  BY DEF RelRuns, UpdRuns, UpdInv, UpdTypeOK, RelInv
<1>1. \A s \in Phases : Phase(s) => upd'.at = s /\ upd'.path = upd.path /\ upd'.rel = upd.rel
  BY <1>0 DEF Phase, Update
<1>2. /\ Slot("at") \in Names /\ Slot("new") \in Names /\ Slot("old") \in Names
      /\ \A s : Slot(s)' = <<upd'.path, s>>
      /\ Slot("at") = <<"bin", "at">> /\ Slot("new") = <<"bin", "new">>
      /\ Slot("old") = <<"bin", "old">>
  BY <1>0, SlotNames DEF Slot
<1> USE DEF Phases
<1>3. CASE DownloadBegins \/ DownloadEnds \/ (BackUp /\ GiveUp) \/ PutAside \/ PutBack \/ Answer
  <2>1. binaryPath' = "bin"
    BY <1>0, <1>3 DEF DownloadBegins, DownloadEnds, BackUp, PutAside, PutBack, Answer
  <2>2. /\ upd'.path = "bin"
        /\ upd'.at \in {"idle", "download", "verify", "putBack", "again", "err"}
    <3>1. CASE DownloadBegins \/ DownloadEnds \/ (BackUp /\ GiveUp)
      BY <1>0, <1>1, <3>1 DEF DownloadBegins, DownloadEnds, GiveUp
    <3>2. CASE PutAside \/ PutBack
      BY <1>0, <1>1, <3>2 DEF PutAside, PutBack, Update
    <3>3. CASE Answer
      BY <3>3 DEF Answer, NoUpd
    <3> QED BY <1>3, <3>1, <3>2, <3>3
  <2> QED BY <2>1, <2>2, RelIdle
<1>4. CASE Verify
  <2>1. CASE GiveUp
    BY <1>0, <1>1, <1>4, <2>1, RelIdle DEF Verify, GiveUp
  <2>2. CASE Phase("swap") /\ UNCHANGED file /\ file[Slot("new")] = upd.rel
    BY <1>0, <1>1, <1>2, <1>4, <2>2 DEF Verify, RelInv, UpdatedIsRunning
  <2> QED BY <1>4, <2>1, <2>2 DEF Verify
<1>5. CASE BackUp /\ Phase("install") /\ Rename(Slot("at"), Slot("old"))
  <2>1. file[Slot("new")] = upd.rel /\ binaryPath' = "bin"
    BY <1>0, <1>5 DEF BackUp, RelRuns, RelInv
  <2>2. file'[Slot("new")] = file[Slot("new")]
    BY <1>0, <1>2, <1>5, RenameMoves DEF UpdInv
  <2> QED BY <1>0, <1>1, <1>2, <1>5, <2>1, <2>2 DEF RelInv, UpdatedIsRunning
<1>6. CASE Install
  <2>1. file[Slot("new")] = upd.rel /\ binaryPath' = "bin"
    BY <1>0, <1>6 DEF Install, RelRuns, RelInv
  <2>2. CASE Phase("restart") /\ Rename(Slot("new"), Slot("at"))
    <3>1. file'[Slot("at")] = upd.rel
      BY <1>0, <1>2, <2>1, <2>2, RenameMoves DEF UpdInv
    <3> QED BY <1>0, <1>1, <1>2, <2>1, <2>2, <3>1 DEF RelInv, UpdatedIsRunning
  <2>3. CASE upd'.at = "err" /\ upd'.path = "bin"
    BY <2>1, <2>3, RelIdle
  <2> QED BY <1>0, <1>1, <1>6, <2>2, <2>3 DEF Install, Update
<1>7. CASE Restarts
  <2>1. binaryPath' = "bin" /\ upd'.path = "bin" /\ upd'.rel = upd.rel /\ UNCHANGED file
    BY <1>0, <1>7 DEF Restarts, Update
  <2>2. CASE upd'.at = "waits"
    <3>1. upd.at = "restart" /\ op'.at = "decide"
      BY <1>0, <1>7, <2>2 DEF Restarts, Update, Begin, NoOp
    <3> QED BY <1>2, <2>1, <2>2, <3>1 DEF RelRuns, RelInv, UpdatedIsRunning
  <2>3. upd'.at \in {"waits", "putAside", "err", "waitsAgain"}
    BY <1>0, <1>7 DEF Restarts, Update
  <2> QED BY <2>1, <2>2, <2>3, RelIdle
<1>8. CASE Restarted
  <2>1. /\ UNCHANGED <<proc, file>> /\ binaryPath' = "bin" /\ op' = NoOp
        /\ upd'.path = "bin" /\ upd'.rel = upd.rel
        /\ upd'.at \in {"err", "done", "putAside"}
        /\ upd'.at = "done" => upd.at = "waits" /\ op.at = "ok"
    BY <1>0, <1>8 DEF Restarted, Phase, Update
  <2>2. CASE upd'.at = "done"
    <3>1. \A p \in Alive : proc[p].build = upd.rel
      BY <2>1, <2>2 DEF RelRuns, RelInv
    <3> QED BY <1>2, <2>1, <2>2, <3>1 DEF RelRuns, RelInv, UpdatedIsRunning, Alive
  <2> QED BY <2>1, <2>2, RelIdle
<1> QED BY <1>3, <1>4, <1>5, <1>6, <1>7, <1>8 DEF ApplyStep, BackUp

\* With a pinned binary path, and nobody else starting or restarting, an update
\* that answers success has left no process of another build running, whichever
\* way the restart took (apply, Manager.Restart).
THEOREM UpdateRunsTheRelease ==
    ASSUME NoOtherStart, Pinned PROVE UpdSpec => []UpdatedIsRunning
<1>1. UpdInit => RelRuns
  <2> SUFFICES ASSUME UpdInit PROVE RelRuns
    OBVIOUS
  <2>1. UpdRuns /\ upd = NoUpd /\ binaryPath = "bin"
    BY RunsStart DEF UpdInit, Init
  <2> QED BY <2>1 DEF RelRuns, RelInv, NoUpd, UpdatedIsRunning
<1>2. RelRuns /\ [UpdNext]_allVars => RelRuns'
  <2> SUFFICES ASSUME RelRuns, [UpdNext]_allVars PROVE RelInv'
    BY RunsStep DEF RelRuns
  <2>0. binaryPath = "bin" /\ Probed = "bin" /\ upd.path = "bin"
    BY DEF RelRuns, RelInv, Probed
  <2>1. CASE UnderStep
    BY <2>1, UnderKeepsRel
  <2>2. CASE Publishes \/ Check \/ SelfUpdate \/ UNCHANGED allVars
    <3>1. UNCHANGED <<proc, file, upd, op, binaryPath>>
      BY <2>2 DEF Publishes, Check, SelfUpdate, ProcFrame, allVars, procVars, updVars
    <3>2. Kept
      BY <3>1, StillQuiet DEF Quiet
    <3> QED BY <2>0, <3>1, <3>2, RelKept
  <2>3. ASSUME NEW r \in Asks, AskUpdate(r) \/ TakeRelease(r) \/ CompareVersion(r) \/ Admit(r) PROVE RelInv'
    <3>1. CASE upd' # upd
      <4>1. /\ Admit(r)
            /\ upd' = [NoUpd EXCEPT !.at = "download", !.for = r, !.rel = ask[r].rel,
                                    !.was = file[At(binaryPath)], !.path = binaryPath]
        BY <2>3, <3>1 DEF AskUpdate, TakeRelease, CompareVersion, Admit
      <4>2. upd'.at = "download" /\ upd'.path = "bin" /\ binaryPath' = "bin"
        BY <2>0, <4>1 DEF NoUpd, Admit
      <4> QED BY <4>2, RelIdle
    <3>2. CASE upd' = upd
      <4>1. UNCHANGED <<proc, file, op>>
        BY <2>3 DEF AskUpdate, TakeRelease, CompareVersion, Admit, ProcFrame
      <4>2. binaryPath' = "bin"
        BY <2>0, <2>3 DEF AskUpdate, TakeRelease, CompareVersion, Admit
      <4>3. Kept
        BY <4>1, StillQuiet DEF Quiet
      <4> QED BY <3>2, <4>1, <4>2, <4>3, RelKept
    <3> QED BY <3>1, <3>2
  <2>4. CASE ApplyStep
    BY <2>4, ApplyKeepsRel
  <2>5. CASE ReExec \/ Crash
    <3>1. upd' = NoUpd /\ binaryPath' = "bin"
      BY <2>5 DEF ReExec, Crash, Rebooted, Booted, findBinary
    <3> QED BY <3>1, RelIdle DEF NoUpd
  <2> QED BY <2>1, <2>2, <2>3, <2>4, <2>5 DEF UpdNext
<1>3. RelRuns => UpdatedIsRunning
  BY DEF RelRuns, RelInv
<1> QED BY <1>1, <1>2, <1>3, PTL DEF UpdSpec
=============================================================================
