------------------------ MODULE DeployReleaseProofs -------------------------
(* Proofs about the deployment script for any number of releases, services, *)
(* runs, failing commands, ignored failures and kills: a restored snapshot  *)
(* is exact up to what ignored failures left undone, a deployment that      *)
(* reports success serves the release, and what a rollback needs is on      *)
(* disk.                                                                    *)
EXTENDS DeployRelease, TLAPS

(* Zenon, with a minute for each leaf; the leaves that count name SMT.      *)
USE ZenonT(60)

-----------------------------------------------------------------------------
(* Types, and what the place in the script tells.                           *)
Link == Release \cup {None, Self}
Unit == [AllService -> Release \cup {None}]
StateRec ==
  [release : Link, unit : Unit, enabled : SUBSET AllService, active : SUBSET AllService,
   bin : Release \cup {None}, site : Release \cup {None}]
HostRec ==
  [current : Link, unit : Unit, enabled : SUBSET AllService, run : Unit,
   bin : Release \cup {None}, site : Release \cup {None}, loaded : Release \cup {None}]
StoreRec ==
  [disk : SUBSET Release, partial : SUBSET Release, previous : Link,
   saved : StateRec \cup {None}, savedNext : StateRec \cup {None}]
LeftRec ==
  [run : SUBSET AllService, astray : SUBSET AllService, enabled : SUBSET AllService,
   unit : SUBSET AllService, files : SUBSET {"current", "bin", "site"}]
DeployOp == [kind : {"deploy"}, target : Release]
RollbackOp == [kind : {"rollback"}, target : {None}]

Activating ==
  {"units", "disable", "enable", "stop", "link", "bin", "start", "site", "reload"}
Restoring == {"r_stop"} \cup RestoreCommands
Ending == {"previous", "save", "drop", "keep", "prune"}
Running == Activating \cup Restoring \cup Ending    \* the snapshot has been taken
Before == {"idle", "stage", "snapshot"}
FrontendOnly == {"bin", "site", "reload", "r_bin", "r_site", "r_reload"}
ModelOnly == {"disable", "stop", "r_disable"}
EarlyRestore ==      \* nothing has touched the site or nginx yet
  {"r_stop", "r_unit", "r_daemon", "r_disable", "r_link", "r_enable", "r_bin", "r_site"}

Types ==
  /\ config \in Configs /\ host \in HostRec /\ store \in StoreRec
  /\ snap \in StateRec \cup {None} /\ op \in DeployOp \cup RollbackOp \cup {None}
  /\ pc \in Before \cup Running /\ from \in {"snap", "saved"} /\ kills \in Nat
  /\ before \in HostRec \cup {None}
  /\ left \in LeftRec /\ left.run \subseteq left.astray

Index ==
  /\ pc \in {"units", "start"} => i \in Service
  /\ pc = "r_unit" => i \in AllService
  /\ pc = "r_start" => i \in 1 .. NAll + 1
  /\ pc \notin {"units", "start", "r_unit", "r_start"} => i = 1

Place ==
  /\ pc \in Activating \cup {"stage"} => op \in DeployOp
  /\ pc \in Running \cup {"snapshot"} => op \in DeployOp \cup RollbackOp
  /\ pc = "snapshot" /\ op \in RollbackOp => store.saved # None
  /\ pc \in Restoring /\ from = "saved" => store.saved # None /\ op \in RollbackOp
  /\ pc \in Running => snap # None
  /\ pc \in FrontendOnly => Frontend
  /\ pc \in ModelOnly => ~Frontend

(* The snapshot is that of the host as it was found.                        *)
Taken == snap # None => before \in HostRec /\ snap = StateFrom(before)

-----------------------------------------------------------------------------
(* The part of State that is restored, up to what was left undone: units up *)
(* to i, then link, enabled services, binary and site in the order of the   *)
(* role, then the services.                                                 *)
UnitBack(s) ==
  IF s \in left.unit THEN State.unit[s] = None ELSE host.unit[s] = State.unit[s]
Restored ==
  /\ pc = "r_unit" =>
       (\A s \in AllService : s < i => UnitBack(s)) /\ \A s \in left.unit : s < i
  /\ pc \in RestoreCommands \ {"r_unit"} => \A s \in AllService : UnitBack(s)
  /\ pc = "r_enable" /\ ~Frontend => host.enabled = left.enabled
  /\ pc \in {"r_unit", "r_daemon", "r_link", "r_enable"} /\ Frontend => left.enabled = {}
  /\ pc \in {"r_bin", "r_site", "r_reload", "r_start"} \/ (pc = "r_link" /\ ~Frontend) =>
       host.enabled = State.enabled \cup left.enabled
  /\ pc \in {"r_bin", "r_site", "r_reload", "r_start"} \/ (pc = "r_enable" /\ Frontend) =>
       (State.release # None => host.current = State.release)
  /\ pc \in {"r_site", "r_reload", "r_start"} /\ Frontend =>
       "bin" \in left.files \/ host.bin = State.bin
  /\ pc \in {"r_reload", "r_start"} /\ Frontend =>
       "site" \in left.files \/ host.site = State.site
  /\ pc \in RestoreCommands \ {"r_start"} => Active = left.run
  /\ pc = "r_start" =>
       /\ Active = {s \in State.active : s < i} \cup left.run
       /\ \A s \in Active \ left.run : host.run[s] = RunsFrom(s)

(* Only the frontend changes the router's binary, the site and nginx.       *)
RouterKept ==
  ~Frontend /\ (pc \in Running \/ (pc = "idle" /\ report = "restored")) =>
    host.bin = before.bin /\ host.site = before.site /\ host.loaded = before.loaded

(* nginx has loaded what it had or the site file found, when that file is   *)
(* there.  A reload follows every change of the file, except where the      *)
(* restoration of the snapshot is about to make it.                         *)
Nginx(h) == h.site = before.site => h.loaded \in {before.loaded, before.site}
SiteAt(h, q, f) ==
  /\ q \in Activating \ {"reload"} \/ (q \in EarlyRestore /\ f = "saved") =>
       h.site = before.site /\ h.loaded = before.loaded
  /\ q = "reload" => h.site = op.target /\ op.target # before.site
  /\ q \in Activating \cup Restoring /\ ~(q = "r_reload" /\ f = "snap") => Nginx(h)

RestoreInv ==
  /\ Restored /\ RouterKept
  /\ SiteAt(host, pc, from)
  /\ pc = "idle" /\ report = "restored" =>
       /\ snap # None
       /\ snap.release # None => host.current = snap.release
       /\ \A s \in AllService :
            IF s \in left.unit THEN snap.unit[s] = None ELSE host.unit[s] = snap.unit[s]
       /\ host.enabled = snap.enabled \cup left.enabled
       /\ Active = snap.active \cup left.run
       /\ \A s \in Active \ left.run : host.run[s] = RunsFrom(s)
       /\ Frontend => "bin" \in left.files \/ host.bin = snap.bin
       /\ Frontend => "site" \in left.files \/ host.site = snap.site
       /\ Nginx(host)

-----------------------------------------------------------------------------
(* The activation of a release.                                             *)
Serves ==
  /\ host.current = op.target /\ host.enabled = Service \cup left.enabled
  /\ \A s \in Service : host.unit[s] = op.target /\ host.run[s] # None
  /\ \A s \in AllService : Frontend \/ s \notin left.run =>
       host.run[s] = IF s \in Service THEN op.target ELSE None
  /\ Frontend =>
       /\ host.bin = op.target /\ host.site = op.target
       /\ host.loaded = IF before.site = op.target THEN before.loaded ELSE op.target

Activated ==
  /\ pc = "units" => \A s \in Service : s < i => host.unit[s] = op.target
  /\ pc \in {"disable", "enable", "stop", "start", "site", "reload"}
       \/ (pc = "link" /\ ~Frontend) => \A s \in Service : host.unit[s] = op.target
  /\ pc = "enable" /\ ~Frontend => host.enabled = left.enabled
  /\ pc \in {"stop", "start", "site", "reload"} \/ (pc = "link" /\ ~Frontend) =>
       host.enabled = Service \cup left.enabled
  /\ pc \in {"bin", "start", "site", "reload"} \/ (pc \in {"units", "enable"} /\ Frontend) =>
       host.current = op.target
  /\ Frontend /\ pc \in {"units", "enable", "start", "site", "reload"} => host.bin = op.target
  /\ pc = "link" /\ ~Frontend => Active = left.run
  /\ pc = "start" /\ ~Frontend =>
       \A s \in AllService :
         IF s \in left.run THEN host.run[s] # None
         ELSE host.run[s] = IF s < i THEN op.target ELSE None
  /\ pc \in {"site", "reload"} => \A s \in AllService : host.run[s] = op.target
  /\ pc \in Ending /\ op \in DeployOp => Serves
  /\ pc = "idle" /\ report = "deployed" => Serves

-----------------------------------------------------------------------------
(* What is on disk.                                                         *)
OnDisk ==
  /\ pc \in Running \cup {"snapshot"} /\ op \in DeployOp => op.target \in store.disk
  /\ host.current \in Release => host.current \in store.disk
  /\ pc \in Running /\ snap.release \in Release => snap.release \in store.disk
  /\ store.saved # None /\ store.saved.release \in Release => store.saved.release \in store.disk
  /\ pc \in {"save", "drop", "keep", "prune"} => store.previous = snap.release
  /\ pc \in {"drop", "keep"} => store.savedNext = snap
  /\ pc = "prune" => store.saved = snap
  /\ Done => store.saved # None

(* On a model host whose script was never killed, what runs is the current  *)
(* release, and so it was for every state that was saved; but for the       *)
(* services that a failed stop once left running.                           *)
Coherent(s) ==
  \A x \in s.active \ left.astray : s.unit[x] = s.release /\ s.release \in Release
CoherentInv ==
  /\ \A s \in Active \ left.astray : host.run[s] \in store.disk
  /\ pc \in Before \cup Ending \cup {"r_start"} =>
       \A s \in Active \ left.astray : host.run[s] = host.current /\ host.unit[s] = host.current
  /\ pc \in Running => Coherent(snap)
  /\ store.saved # None => Coherent(store.saved)

DeployInv ==
  /\ Types /\ Index /\ Place /\ Taken /\ RestoreInv /\ Activated
  /\ OnDisk
  /\ kills = 0 /\ ~Frontend => CoherentInv

-----------------------------------------------------------------------------
(* A host has at least the services of its role, the frontend just one.     *)
LEMMA ConfigFacts ==
  ASSUME Types
  PROVE  /\ NAll \in Nat /\ NService \in Nat /\ 1 <= NService /\ NService <= NAll
         /\ Service \subseteq AllService /\ 1 \in Service
         /\ Frontend \in BOOLEAN
         /\ Frontend => Service = AllService /\ \A s \in AllService : s = 1
<1>1. config \in [frontend : BOOLEAN, redeploy : BOOLEAN, all : Nat,
                  deployed : Release \cup {None}, faults : Nat, kills : Nat]
  BY DeployAssumption DEF Types
<1>2. config.all \in Nat /\ config.frontend \in BOOLEAN
  BY <1>1
<1>3. NService <= config.all /\ (config.frontend => config.all = 1)
  BY DeployAssumption DEF Types
<1>4. NService \in Nat /\ NService # 0
  BY DeployAssumption
<1> HIDE <1>1
<1>5. /\ NAll \in Nat /\ 1 <= NService /\ NService <= NAll
      /\ Service \subseteq AllService /\ 1 \in Service /\ Frontend \in BOOLEAN
  BY <1>2, <1>3, <1>4, SMTT(60) DEF NAll, Service, AllService, Frontend
<1>6. ASSUME Frontend PROVE Service = AllService /\ \A s \in AllService : s = 1
  <2>1. NAll = 1
    BY <1>3, <1>6 DEF Frontend, NAll
  <2>2. NService = 1
    BY <1>4, <1>5, <2>1, SMTT(60)
  <2> QED BY <2>1, <2>2, SMTT(60) DEF Service, AllService
<1> QED BY <1>4, <1>5, <1>6

(* What one command of the script changes on the host, and what it leaves.  *)
LEMMA EnabledChanged ==
  ASSUME host \in HostRec, NEW x \in SUBSET AllService, NEW h, h = [host EXCEPT !.enabled = x]
  PROVE  /\ h \in HostRec /\ h.enabled = x
         /\ h.current = host.current /\ h.unit = host.unit /\ h.run = host.run
         /\ h.bin = host.bin /\ h.site = host.site /\ h.loaded = host.loaded
BY DEF HostRec

(* systemctl stop of all services, of which those of x keep running.        *)
LEMMA StoppedFacts ==
  ASSUME host \in HostRec, NEW x \in SUBSET Active, NEW h, h = StoppedBut(x)
  PROVE  /\ h \in HostRec /\ RunningOn(h) = x
         /\ \A s \in AllService : h.run[s] = IF s \in x THEN host.run[s] ELSE None
         /\ h.current = host.current /\ h.unit = host.unit /\ h.enabled = host.enabled
         /\ h.bin = host.bin /\ h.site = host.site /\ h.loaded = host.loaded
<1> DEFINE r == [s \in AllService |-> IF s \in x THEN host.run[s] ELSE None]
<1>1. r \in Unit
  BY DEF HostRec, Unit
<1>2. h = [host EXCEPT !.run = r]
  BY DEF StoppedBut
<1>3. \A s \in AllService : r[s] = IF s \in x THEN host.run[s] ELSE None
  OBVIOUS
<1> HIDE DEF r
<1>4. /\ h \in HostRec /\ h.run = r
      /\ h.current = host.current /\ h.unit = host.unit /\ h.enabled = host.enabled
      /\ h.bin = host.bin /\ h.site = host.site /\ h.loaded = host.loaded
  BY <1>1, <1>2 DEF HostRec
<1>5. RunningOn(h) = x
  <2>1. \A s \in x : s \in AllService /\ host.run[s] # None
    BY DEF Active, RunningOn
  <2> QED BY <1>3, <1>4, <2>1 DEF RunningOn
<1> QED BY <1>3, <1>4, <1>5

(* The start of one service, unless it runs already or cannot run.          *)
Starts(s) == CanRun(s) /\ (host.run[s] = None \/ (Frontend /\ pc = "start"))
LEMMA OneStarted ==
  ASSUME host \in HostRec, NEW s \in AllService, NEW h, h = Started(s)
  PROVE  /\ h \in HostRec
         /\ \A x \in AllService :
              h.run[x] = IF x = s /\ Starts(s) THEN RunsFrom(s) ELSE host.run[x]
         /\ h.current = host.current /\ h.unit = host.unit /\ h.enabled = host.enabled
         /\ h.bin = host.bin /\ h.site = host.site /\ h.loaded = host.loaded
<1>1. CASE ~Starts(s)
  <2>1. h = host
    BY <1>1 DEF Started, Starts
  <2> QED BY <1>1, <2>1
<1>2. CASE Starts(s)
  <2>1. RunsFrom(s) \in Release \cup {None}
    BY DEF HostRec, Unit, RunsFrom
  <2>2. h = [host EXCEPT !.run[s] = RunsFrom(s)]
    BY <1>2 DEF Started, Starts
  <2>3. [host.run EXCEPT ![s] = RunsFrom(s)] \in Unit /\ DOMAIN host.run = AllService
    BY <2>1 DEF HostRec, Unit
  <2>4. /\ h \in HostRec /\ h.run = [host.run EXCEPT ![s] = RunsFrom(s)]
        /\ h.current = host.current /\ h.unit = host.unit /\ h.enabled = host.enabled
        /\ h.bin = host.bin /\ h.site = host.site /\ h.loaded = host.loaded
    BY <2>2, <2>3 DEF HostRec
  <2> QED BY <1>2, <2>3, <2>4
<1> QED BY <1>1, <1>2

(* A new link current, or none.                                             *)
LEMMA CurrentChanged ==
  ASSUME host \in HostRec, NEW x \in Link, NEW h, h = [host EXCEPT !.current = x]
  PROVE  /\ h \in HostRec /\ h.current = x
         /\ h.unit = host.unit /\ h.enabled = host.enabled /\ h.run = host.run
         /\ h.bin = host.bin /\ h.site = host.site /\ h.loaded = host.loaded
BY DEF HostRec

(* The router's binary.                                                     *)
LEMMA BinChanged ==
  ASSUME host \in HostRec, NEW x \in Release \cup {None}, NEW h, h = [host EXCEPT !.bin = x]
  PROVE  /\ h \in HostRec /\ h.bin = x
         /\ h.current = host.current /\ h.unit = host.unit /\ h.enabled = host.enabled
         /\ h.run = host.run /\ h.site = host.site /\ h.loaded = host.loaded
BY DEF HostRec

(* The site file.                                                           *)
LEMMA SiteChanged ==
  ASSUME host \in HostRec, NEW x \in Release \cup {None}, NEW h, h = [host EXCEPT !.site = x]
  PROVE  /\ h \in HostRec /\ h.site = x
         /\ h.current = host.current /\ h.unit = host.unit /\ h.enabled = host.enabled
         /\ h.run = host.run /\ h.bin = host.bin /\ h.loaded = host.loaded
BY DEF HostRec

(* nginx loads the site file.                                               *)
LEMMA LoadedChanged ==
  ASSUME host \in HostRec, NEW x \in Release \cup {None}, NEW h, h = [host EXCEPT !.loaded = x]
  PROVE  /\ h \in HostRec /\ h.loaded = x
         /\ h.current = host.current /\ h.unit = host.unit /\ h.enabled = host.enabled
         /\ h.run = host.run /\ h.bin = host.bin /\ h.site = host.site
BY DEF HostRec

-----------------------------------------------------------------------------
(* A host that a command may leave, whether or not the command fails.       *)
Sound(h) ==
  /\ h \in HostRec
  /\ ~Frontend => h.bin = host.bin /\ h.site = host.site /\ h.loaded = host.loaded
  /\ h.current \in Release => h.current \in store.disk
  /\ kills = 0 /\ ~Frontend =>
       \A s \in AllService \ left.astray : h.run[s] # None => h.run[s] \in store.disk
Settled(h) ==
  kills = 0 /\ ~Frontend =>
    \A s \in AllService \ left.astray :
      h.run[s] # None => h.run[s] = h.current /\ h.unit[s] = h.current

(* What the commands between two saves have in common: the store, the       *)
(* snapshot and the operation stay, and no service leaves astray.           *)
NoneReturns ==
  /\ left' \in LeftRec /\ left.astray \subseteq left'.astray
  /\ left'.run \subseteq left'.astray
Frame == UNCHANGED <<config, store, op, snap, ops, kills, before>> /\ NoneReturns

(* The role, the services and the state that is restored stay too.          *)
LEMMA FrameSame ==
  ASSUME Frame
  PROVE  /\ (Frontend <=> Frontend') /\ NAll' = NAll /\ AllService' = AllService
         /\ Service' = Service
         /\ from' = from => State' = State
BY DEF Frame, Frontend, NAll, AllService, Service, State

(* The host is sound in every state of a run, and settled when nothing is   *)
(* being activated.                                                         *)
LEMMA SoundNow ==
  ASSUME DeployInv, pc \in Running
  PROVE  /\ Sound(host)
         /\ pc \in RestoreCommands \cup Ending => Settled(host)
<1>1. Sound(host)
  BY DEF DeployInv, Types, OnDisk, CoherentInv, Sound, Active, RunningOn
<1>2. ASSUME pc \in RestoreCommands \cup Ending PROVE Settled(host)
  <2>1. CASE pc \in Ending \cup {"r_start"}
    BY <2>1 DEF DeployInv, CoherentInv, Settled, Active, RunningOn
  <2>2. CASE pc \in RestoreCommands \ {"r_start"}
    <3>1. Active \subseteq left.astray
      BY <2>2 DEF DeployInv, RestoreInv, Restored, Types
    <3> QED BY <3>1 DEF Settled, Active, RunningOn
  <2> QED BY <1>2, <2>1, <2>2
<1> QED BY <1>1, <1>2

(* A command that leaves the site and nginx alone.                          *)
LEMMA QuietSite ==
  ASSUME SiteAt(host, pc, from), NEW h, h.site = host.site, h.loaded = host.loaded, NEW q,
         \/ pc \in Activating \ {"reload"} /\ q \in Activating \ {"reload"}
         \/ pc \in EarlyRestore /\ q \in EarlyRestore \cup {"r_start"}
  PROVE  SiteAt(h, q, from) /\ Nginx(h)
<1>1. Nginx(host) /\ q # "reload"
  <2>1. pc \in EarlyRestore => pc \in Restoring /\ pc # "r_reload"
    BY DEF EarlyRestore, Restoring, RestoreCommands
  <2>2. pc \in Activating => pc # "r_reload"
    BY DEF Activating
  <2>3. q \in EarlyRestore \cup {"r_start"} => q # "reload"
    BY DEF EarlyRestore
  <2> QED BY <2>1, <2>2, <2>3 DEF SiteAt
<1>2. Nginx(h)
  BY <1>1 DEF Nginx
<1>3. ASSUME q \in Activating \ {"reload"} \/ (q \in EarlyRestore /\ from = "saved")
      PROVE  h.site = before.site /\ h.loaded = before.loaded
  <2>1. pc \in Activating \ {"reload"} \/ (pc \in EarlyRestore /\ from = "saved")
    BY <1>3 DEF Activating, EarlyRestore
  <2> QED BY <2>1 DEF SiteAt
<1> QED BY <1>1, <1>2, <1>3 DEF SiteAt

(* The parts of the invariant that do not depend on the command: they hold  *)
(* of any sound host the script goes on with.                               *)
LEMMA FrameKeeps ==
  ASSUME DeployInv, pc \in Running, Frame, Sound(host'),
         pc' \in {"idle"} \cup Activating \cup Restoring \cup {"previous"},
         pc' = "idle" => report' \notin {"deployed", "rolledback"},
         from' \in {"snap", "saved"}
  PROVE  /\ Types' /\ Taken' /\ RouterKept' /\ OnDisk'
         /\ kills' = 0 /\ ~Frontend' /\
              (pc' \in {"idle", "previous", "r_start"} => Settled(host')) => CoherentInv'
<1> USE FrameSame
<1>1. Types'
  <2>1. /\ HostRec' = HostRec /\ StateRec' = StateRec /\ StoreRec' = StoreRec
        /\ LeftRec' = LeftRec
    BY DEF HostRec, StoreRec, StateRec, LeftRec, Unit
  <2>2. pc' \in Before \cup Running
    BY DEF Before, Running, Ending
  <2> QED BY <2>1, <2>2 DEF DeployInv, Types, Frame, NoneReturns, Sound
<1>2. Taken'
  BY DEF DeployInv, Taken, Frame, HostRec, Unit, StateFrom, RunningOn
<1>3. RouterKept'
  BY DEF DeployInv, RestoreInv, RouterKept, Frame, Sound
<1>4. OnDisk'
  <2>1. ~Done' /\ pc' \notin {"save", "drop", "keep", "prune"}
    BY DEF Done, Activating, Restoring, RestoreCommands
  <2> QED BY <2>1 DEF DeployInv, OnDisk, Frame, Sound, Running
<1>5. ASSUME kills' = 0, ~Frontend', pc' \in {"idle", "previous", "r_start"} => Settled(host')
      PROVE  CoherentInv'
  <2>1. CoherentInv /\ kills = 0 /\ ~Frontend
    BY <1>5 DEF DeployInv, Frame
  <2>2. pc' \in Before \cup Ending \cup {"r_start"} => pc' \in {"idle", "previous", "r_start"}
    BY DEF Before, Ending, Activating, Restoring, RestoreCommands
  <2>3. \A s \in Active' \ left'.astray :
          /\ host'.run[s] \in store'.disk
          /\ pc' \in Before \cup Ending \cup {"r_start"} =>
               host'.run[s] = host'.current /\ host'.unit[s] = host'.current
    BY <1>5, <2>1, <2>2 DEF Settled, Sound, Active, RunningOn, Frame, NoneReturns
  <2>4. (pc' \in Running => Coherent(snap)') /\ (store'.saved # None => Coherent(store.saved)')
    BY <2>1 DEF CoherentInv, Coherent, Frame, NoneReturns
  <2> QED BY <2>3, <2>4 DEF CoherentInv
<1> QED BY <1>1, <1>2, <1>3, <1>4, <1>5

-----------------------------------------------------------------------------
(* A command that fails makes the script restore the snapshot, or give up.  *)
LEMMA GiveUpKeeps ==
  ASSUME DeployInv, pc \in Activating \cup RestoreCommands, GiveUp, Frame, Sound(host'),
         pc \in RestoreCommands => Settled(host'),
         ~(pc \in RestoreCommands /\ from = "snap") => Nginx(host')
  PROVE  DeployInv'
<1> USE FrameSame
<1>1. /\ i' = 1
      /\ \/ pc \in RestoreCommands /\ pc' = "idle" /\ report' = "lost" /\ from' = from
         \/ pc' = "r_stop" /\ from' = "snap" /\ Nginx(host')
  BY DEF GiveUp, Exit, Restore
<1>2. pc \in Running /\ from' \in {"snap", "saved"}
  BY <1>1 DEF Running, Restoring, DeployInv, Types
<1>3. pc' \in {"idle"} \cup Activating \cup Restoring \cup {"previous"}
  BY <1>1 DEF Restoring
<1>4. /\ Types' /\ Taken' /\ RouterKept' /\ OnDisk'
      /\ kills' = 0 /\ ~Frontend' /\
              (pc' \in {"idle", "previous", "r_start"} => Settled(host')) => CoherentInv'
  BY <1>1, <1>2, <1>3, FrameKeeps
<1>5. Index'
  BY <1>1 DEF Index
<1>6. Place'
  BY <1>1, <1>2 DEF Place, DeployInv, Frame, Activating, Running, FrontendOnly, ModelOnly,
                    Restoring, Ending
<1>7. Restored'
  BY <1>1 DEF Restored, RestoreCommands
<1>8. Activated'
  BY <1>1 DEF Activated, Ending
<1>9. SiteAt(host, pc, from)'
  BY <1>1 DEF SiteAt, Nginx, Frame, Activating, Restoring, RestoreCommands, EarlyRestore
<1>10. RestoreInv'
  BY <1>1, <1>4, <1>7, <1>9 DEF RestoreInv
<1>11. pc' \in {"idle", "previous", "r_start"} => Settled(host')
  BY <1>1
<1> QED BY <1>4, <1>5, <1>6, <1>8, <1>10, <1>11 DEF DeployInv

(* A failed command has had its effect or not: either leaves a sound host.  *)
LEMMA FailsKeeps ==
  ASSUME DeployInv, NEW p, NEW h, Fails(p, h), pc \in Activating \cup RestoreCommands,
         Sound(h), pc \in RestoreCommands => Settled(h),
         ~(pc \in RestoreCommands /\ from = "snap") => Nginx(h)
  PROVE  DeployInv'
<1>1. GiveUp /\ Frame /\ host' \in {host, h}
  BY DEF Fails, Frame, NoneReturns, DeployInv, Types
<1>2. Sound(host) /\ (pc \in RestoreCommands => Settled(host))
  BY SoundNow DEF Running, Restoring
<1>3. ~(pc \in RestoreCommands /\ from = "snap") => Nginx(host)
  <2>1. SiteAt(host, pc, from) /\ pc \in Activating \cup Restoring
    BY DEF DeployInv, RestoreInv, Restoring
  <2>2. pc = "r_reload" => pc \in RestoreCommands
    BY DEF RestoreCommands
  <2> QED BY <2>1, <2>2 DEF SiteAt
<1>4. /\ Sound(host') /\ (pc \in RestoreCommands => Settled(host'))
      /\ ~(pc \in RestoreCommands /\ from = "snap") => Nginx(host')
  BY <1>1, <1>2, <1>3
<1> QED BY <1>1, <1>4, GiveUpKeeps

(* A command that succeeds leaves nothing undone.                           *)
LEMMA OkGoes ==
  ASSUME DeployInv, NEW p, NEW h, NEW q, NEW j, Ok(p, h, q, j)
  PROVE  Goes(h, q, j) /\ NoneReturns /\ left' = left
BY DEF Ok, NoneReturns, DeployInv, Types

(* A command of the activation goes on to the next one.                     *)
LEMMA ActivateOk ==
  ASSUME DeployInv, NEW h, NEW q, NEW j, Goes(h, q, j), NoneReturns, pc \in Activating,
         q \in Activating \cup {"previous"}, Sound(h), q = "previous" => Settled(h),
         q \in FrontendOnly => Frontend, q \in ModelOnly => ~Frontend,
         q \in {"units", "start"} => j \in Service, q \notin {"units", "start"} => j = 1,
         SiteAt(h, q, from), Activated'
  PROVE  DeployInv'
<1> USE FrameSame
<1>1. Frame /\ host' = h /\ pc' = q /\ i' = j /\ from' = from /\ report' = report
  BY DEF Goes, Frame
<1>2. pc \in Running /\ from' \in {"snap", "saved"} /\ Sound(host')
  BY <1>1 DEF Running, DeployInv, Types
<1>3. /\ q \in {"idle"} \cup Activating \cup Restoring \cup {"previous"}
      /\ q # "idle" /\ q \notin RestoreCommands /\ q \notin Restoring
      /\ q \notin {"r_unit", "r_start", "snapshot"}
  BY DEF Restoring, RestoreCommands, Activating
<1>4. /\ Types' /\ Taken' /\ RouterKept' /\ OnDisk'
      /\ kills' = 0 /\ ~Frontend' /\
              (pc' \in {"idle", "previous", "r_start"} => Settled(host')) => CoherentInv'
  BY <1>1, <1>2, <1>3, FrameKeeps
<1>5. Index'
  BY <1>1, <1>3 DEF Index
<1>6. Place'
  BY <1>1, <1>2, <1>3 DEF Place, DeployInv, Frame, Running
<1>7. Restored'
  <2>1. pc' \notin RestoreCommands
    BY <1>1, <1>3
  <2> QED BY <2>1 DEF Restored, RestoreCommands
<1>8. SiteAt(host, pc, from)'
  BY <1>1 DEF SiteAt, Nginx, Frame
<1>9. RestoreInv'
  BY <1>1, <1>3, <1>4, <1>7, <1>8 DEF RestoreInv
<1>10. pc' \in {"idle", "previous", "r_start"} => Settled(host')
  BY <1>1, <1>3
<1> QED BY <1>4, <1>5, <1>6, <1>9, <1>10 DEF DeployInv

(* A command of the restoration goes on to the next one.                    *)
LEMMA RestoreOk ==
  ASSUME DeployInv, NEW h, NEW q, NEW j, Goes(h, q, j), NoneReturns, pc \in Restoring,
         q \in RestoreCommands, Sound(h), q = "r_start" => Settled(h),
         q \in FrontendOnly => Frontend, q \in ModelOnly => ~Frontend,
         q = "r_unit" => j \in AllService, q = "r_start" => j \in 1 .. NAll + 1,
         q \notin {"r_unit", "r_start"} => j = 1,
         SiteAt(h, q, from), Restored'
  PROVE  DeployInv'
<1> USE FrameSame
<1>1. Frame /\ host' = h /\ pc' = q /\ i' = j /\ from' = from /\ report' = report
  BY DEF Goes, Frame
<1>2. pc \in Running /\ from' \in {"snap", "saved"} /\ Sound(host')
  BY <1>1 DEF Running, DeployInv, Types
<1>3. /\ q \in {"idle"} \cup Activating \cup Restoring \cup {"previous"} /\ q \in Restoring
      /\ q \notin {"idle", "previous", "units", "start", "stop", "stage", "snapshot"}
      /\ q \notin Activating /\ q \notin Ending
  BY DEF Restoring, RestoreCommands, Activating, Ending
<1>4. /\ Types' /\ Taken' /\ RouterKept' /\ OnDisk'
      /\ kills' = 0 /\ ~Frontend' /\
              (pc' \in {"idle", "previous", "r_start"} => Settled(host')) => CoherentInv'
  BY <1>1, <1>2, <1>3, FrameKeeps
<1>5. Index'
  BY <1>1, <1>3 DEF Index
<1>6. Place'
  BY <1>1, <1>2, <1>3 DEF Place, DeployInv, Frame, Running
<1>7. Activated'
  BY <1>1, <1>3 DEF Activated, Activating
<1>8. SiteAt(host, pc, from)'
  BY <1>1 DEF SiteAt, Nginx, Frame
<1>9. RestoreInv'
  BY <1>1, <1>3, <1>4, <1>8 DEF RestoreInv
<1>10. pc' \in {"idle", "previous", "r_start"} => Settled(host')
  BY <1>1, <1>3
<1> QED BY <1>4, <1>5, <1>6, <1>7, <1>9, <1>10 DEF DeployInv

-----------------------------------------------------------------------------
(* What the next command finds as it was.                                   *)
LEMMA GoesSame ==
  ASSUME NEW h, NEW q, NEW j, Goes(h, q, j)
  PROVE  /\ host' = h /\ pc' = q /\ i' = j /\ op' = op /\ before' = before
         /\ State' = State /\ (Frontend' <=> Frontend)
         /\ NAll' = NAll /\ AllService' = AllService /\ Service' = Service
         /\ h.run = host.run => Active' = Active
BY DEF Goes, State, Frontend, AllService, Service, NAll, Active, RunningOn

(* activate_release.                                                        *)
LEMMA ActivateFacts ==
  ASSUME DeployInv, pc \in Activating
  PROVE  /\ op \in DeployOp /\ op.target \in Release /\ op.target \in store.disk
         /\ host \in HostRec /\ Sound(host) /\ left \in LeftRec /\ left.run \subseteq left.astray
         /\ SiteAt(host, pc, from)
         /\ NAll \in Nat /\ NService \in Nat /\ 1 <= NService /\ NService <= NAll
         /\ Service \subseteq AllService /\ 1 \in Service /\ Frontend \in BOOLEAN
         /\ Frontend => Service = AllService /\ \A s \in AllService : s = 1
<1>1. pc \in Running
  BY DEF Running
<1>2. /\ op \in DeployOp /\ host \in HostRec /\ left \in LeftRec /\ left.run \subseteq left.astray
      /\ SiteAt(host, pc, from)
  BY DEF DeployInv, Place, Types, RestoreInv
<1>3. op.target \in Release /\ op.target \in store.disk
  BY <1>1, <1>2 DEF DeployInv, OnDisk, DeployOp
<1>4. Types
  BY DEF DeployInv
<1> QED BY <1>1, <1>2, <1>3, <1>4, SoundNow, ConfigFacts

(* install_units, one unit.                                                 *)
LEMMA InstallUnitKeeps ==
  ASSUME DeployInv, InstallUnit
  PROVE  DeployInv'
<1> DEFINE h == [host EXCEPT !.unit[i] = op.target]
           q == IF i < NService THEN "units" ELSE IF Frontend THEN "enable" ELSE "disable"
           j == IF i < NService THEN i + 1 ELSE 1
<1>1. pc = "units" /\ Cmd("units", h, q, j)
  BY DEF InstallUnit, Cmd, Ok, Fails
<1>2. pc \in Activating /\ pc \in Activating \ {"reload"} /\ pc \notin RestoreCommands
  BY <1>1 DEF Activating, RestoreCommands
<1>3. i \in Service
  BY <1>1 DEF DeployInv, Index
<1>4. /\ op.target \in Release /\ host \in HostRec /\ Sound(host) /\ SiteAt(host, pc, from)
      /\ NService \in Nat /\ 1 <= NService /\ Service \subseteq AllService /\ 1 \in Service
  BY <1>2, ActivateFacts
<1>5. /\ h \in HostRec /\ h.unit = [host.unit EXCEPT ![i] = op.target]
      /\ h.current = host.current /\ h.enabled = host.enabled /\ h.run = host.run
      /\ h.bin = host.bin /\ h.site = host.site /\ h.loaded = host.loaded
  <2>1. i \in AllService /\ op.target \in Release \cup {None}
    BY <1>3, <1>4
  <2>2. h = [host EXCEPT !.unit[i] = op.target]
    OBVIOUS
  <2> HIDE DEF h
  <2>3. [host.unit EXCEPT ![i] = op.target] \in Unit
    BY <1>4, <2>1 DEF HostRec, Unit
  <2> QED BY <1>4, <2>2, <2>3 DEF HostRec
<1>6. /\ q = "units" => j \in Service
      /\ j # 1 => q = "units"
      /\ q = "units" => \A s \in Service : s < j => s < i \/ s = i
      /\ q # "units" => \A s \in Service : s < i \/ s = i
      /\ q \in {"units", "enable", "disable"}
  BY <1>3, <1>4, SMTT(60) DEF Service
<1>7. (q = "enable" => Frontend) /\ (q = "disable" => ~Frontend)
  OBVIOUS
<1>8. Sound(h)
  BY <1>4, <1>5 DEF Sound
<1> HIDE DEF h, q, j
<1>9. q \in Activating \ {"reload"} /\ q \notin FrontendOnly /\ (q \in ModelOnly => ~Frontend)
  BY <1>6, <1>7 DEF Activating, FrontendOnly, ModelOnly
<1>10. SiteAt(h, q, from) /\ Nginx(h)
  BY <1>2, <1>4, <1>5, <1>9, QuietSite
<1>11. ASSUME Fails("units", h) PROVE DeployInv'
  BY <1>2, <1>8, <1>10, <1>11, FailsKeeps
<1>12. ASSUME Ok("units", h, q, j) PROVE DeployInv'
  <2>1. Goes(h, q, j) /\ NoneReturns
    BY <1>12, OkGoes
  <2>2. /\ host' = h /\ pc' = q /\ i' = j /\ op' = op /\ Service' = Service
        /\ (Frontend' <=> Frontend)
    BY <2>1, GoesSame
  <2>3. Activated'
    <3>1. /\ \A s \in Service : s < i => host.unit[s] = op.target
          /\ Frontend => host.current = op.target /\ host.bin = op.target
      BY <1>1 DEF DeployInv, Activated
    <3>2. \A s \in Service : s < i \/ s = i => h.unit[s] = op.target
      <4>1. DOMAIN host.unit = AllService
        BY <1>4 DEF HostRec, Unit
      <4> QED BY <1>4, <1>5, <3>1, <4>1
    <3>3. \A s \in Service : (q = "units" /\ s < j) \/ q # "units" => h.unit[s] = op.target
      BY <1>6, <3>2
    <3> QED BY <1>5, <1>6, <1>7, <2>2, <3>1, <3>3 DEF Activated, Ending
  <2>4. q # "previous" /\ q # "start"
    BY <1>6
  <2> QED BY <1>2, <1>6, <1>8, <1>9, <1>10, <2>1, <2>3, <2>4, ActivateOk
<1> QED BY <1>1, <1>11, <1>12 DEF Cmd

(* systemctl disable, whose failure leaves some services enabled.           *)
Disabled(p, q, x, h, l) ==
  /\ Goes(h, q, 1) /\ NoneReturns /\ pc = p /\ x \in SUBSET AllService
  /\ h \in HostRec /\ h.enabled = x /\ h.run = host.run
  /\ h.current = host.current /\ h.unit = host.unit
  /\ h.bin = host.bin /\ h.site = host.site /\ h.loaded = host.loaded
  /\ left' = l /\ l \in LeftRec /\ l.enabled = x /\ l.run = left.run
  /\ l.astray = left.astray /\ l.unit = left.unit /\ l.files = left.files
LEMMA DisableFacts ==
  ASSUME NEW p, NEW q, Disable(p, q), host \in HostRec, left \in LeftRec,
         left.run \subseteq left.astray
  PROVE  \E x, h, l : Disabled(p, q, x, h, l)
<1>1. PICK x \in SUBSET host.enabled :
        Unchecked(p, x, [host EXCEPT !.enabled = x], [left EXCEPT !.enabled = x], q, 1)
  BY DEF Disable
<1> DEFINE h == [host EXCEPT !.enabled = x]
           l == [left EXCEPT !.enabled = x]
<1>2. Goes(h, q, 1) /\ left' = l /\ pc = p
  BY <1>1 DEF Unchecked
<1>3. x \in SUBSET AllService
  BY DEF HostRec
<1>4. /\ h \in HostRec /\ h.enabled = x
      /\ h.current = host.current /\ h.unit = host.unit /\ h.run = host.run
      /\ h.bin = host.bin /\ h.site = host.site /\ h.loaded = host.loaded
  BY <1>3, EnabledChanged
<1>5. /\ l \in LeftRec /\ l.enabled = x /\ l.run = left.run
      /\ l.astray = left.astray /\ l.unit = left.unit /\ l.files = left.files
  BY <1>3 DEF LeftRec
<1> HIDE DEF h, l
<1>6. NoneReturns
  BY <1>2, <1>5 DEF NoneReturns
<1>7. Disabled(p, q, x, h, l)
  BY <1>2, <1>3, <1>4, <1>5, <1>6 DEF Disabled
<1> QED BY <1>7

(* The services are disabled before those of the role are enabled.          *)
LEMMA DisableServicesKeeps ==
  ASSUME DeployInv, DisableServices
  PROVE  DeployInv'
<1> DEFINE q == "enable"
<1>1. pc = "disable" /\ Disable("disable", q)
  BY DEF DisableServices, Disable, Unchecked
<1>2. /\ pc \in Activating \ {"reload"} /\ pc \in Activating /\ q \in Activating \ {"reload"}
      /\ pc \in ModelOnly /\ q \notin ModelOnly /\ q \notin FrontendOnly
      /\ q = "enable" /\ q # "previous"
  BY <1>1 DEF Activating, ModelOnly, FrontendOnly
<1>3. /\ host \in HostRec /\ Sound(host) /\ SiteAt(host, pc, from)
      /\ left \in LeftRec /\ left.run \subseteq left.astray
  BY <1>2, ActivateFacts
<1>4. ~Frontend
  BY <1>2 DEF DeployInv, Place
<1> HIDE DEF q
<1>5. PICK x, h, l : Disabled("disable", q, x, h, l)
  BY <1>1, <1>3, DisableFacts
<1>6. /\ Goes(h, q, 1) /\ NoneReturns
      /\ h \in HostRec /\ h.enabled = x /\ h.run = host.run
      /\ h.current = host.current /\ h.unit = host.unit
      /\ h.bin = host.bin /\ h.site = host.site /\ h.loaded = host.loaded
      /\ left' = l /\ l.enabled = x
  BY <1>5 DEF Disabled
<1>7. Sound(h)
  BY <1>3, <1>6 DEF Sound
<1>8. SiteAt(h, q, from)
  BY <1>2, <1>3, <1>6, QuietSite
<1>9. Activated'
  <2>1. /\ host' = h /\ pc' = q /\ op' = op /\ Service' = Service /\ (Frontend' <=> Frontend)
    BY <1>6, GoesSame
  <2>2. \A s \in Service : host.unit[s] = op.target
    BY <1>1 DEF DeployInv, Activated
  <2> QED BY <1>2, <1>4, <1>6, <2>1, <2>2 DEF Activated, Ending
<1> QED BY <1>2, <1>6, <1>7, <1>8, <1>9, ActivateOk

(* systemctl enable of the services of the role.                            *)
LEMMA EnableServicesKeeps ==
  ASSUME DeployInv, EnableServices
  PROVE  DeployInv'
<1> DEFINE h == [host EXCEPT !.enabled = host.enabled \cup Service]
           q == IF Frontend THEN "start" ELSE "stop"
<1>1. pc = "enable" /\ Cmd("enable", h, q, 1)
  BY DEF EnableServices, Cmd, Ok, Fails
<1>2. pc \in Activating /\ pc \in Activating \ {"reload"} /\ pc \notin RestoreCommands
  BY <1>1 DEF Activating, RestoreCommands
<1>3. /\ host \in HostRec /\ Sound(host) /\ Service \subseteq AllService /\ 1 \in Service
      /\ SiteAt(host, pc, from) /\ left \in LeftRec
      /\ Frontend => Service = AllService
  BY <1>2, ActivateFacts
<1>4. /\ h \in HostRec /\ h.enabled = host.enabled \cup Service
      /\ h.current = host.current /\ h.unit = host.unit /\ h.run = host.run
      /\ h.bin = host.bin /\ h.site = host.site /\ h.loaded = host.loaded
  <2>1. host.enabled \cup Service \in SUBSET AllService
    BY <1>3 DEF HostRec
  <2> QED BY <1>3, <2>1, EnabledChanged
<1>5. Sound(h)
  BY <1>3, <1>4 DEF Sound
<1>6. /\ q \in Activating \ {"reload"} /\ q \notin FrontendOnly
      /\ q \in ModelOnly => ~Frontend
  BY DEF Activating, FrontendOnly, ModelOnly
<1>7. (Frontend => q = "start") /\ (~Frontend => q = "stop")
  OBVIOUS
<1> HIDE DEF h, q
<1>8. SiteAt(h, q, from) /\ Nginx(h)
  BY <1>2, <1>3, <1>4, <1>6, QuietSite
<1>9. ASSUME Fails("enable", h) PROVE DeployInv'
  BY <1>2, <1>5, <1>8, <1>9, FailsKeeps
<1>10. ASSUME Ok("enable", h, q, 1) PROVE DeployInv'
  <2>1. Goes(h, q, 1) /\ NoneReturns /\ left' = left
    BY <1>10, OkGoes
  <2>2. /\ host' = h /\ pc' = q /\ op' = op /\ Service' = Service /\ (Frontend' <=> Frontend)
    BY <2>1, GoesSame
  <2>3. Activated'
    <3>1. \A s \in Service : host.unit[s] = op.target
      BY <1>1 DEF DeployInv, Activated
    <3>2. h.enabled = Service \cup left.enabled
      <4>1. CASE Frontend
        <5>1. left.enabled \subseteq Service /\ host.enabled \subseteq Service
          BY <1>3, <4>1 DEF LeftRec, HostRec
        <5> QED BY <1>4, <5>1
      <4>2. CASE ~Frontend
        <5>1. host.enabled = left.enabled
          BY <1>1, <4>2 DEF DeployInv, Activated
        <5> QED BY <1>4, <5>1
      <4> QED BY <4>1, <4>2
    <3>3. Frontend => host.current = op.target /\ host.bin = op.target
      BY <1>1 DEF DeployInv, Activated
    <3> QED BY <1>4, <1>7, <2>1, <2>2, <3>1, <3>2, <3>3 DEF Activated, Ending
  <2>4. q # "previous" /\ q # "units"
    BY <1>7
  <2> QED BY <1>2, <1>3, <1>5, <1>6, <1>8, <2>1, <2>3, <2>4, ActivateOk
<1> QED BY <1>1, <1>9, <1>10 DEF Cmd

(* stop_services, whose failure leaves some services running.               *)
LEMMA StopServicesKeeps ==
  ASSUME DeployInv, StopServices
  PROVE  DeployInv'
<1> DEFINE q == "link"
<1>1. PICK x \in SUBSET Active :
        Unchecked("stop", x, StoppedBut(x), [left EXCEPT !.run = x, !.astray = left.astray \cup x], q, 1)
  BY DEF StopServices
<1> DEFINE h == StoppedBut(x)
           l == [left EXCEPT !.run = x, !.astray = left.astray \cup x]
<1>2. pc = "stop" /\ Goes(h, q, 1) /\ left' = l
  BY <1>1 DEF Unchecked
<1>3. /\ pc \in Activating \ {"reload"} /\ pc \in Activating /\ pc \in ModelOnly
      /\ q \in Activating \ {"reload"} /\ q \notin FrontendOnly /\ q \notin ModelOnly
      /\ q = "link" /\ q # "previous"
  BY <1>2 DEF Activating, FrontendOnly, ModelOnly
<1>4. /\ host \in HostRec /\ Sound(host) /\ SiteAt(host, pc, from)
      /\ left \in LeftRec /\ left.run \subseteq left.astray
  BY <1>3, ActivateFacts
<1>5. /\ h \in HostRec /\ RunningOn(h) = x
      /\ \A s \in AllService : h.run[s] = IF s \in x THEN host.run[s] ELSE None
      /\ h.current = host.current /\ h.unit = host.unit /\ h.enabled = host.enabled
      /\ h.bin = host.bin /\ h.site = host.site /\ h.loaded = host.loaded
  BY <1>4, StoppedFacts
<1>6. /\ l \in LeftRec /\ l.run = x /\ l.astray = left.astray \cup x /\ l.enabled = left.enabled
  <2>1. x \in SUBSET AllService
    BY DEF Active, RunningOn
  <2>2. left.astray \cup x \in SUBSET AllService
    BY <1>4, <2>1 DEF LeftRec
  <2> QED BY <1>4, <2>1, <2>2 DEF LeftRec
<1> HIDE DEF h, l, q
<1>7. NoneReturns
  BY <1>2, <1>6 DEF NoneReturns
<1>8. Sound(h)
  <2>1. \A s \in AllService : h.run[s] # None => h.run[s] = host.run[s]
    BY <1>5
  <2> QED BY <1>4, <1>5, <2>1 DEF Sound
<1>9. SiteAt(h, q, from)
  BY <1>3, <1>4, <1>5, QuietSite
<1>10. ~Frontend
  BY <1>3 DEF DeployInv, Place
<1>11. Activated'
  <2>1. /\ host' = h /\ pc' = q /\ op' = op /\ Service' = Service /\ AllService' = AllService
        /\ (Frontend' <=> Frontend)
    BY <1>2, GoesSame
  <2>2. /\ host.enabled = Service \cup left.enabled
        /\ \A s \in Service : host.unit[s] = op.target
    BY <1>2 DEF DeployInv, Activated
  <2>3. Active' = left'.run
    BY <1>2, <1>5, <1>6, <2>1 DEF Active, RunningOn
  <2> QED BY <1>2, <1>3, <1>5, <1>6, <1>10, <2>1, <2>2, <2>3 DEF Activated, Ending
<1> QED BY <1>2, <1>3, <1>7, <1>8, <1>9, <1>11, ActivateOk

(* The link current to the release.                                         *)
LEMMA LinkCurrentKeeps ==
  ASSUME DeployInv, LinkCurrent
  PROVE  DeployInv'
<1> DEFINE h == [host EXCEPT !.current = op.target]
           q == IF Frontend THEN "bin" ELSE "start"
<1>1. pc = "link" /\ Cmd("link", h, q, 1)
  BY DEF LinkCurrent, Cmd, Ok, Fails
<1>2. pc \in Activating /\ pc \in Activating \ {"reload"} /\ pc \notin RestoreCommands
  BY <1>1 DEF Activating, RestoreCommands
<1>3. /\ op.target \in Release /\ op.target \in store.disk /\ SiteAt(host, pc, from)
      /\ host \in HostRec /\ Sound(host) /\ Service \subseteq AllService /\ 1 \in Service
  BY <1>2, ActivateFacts
<1>4. /\ h \in HostRec /\ h.current = op.target
      /\ h.unit = host.unit /\ h.enabled = host.enabled /\ h.run = host.run
      /\ h.bin = host.bin /\ h.site = host.site /\ h.loaded = host.loaded
  <2>1. op.target \in Link
    BY <1>3 DEF Link
  <2> QED BY <1>3, <2>1, CurrentChanged
<1>5. Sound(h)
  BY <1>3, <1>4 DEF Sound
<1>6. /\ q \in Activating \ {"reload"} /\ (q \in FrontendOnly => Frontend)
      /\ q \notin ModelOnly
  BY DEF Activating, FrontendOnly, ModelOnly
<1>7. (Frontend => q = "bin") /\ (~Frontend => q = "start")
  OBVIOUS
<1> HIDE DEF h, q
<1>8. SiteAt(h, q, from) /\ Nginx(h)
  BY <1>2, <1>3, <1>4, <1>6, QuietSite
<1>9. ASSUME Fails("link", h) PROVE DeployInv'
  BY <1>2, <1>5, <1>8, <1>9, FailsKeeps
<1>10. ASSUME Ok("link", h, q, 1) PROVE DeployInv'
  <2>1. Goes(h, q, 1) /\ NoneReturns /\ left' = left
    BY <1>10, OkGoes
  <2>2. /\ host' = h /\ pc' = q /\ op' = op /\ i' = 1 /\ AllService' = AllService
        /\ Service' = Service /\ (Frontend' <=> Frontend)
    BY <2>1, GoesSame
  <2>3. Activated'
    <3>1. CASE Frontend
      BY <1>4, <1>7, <2>2, <3>1 DEF Activated, Ending
    <3>2. CASE ~Frontend
      <4>1. /\ host.enabled = Service \cup left.enabled /\ Active = left.run
            /\ \A s \in Service : host.unit[s] = op.target
        BY <1>1, <3>2 DEF DeployInv, Activated
      <4>2. \A s \in AllService : ~(s < 1)
        BY SMTT(60) DEF AllService
      <4>3. \A s \in AllService :
              IF s \in left.run THEN h.run[s] # None
              ELSE h.run[s] = IF s < 1 THEN op.target ELSE None
        BY <1>4, <4>1, <4>2 DEF Active, RunningOn
      <4> QED BY <1>4, <1>7, <2>1, <2>2, <3>2, <4>1, <4>3 DEF Activated, Ending
    <3> QED BY <3>1, <3>2
  <2>4. q # "previous" /\ q # "units"
    BY <1>7
  <2> QED BY <1>2, <1>3, <1>5, <1>6, <1>8, <2>1, <2>3, <2>4, ActivateOk
<1> QED BY <1>1, <1>9, <1>10 DEF Cmd

(* install_release_router: the binary.                                      *)
LEMMA InstallRouterKeeps ==
  ASSUME DeployInv, InstallRouter
  PROVE  DeployInv'
<1> DEFINE h == [host EXCEPT !.bin = op.target]
           q == "units"
<1>1. pc = "bin" /\ Cmd("bin", h, q, 1)
  BY DEF InstallRouter, Cmd, Ok, Fails
<1>2. /\ pc \in Activating /\ pc \in Activating \ {"reload"} /\ pc \notin RestoreCommands
      /\ pc \in FrontendOnly
      /\ q \in Activating \ {"reload"} /\ q \notin FrontendOnly /\ q \notin ModelOnly
      /\ q = "units" /\ q # "previous"
  BY <1>1 DEF Activating, RestoreCommands, FrontendOnly, ModelOnly
<1>3. /\ op.target \in Release /\ host \in HostRec /\ Sound(host) /\ 1 \in Service
      /\ SiteAt(host, pc, from)
  BY <1>2, ActivateFacts
<1>4. Frontend
  BY <1>2 DEF DeployInv, Place
<1>5. /\ h \in HostRec /\ h.bin = op.target /\ h.current = host.current
      /\ h.site = host.site /\ h.loaded = host.loaded
  <2>1. op.target \in Release \cup {None}
    BY <1>3
  <2> QED BY <1>3, <2>1, BinChanged
<1>6. Sound(h)
  BY <1>3, <1>4, <1>5 DEF Sound
<1> HIDE DEF h, q
<1>7. SiteAt(h, q, from) /\ Nginx(h)
  BY <1>2, <1>3, <1>5, QuietSite
<1>8. ASSUME Fails("bin", h) PROVE DeployInv'
  BY <1>2, <1>6, <1>7, <1>8, FailsKeeps
<1>9. ASSUME Ok("bin", h, q, 1) PROVE DeployInv'
  <2>1. Goes(h, q, 1) /\ NoneReturns /\ left' = left
    BY <1>9, OkGoes
  <2>2. /\ host' = h /\ pc' = q /\ op' = op /\ i' = 1 /\ Service' = Service
        /\ (Frontend' <=> Frontend)
    BY <2>1, GoesSame
  <2>3. Activated'
    <3>1. host.current = op.target
      BY <1>1 DEF DeployInv, Activated
    <3>2. \A s \in Service : ~(s < 1)
      BY SMTT(60) DEF Service
    <3> QED BY <1>2, <1>5, <2>2, <3>1, <3>2 DEF Activated, Ending
  <2> QED BY <1>2, <1>3, <1>6, <1>7, <2>1, <2>3, ActivateOk
<1> QED BY <1>1, <1>8, <1>9 DEF Cmd

(* start_services, one service and its probe.                               *)
LEMMA StartServiceKeeps ==
  ASSUME DeployInv, StartService
  PROVE  DeployInv'
<1> DEFINE h == Started(i)
           q == IF i < NService THEN "start" ELSE IF Frontend THEN "site" ELSE "previous"
           j == IF i < NService THEN i + 1 ELSE 1
<1>1. pc = "start" /\ (Ok("start", h, q, j) \/ Fails("start", h))
  BY DEF StartService, Fails
<1>2. pc \in Activating /\ pc \in Activating \ {"reload"} /\ pc \notin RestoreCommands
  BY <1>1 DEF Activating, RestoreCommands
<1>3. i \in Service
  BY <1>1 DEF DeployInv, Index
<1>4. /\ op.target \in Release /\ op.target \in store.disk /\ host \in HostRec /\ Sound(host)
      /\ NService \in Nat /\ 1 <= NService /\ Service \subseteq AllService /\ 1 \in Service
      /\ NAll \in Nat /\ SiteAt(host, pc, from) /\ left.run \subseteq left.astray
      /\ Frontend => Service = AllService /\ \A s \in AllService : s = 1
  BY <1>2, ActivateFacts
<1>5. /\ h \in HostRec
      /\ \A x \in AllService :
           h.run[x] = IF x = i /\ Starts(i) THEN RunsFrom(i) ELSE host.run[x]
      /\ h.current = host.current /\ h.unit = host.unit /\ h.enabled = host.enabled
      /\ h.bin = host.bin /\ h.site = host.site /\ h.loaded = host.loaded
  <2>1. i \in AllService
    BY <1>3, <1>4
  <2> QED BY <1>4, <2>1, OneStarted
<1>6. /\ q = "start" => j \in Service
      /\ q # "start" => j = 1
      /\ q = "start" => \A s \in AllService : s < j <=> (s < i \/ s = i)
      /\ q = "previous" => \A s \in AllService : s \in Service <=> (s < i \/ s = i)
      /\ q \in {"start", "site", "previous"} /\ (q = "site" => Frontend)
      /\ q = "previous" => ~Frontend
      /\ ~(i < i)
  BY <1>3, <1>4, SMTT(60) DEF Service, AllService
<1>7. Frontend => q = "site"
  <2>1. Frontend => i = 1 /\ NService = 1
    <3>1. NService \in Service
      BY <1>4, SMTT(60) DEF Service
    <3> QED BY <1>3, <1>4, <3>1
  <2> QED BY <1>4, <2>1, SMTT(60)
<1> HIDE DEF h, q, j
<1>8. /\ \A s \in Service : host.unit[s] = op.target
      /\ host.enabled = Service \cup left.enabled /\ host.current = op.target
      /\ Frontend => host.bin = op.target
      /\ ~Frontend =>
           \A s \in AllService :
             IF s \in left.run THEN host.run[s] # None
             ELSE host.run[s] = IF s < i THEN op.target ELSE None
  BY <1>1 DEF DeployInv, Activated
<1>9. CanRun(i) /\ RunsFrom(i) = op.target /\ op.target # None
  <2>1. op.target # None
    BY <1>4, DeployAssumption
  <2> QED BY <1>3, <1>4, <1>8, <2>1 DEF CanRun, RunsFrom
<1>10. ASSUME Frontend PROVE \A s \in AllService : h.run[s] = op.target
  <2>1. Starts(i) /\ \A s \in AllService : s = i
    BY <1>1, <1>3, <1>4, <1>9, <1>10 DEF Starts
  <2> QED BY <1>5, <1>9, <2>1
<1>11. ASSUME ~Frontend
       PROVE  \A s \in AllService :
                IF s \in left.run THEN h.run[s] # None
                ELSE h.run[s] = IF s < i \/ s = i THEN op.target ELSE None
  <2>1. TAKE s \in AllService
  <2>2. CASE s \in left.run
    BY <1>5, <1>8, <1>9, <1>11, <2>2
  <2>3. CASE s \notin left.run /\ s = i
    <3>1. Starts(i)
      BY <1>6, <1>8, <1>9, <1>11, <2>3 DEF Starts
    <3> QED BY <1>5, <1>9, <2>3, <3>1
  <2>4. CASE s \notin left.run /\ s # i
    BY <1>5, <1>8, <1>11, <2>4
  <2> QED BY <2>2, <2>3, <2>4
<1>12. Sound(h)
  <2>1. ~Frontend =>
          \A s \in AllService \ left.astray : h.run[s] # None => h.run[s] \in store.disk
    BY <1>4, <1>11
  <2> QED BY <1>4, <1>5, <2>1 DEF Sound
<1>13. SiteAt(h, q, from) /\ Nginx(h)
  <2> DEFINE z == "start"
  <2>1. z \in Activating \ {"reload"} /\ (q \in {"start", "site"} => q \in Activating \ {"reload"})
    BY DEF Activating
  <2> HIDE DEF z
  <2>2. Nginx(h)
    BY <1>2, <1>4, <1>5, <2>1, QuietSite
  <2>3. CASE q \in {"start", "site"}
    BY <1>2, <1>4, <1>5, <2>1, <2>3, QuietSite
  <2>4. CASE q = "previous"
    BY <2>2, <2>4 DEF SiteAt, Activating, EarlyRestore, Restoring, RestoreCommands
  <2> QED BY <1>6, <2>2, <2>3, <2>4
<1>14. ASSUME Fails("start", h) PROVE DeployInv'
  BY <1>2, <1>12, <1>13, <1>14, FailsKeeps
<1>15. ASSUME Ok("start", h, q, j) PROVE DeployInv'
  <2>1. Goes(h, q, j) /\ NoneReturns /\ left' = left
    BY <1>15, OkGoes
  <2>2. /\ host' = h /\ pc' = q /\ i' = j /\ op' = op /\ AllService' = AllService
        /\ Service' = Service /\ (Frontend' <=> Frontend)
    BY <2>1, GoesSame
  <2>3. /\ h.current = op.target /\ h.enabled = Service \cup left.enabled
        /\ \A s \in Service : h.unit[s] = op.target
        /\ Frontend => h.bin = op.target
    BY <1>5, <1>8
  <2>4. Activated'
    <3>1. CASE q = "start"
      <4>1. ~Frontend
        BY <1>7, <3>1
      <4>2. \A s \in AllService :
              IF s \in left.run THEN h.run[s] # None
              ELSE h.run[s] = IF s < j THEN op.target ELSE None
        BY <1>6, <1>11, <3>1, <4>1
      <4> QED BY <2>1, <2>2, <2>3, <3>1, <4>1, <4>2 DEF Activated, Ending
    <3>2. CASE q = "site"
      <4>1. Frontend
        BY <1>6, <3>2
      <4>2. \A s \in AllService : h.run[s] = op.target
        BY <1>10, <4>1
      <4> QED BY <2>1, <2>2, <2>3, <3>2, <4>1, <4>2 DEF Activated, Ending
    <3>3. CASE q = "previous"
      <4>1. ~Frontend
        BY <1>6, <3>3
      <4>2. \A s \in AllService : s \notin left.run =>
              h.run[s] = IF s \in Service THEN op.target ELSE None
        BY <1>6, <1>11, <3>3, <4>1
      <4>3. \A s \in Service : h.run[s] # None
        BY <1>4, <1>9, <1>11, <4>1, <4>2
      <4>4. Serves'
        BY <2>1, <2>2, <2>3, <4>1, <4>2, <4>3 DEF Serves
      <4> QED BY <2>2, <3>3, <4>4 DEF Activated, Ending
    <3> QED BY <1>6, <3>1, <3>2, <3>3
  <2>5. ASSUME q = "previous" PROVE Settled(h)
    <3>1. \A s \in AllService \ left.astray :
            h.run[s] # None => s \in Service /\ h.run[s] = op.target
      BY <1>4, <1>6, <1>11, <2>5
    <3> QED BY <2>3, <3>1 DEF Settled
  <2>6. /\ q \in Activating \cup {"previous"} /\ (q \in FrontendOnly => Frontend)
        /\ q \notin ModelOnly /\ q # "units"
    BY <1>6 DEF Activating, FrontendOnly, ModelOnly
  <2> QED BY <1>2, <1>6, <1>12, <1>13, <2>1, <2>4, <2>5, <2>6, ActivateOk
<1> QED BY <1>1, <1>14, <1>15

(* What the activation of the router has done before the site.              *)
LEMMA SiteFacts ==
  ASSUME DeployInv, pc \in {"site", "reload"}
  PROVE  /\ Frontend /\ pc \in Activating /\ pc \notin RestoreCommands
         /\ host.current = op.target /\ host.enabled = Service \cup left.enabled
         /\ \A s \in Service : host.unit[s] = op.target
         /\ \A s \in AllService : host.run[s] = op.target
         /\ host.bin = op.target /\ op.target # None /\ op.target \in Release
         /\ Service = AllService
<1>1. pc \in Activating /\ pc \in FrontendOnly /\ pc \notin RestoreCommands
  BY DEF Activating, FrontendOnly, RestoreCommands
<1>2. Frontend
  BY <1>1 DEF DeployInv, Place
<1>3. op.target \in Release /\ Service = AllService
  BY <1>1, <1>2, ActivateFacts
<1>4. op.target # None
  BY <1>3, DeployAssumption
<1> QED BY <1>1, <1>2, <1>3, <1>4 DEF DeployInv, Activated

(* The site file of the release, unless it is there already.                *)
LEMMA InstallSiteKeeps ==
  ASSUME DeployInv, InstallSite
  PROVE  DeployInv'
<1> DEFINE h == [host EXCEPT !.site = op.target]
           q == "reload"
           r == "previous"
<1>1. /\ pc = "site"
      /\ \/ Ok("site", host, r, 1) /\ host.site = op.target
         \/ host.site # op.target /\ (Ok("site", h, q, 1) \/ Fails("site", h))
  BY DEF InstallSite, Cmd, Ok
<1>2. /\ pc \in Activating \ {"reload"} /\ q \in Activating \cup {"previous"}
      /\ q = "reload" /\ q # "previous" /\ r = "previous" /\ r # "reload"
      /\ r \notin FrontendOnly /\ r \notin ModelOnly /\ q \notin ModelOnly
      /\ r \notin Activating /\ r \notin Restoring /\ r \notin EarlyRestore
      /\ q \notin Restoring /\ q \notin EarlyRestore
  BY <1>1 DEF Activating, FrontendOnly, ModelOnly, Restoring, RestoreCommands, EarlyRestore
<1>3. /\ Frontend /\ pc \in Activating /\ pc \notin RestoreCommands
      /\ host.current = op.target /\ host.enabled = Service \cup left.enabled
      /\ \A s \in Service : host.unit[s] = op.target
      /\ \A s \in AllService : host.run[s] = op.target
      /\ host.bin = op.target /\ op.target # None /\ op.target \in Release
      /\ Service = AllService
  BY <1>1, SiteFacts
<1>4. host \in HostRec /\ Sound(host) /\ SiteAt(host, pc, from)
  BY <1>3, ActivateFacts
<1>5. host.site = before.site /\ host.loaded = before.loaded
  BY <1>2, <1>4 DEF SiteAt
<1>6. /\ h \in HostRec /\ h.site = op.target
      /\ h.current = host.current /\ h.unit = host.unit /\ h.enabled = host.enabled
      /\ h.run = host.run /\ h.bin = host.bin /\ h.loaded = host.loaded
  <2>1. op.target \in Release \cup {None}
    BY <1>3
  <2> QED BY <1>4, <2>1, SiteChanged
<1>7. Sound(h) /\ Settled(host)
  BY <1>3, <1>4, <1>6 DEF Sound, Settled
<1> HIDE DEF h, q, r
<1>8. ASSUME host.site # op.target PROVE SiteAt(h, q, from) /\ Nginx(h)
  BY <1>2, <1>5, <1>6, <1>8 DEF SiteAt, Nginx
<1>9. ASSUME host.site # op.target, Fails("site", h) PROVE DeployInv'
  BY <1>3, <1>7, <1>8, <1>9, FailsKeeps
<1>10. ASSUME host.site # op.target, Ok("site", h, q, 1) PROVE DeployInv'
  <2>1. Goes(h, q, 1) /\ NoneReturns /\ left' = left
    BY <1>10, OkGoes
  <2>2. /\ host' = h /\ pc' = q /\ op' = op /\ AllService' = AllService
        /\ Service' = Service /\ (Frontend' <=> Frontend)
    BY <2>1, GoesSame
  <2>3. Activated'
    BY <1>2, <1>3, <1>6, <2>1, <2>2 DEF Activated, Ending
  <2>4. q \notin {"units", "start"}
    BY <1>2
  <2> QED BY <1>2, <1>3, <1>7, <1>8, <1>10, <2>1, <2>3, <2>4, ActivateOk
<1>11. ASSUME Ok("site", host, r, 1), host.site = op.target PROVE DeployInv'
  <2>1. Goes(host, r, 1) /\ NoneReturns /\ left' = left
    BY <1>11, OkGoes
  <2>2. /\ host' = host /\ pc' = r /\ op' = op /\ AllService' = AllService /\ before' = before
        /\ Service' = Service /\ (Frontend' <=> Frontend)
    BY <2>1, GoesSame
  <2>3. Serves'
    BY <1>3, <1>5, <1>11, <2>1, <2>2 DEF Serves
  <2>4. Activated'
    BY <1>2, <2>2, <2>3 DEF Activated
  <2>5. SiteAt(host, r, from)
    BY <1>2 DEF SiteAt
  <2>6. r \notin {"units", "start"} /\ r \in Activating \cup {"previous"}
    BY <1>2
  <2> QED BY <1>2, <1>3, <1>4, <1>7, <2>1, <2>4, <2>5, <2>6, ActivateOk
<1> QED BY <1>1, <1>9, <1>10, <1>11

(* The reload of nginx during the activation.                               *)
LEMMA ReloadNginxKeeps ==
  ASSUME DeployInv, ReloadNginx
  PROVE  DeployInv'
<1> DEFINE h == [host EXCEPT !.loaded = host.site]
           r == "previous"
<1>1. pc = "reload" /\ (Ok("reload", h, r, 1) \/ Fails("reload", h))
  BY DEF ReloadNginx, Cmd, Ok, Fails
<1>2. /\ r = "previous" /\ r # "reload" /\ r \notin FrontendOnly /\ r \notin ModelOnly
      /\ r \notin Activating /\ r \notin Restoring /\ r \notin EarlyRestore
  BY DEF Activating, FrontendOnly, ModelOnly, Restoring, RestoreCommands, EarlyRestore
<1>3. /\ Frontend /\ pc \in Activating /\ pc \notin RestoreCommands
      /\ host.current = op.target /\ host.enabled = Service \cup left.enabled
      /\ \A s \in Service : host.unit[s] = op.target
      /\ \A s \in AllService : host.run[s] = op.target
      /\ host.bin = op.target /\ op.target # None /\ op.target \in Release
      /\ Service = AllService
  BY <1>1, SiteFacts
<1>4. host \in HostRec /\ Sound(host) /\ SiteAt(host, pc, from)
  BY <1>3, ActivateFacts
<1>5. host.site = op.target /\ op.target # before.site
  BY <1>1, <1>4 DEF SiteAt
<1>6. /\ h \in HostRec /\ h.loaded = op.target
      /\ h.current = host.current /\ h.unit = host.unit /\ h.enabled = host.enabled
      /\ h.run = host.run /\ h.bin = host.bin /\ h.site = op.target
  <2>1. host.site \in Release \cup {None}
    BY <1>3, <1>5
  <2> QED BY <1>4, <1>5, <2>1, LoadedChanged
<1>7. Sound(h) /\ Settled(h) /\ Nginx(h)
  BY <1>3, <1>4, <1>5, <1>6 DEF Sound, Settled, Nginx
<1> HIDE DEF h, r
<1>8. ASSUME Fails("reload", h) PROVE DeployInv'
  BY <1>3, <1>7, <1>8, FailsKeeps
<1>9. ASSUME Ok("reload", h, r, 1) PROVE DeployInv'
  <2>1. Goes(h, r, 1) /\ NoneReturns /\ left' = left
    BY <1>9, OkGoes
  <2>2. /\ host' = h /\ pc' = r /\ op' = op /\ AllService' = AllService /\ before' = before
        /\ Service' = Service /\ (Frontend' <=> Frontend)
    BY <2>1, GoesSame
  <2>3. Serves'
    BY <1>3, <1>5, <1>6, <2>1, <2>2 DEF Serves
  <2>4. Activated'
    BY <1>2, <2>2, <2>3 DEF Activated
  <2>5. SiteAt(h, r, from)
    BY <1>2 DEF SiteAt
  <2>6. r \notin {"units", "start"} /\ r \in Activating \cup {"previous"}
    BY <1>2
  <2> QED BY <1>2, <1>3, <1>7, <2>1, <2>4, <2>5, <2>6, ActivateOk
<1> QED BY <1>1, <1>8, <1>9

-----------------------------------------------------------------------------
(* restore_deployment_state.                                                *)
LEMMA RestoreFacts ==
  ASSUME DeployInv, pc \in Restoring
  PROVE  /\ State \in StateRec /\ host \in HostRec /\ Sound(host)
         /\ left \in LeftRec /\ left.run \subseteq left.astray
         /\ SiteAt(host, pc, from)
         /\ pc \in RestoreCommands => Settled(host)
         /\ State.release \in Release => State.release \in store.disk
         /\ kills = 0 /\ ~Frontend => Coherent(State)
         /\ NAll \in Nat /\ 1 <= NAll /\ Frontend \in BOOLEAN
         /\ Frontend => \A s \in AllService : s = 1
<1>1. pc \in Running
  BY DEF Running
<1>2. snap # None /\ (from = "saved" => store.saved # None)
  BY <1>1 DEF DeployInv, Place
<1>3. /\ host \in HostRec /\ snap \in StateRec \cup {None}
      /\ store.saved \in StateRec \cup {None} /\ from \in {"snap", "saved"}
      /\ left \in LeftRec /\ left.run \subseteq left.astray
      /\ SiteAt(host, pc, from)
  BY DEF DeployInv, Types, StoreRec, RestoreInv
<1>4. \/ from = "snap" /\ State = snap
      \/ from = "saved" /\ State = store.saved
  BY <1>3 DEF State
<1>5. State \in StateRec /\ State # None
  BY <1>2, <1>3, <1>4
<1>6. State.release \in Release => State.release \in store.disk
  BY <1>1, <1>2, <1>4 DEF DeployInv, OnDisk
<1>7. kills = 0 /\ ~Frontend => Coherent(State)
  BY <1>1, <1>2, <1>4 DEF DeployInv, CoherentInv
<1>8. /\ NAll \in Nat /\ 1 <= NService /\ NService <= NAll /\ NService \in Nat
      /\ Frontend \in BOOLEAN /\ (Frontend => \A s \in AllService : s = 1)
  BY ConfigFacts DEF DeployInv
<1>9. 1 <= NAll
  BY <1>8, SMTT(60)
<1> QED BY <1>1, <1>3, <1>5, <1>6, <1>7, <1>8, <1>9, SoundNow

(* The services are stopped before anything is restored.                    *)
LEMMA RestoreStopKeeps ==
  ASSUME DeployInv, RestoreStop
  PROVE  DeployInv'
<1> DEFINE q == "r_unit"
<1>1. PICK x \in SUBSET Active :
        Unchecked("r_stop", x, StoppedBut(x),
                  [run |-> x, astray |-> left.astray \cup x,
                   enabled |-> {}, unit |-> {}, files |-> {}], q, 1)
  BY DEF RestoreStop
<1> DEFINE h == StoppedBut(x)
           l == [run |-> x, astray |-> left.astray \cup x,
                 enabled |-> {}, unit |-> {}, files |-> {}]
<1>2. pc = "r_stop" /\ Goes(h, q, 1) /\ left' = l
  BY <1>1 DEF Unchecked
<1>3. /\ pc \in Restoring /\ pc \in EarlyRestore /\ q \in EarlyRestore \cup {"r_start"}
      /\ q \in RestoreCommands /\ q \notin FrontendOnly /\ q \notin ModelOnly
      /\ q # "r_start" /\ q = "r_unit"
  BY <1>2 DEF Restoring, RestoreCommands, FrontendOnly, ModelOnly, EarlyRestore
<1>4. /\ host \in HostRec /\ Sound(host) /\ NAll \in Nat /\ 1 <= NAll /\ SiteAt(host, pc, from)
      /\ left \in LeftRec
  BY <1>3, RestoreFacts
<1>5. /\ h \in HostRec /\ RunningOn(h) = x
      /\ \A s \in AllService : h.run[s] = IF s \in x THEN host.run[s] ELSE None
      /\ h.current = host.current /\ h.unit = host.unit /\ h.enabled = host.enabled
      /\ h.bin = host.bin /\ h.site = host.site /\ h.loaded = host.loaded
  BY <1>4, StoppedFacts
<1>6. /\ l \in LeftRec /\ l.run = x /\ l.astray = left.astray \cup x /\ l.enabled = {}
      /\ l.unit = {}
  <2>1. x \in SUBSET AllService
    BY DEF Active, RunningOn
  <2>2. left.astray \cup x \in SUBSET AllService
    BY <1>4, <2>1 DEF LeftRec
  <2> QED BY <2>1, <2>2 DEF LeftRec
<1> HIDE DEF h, l, q
<1>7. NoneReturns
  BY <1>2, <1>6 DEF NoneReturns
<1>8. Sound(h)
  <2>1. \A s \in AllService : h.run[s] # None => h.run[s] = host.run[s]
    BY <1>5
  <2> QED BY <1>4, <1>5, <2>1 DEF Sound
<1>9. SiteAt(h, q, from)
  BY <1>3, <1>4, <1>5, QuietSite
<1>10. 1 \in AllService /\ \A s \in AllService : ~(s < 1)
  BY <1>4, SMTT(60) DEF AllService
<1>11. Restored'
  <2>1. host' = h /\ pc' = "r_unit" /\ i' = 1 /\ AllService' = AllService
    BY <1>2, <1>3, GoesSame
  <2>2. Active' = left'.run
    BY <1>2, <1>5, <1>6, <2>1 DEF Active, RunningOn
  <2> QED BY <1>2, <1>6, <1>10, <2>1, <2>2 DEF Restored
<1> QED BY <1>2, <1>3, <1>7, <1>8, <1>9, <1>10, <1>11, RestoreOk

(* One unit file is restored, or one that was not there stays.              *)
LEMMA RestoreUnitKeeps ==
  ASSUME DeployInv, RestoreUnit
  PROVE  DeployInv'
<1> DEFINE q == IF i < NAll THEN "r_unit" ELSE "r_daemon"
           j == IF i < NAll THEN i + 1 ELSE 1
           g == [host EXCEPT !.unit[i] = State.unit[i]]
<1>1. /\ pc = "r_unit"
      /\ \/ Ok("r_unit", g, q, j)
         \/ Fails("r_unit", g)
         \/ /\ State.unit[i] = None
            /\ \E u \in Kept(i, host.unit[i]) :
                 Unchecked("r_unit", u,
                           [host EXCEPT !.unit[i] = IF u = {} THEN None ELSE host.unit[i]],
                           [left EXCEPT !.unit = left.unit \cup u], q, j)
  BY DEF RestoreUnit, Cmd
<1>2. /\ pc \in Restoring /\ pc \in RestoreCommands /\ pc \in EarlyRestore
  BY <1>1 DEF Restoring, RestoreCommands, EarlyRestore
<1>3. i \in AllService
  BY <1>1 DEF DeployInv, Index
<1>4. /\ State \in StateRec /\ host \in HostRec /\ Sound(host) /\ Settled(host)
      /\ NAll \in Nat /\ 1 <= NAll /\ SiteAt(host, pc, from)
      /\ left \in LeftRec /\ left.run \subseteq left.astray
  BY <1>2, RestoreFacts
<1>5. /\ q = "r_unit" => j \in AllService
      /\ q # "r_unit" => j = 1
      /\ q = "r_unit" => \A s \in AllService : s < j <=> s < i \/ s = i
      /\ q # "r_unit" => \A s \in AllService : s < i \/ s = i
      /\ q \in {"r_unit", "r_daemon"}
      /\ ~(i < i)
  BY <1>3, <1>4, SMTT(60) DEF AllService
<1> HIDE DEF q, j
<1>6. /\ q \in RestoreCommands /\ q \notin FrontendOnly /\ q \notin ModelOnly /\ q # "r_start"
      /\ q \in EarlyRestore \cup {"r_start"}
  BY <1>5 DEF RestoreCommands, FrontendOnly, ModelOnly, EarlyRestore
<1>7. /\ Active = left.run /\ (Frontend => left.enabled = {})
      /\ \A s \in AllService : s < i => UnitBack(s)
      /\ \A s \in left.unit : s < i
  BY <1>1 DEF DeployInv, RestoreInv, Restored, RestoreCommands
<1>8. ASSUME NEW v \in Release \cup {None}, NEW h, h = [host EXCEPT !.unit[i] = v]
      PROVE  /\ h \in HostRec /\ h.unit = [host.unit EXCEPT ![i] = v] /\ h.run = host.run
             /\ Sound(h) /\ Settled(h) /\ SiteAt(h, q, from) /\ Nginx(h)
  <2>1. [host.unit EXCEPT ![i] = v] \in Unit
    BY <1>4 DEF HostRec, Unit
  <2>2. /\ h \in HostRec /\ h.unit = [host.unit EXCEPT ![i] = v]
        /\ h.current = host.current /\ h.enabled = host.enabled /\ h.run = host.run
        /\ h.bin = host.bin /\ h.site = host.site /\ h.loaded = host.loaded
    BY <1>4, <1>8, <2>1 DEF HostRec
  <2>3. \A s \in AllService \ left.astray : host.run[s] = None
    BY <1>4, <1>7 DEF Active, RunningOn
  <2>4. Sound(h) /\ Settled(h)
    BY <1>4, <2>2, <2>3 DEF Sound, Settled
  <2>5. SiteAt(h, q, from) /\ Nginx(h)
    BY <1>2, <1>4, <1>6, <2>2, QuietSite
  <2> QED BY <2>2, <2>4, <2>5
<1>9. ASSUME NEW v \in Release \cup {None}, NEW h, h = [host EXCEPT !.unit[i] = v],
             NEW l \in LeftRec, l.run = left.run, l.astray = left.astray,
             l.enabled = left.enabled, Goes(h, q, j), left' = l,
             \/ l.unit = left.unit /\ v = State.unit[i]
             \/ l.unit = left.unit \cup {i} /\ State.unit[i] = None
      PROVE  DeployInv'
  <2>1. /\ h \in HostRec /\ h.unit = [host.unit EXCEPT ![i] = v] /\ h.run = host.run
        /\ Sound(h) /\ Settled(h) /\ SiteAt(h, q, from)
    BY <1>8, <1>9
  <2>2. NoneReturns
    BY <1>4, <1>9 DEF NoneReturns
  <2>3. /\ host' = h /\ pc' = q /\ i' = j /\ State' = State /\ (Frontend' <=> Frontend)
        /\ AllService' = AllService /\ (h.run = host.run => Active' = Active)
    BY <1>9, GoesSame
  <2>4. Active' = left'.run
    BY <1>7, <1>9, <2>1, <2>3
  <2>5. \A s \in AllService : s < i \/ s = i => UnitBack(s)'
    <3>1. TAKE s \in AllService
    <3>2. DOMAIN host.unit = AllService /\ i \notin left.unit
      BY <1>4, <1>5, <1>7 DEF HostRec, Unit
    <3>3. CASE s = i
      BY <1>3, <1>9, <2>1, <2>3, <3>2, <3>3 DEF UnitBack
    <3>4. CASE s # i /\ s < i
      <4>1. h.unit[s] = host.unit[s] /\ (s \in l.unit <=> s \in left.unit)
        BY <1>9, <2>1, <3>2, <3>4
      <4> QED BY <1>7, <1>9, <2>3, <3>4, <4>1 DEF UnitBack
    <3> QED BY <3>3, <3>4
  <2>6. q = "r_unit" =>
          (\A s \in AllService : s < j => UnitBack(s)') /\ \A s \in l.unit : s < j
    <3>1. l.unit \subseteq AllService
      BY <1>9 DEF LeftRec
    <3> QED BY <1>5, <1>7, <1>9, <2>5, <3>1
  <2>7. q # "r_unit" => \A s \in AllService : UnitBack(s)'
    BY <1>5, <2>5
  <2>8. Restored'
    BY <1>5, <1>7, <1>9, <2>3, <2>4, <2>6, <2>7 DEF Restored
  <2> QED BY <1>2, <1>5, <1>6, <1>9, <2>1, <2>2, <2>8, RestoreOk
<1>10. State.unit[i] \in Release \cup {None} /\ host.unit[i] \in Release \cup {None}
  BY <1>3, <1>4 DEF StateRec, HostRec, Unit
<1>11. ASSUME Fails("r_unit", g) PROVE DeployInv'
  <2>1. Sound(g) /\ Settled(g) /\ Nginx(g)
    BY <1>8, <1>10
  <2> HIDE DEF g
  <2> QED BY <1>2, <1>11, <2>1, FailsKeeps
<1>12. ASSUME Ok("r_unit", g, q, j) PROVE DeployInv'
  <2>1. Goes(g, q, j) /\ left' = left
    BY <1>12, OkGoes
  <2> QED BY <1>4, <1>9, <1>10, <2>1
<1>13. ASSUME State.unit[i] = None, NEW u \in Kept(i, host.unit[i]),
              Unchecked("r_unit", u,
                        [host EXCEPT !.unit[i] = IF u = {} THEN None ELSE host.unit[i]],
                        [left EXCEPT !.unit = left.unit \cup u], q, j)
       PROVE  DeployInv'
  <2> DEFINE v == IF u = {} THEN None ELSE host.unit[i]
             l == [left EXCEPT !.unit = left.unit \cup u]
             h == [host EXCEPT !.unit[i] = v]
  <2>1. u = {} \/ u = {i}
    BY <1>13 DEF Kept
  <2>2. v \in Release \cup {None} /\ (u = {} => v = None)
    BY <1>10
  <2>3. left.unit \cup u \in SUBSET AllService
    BY <1>3, <1>4, <2>1 DEF LeftRec
  <2>4. /\ l \in LeftRec /\ l.run = left.run /\ l.astray = left.astray
        /\ l.enabled = left.enabled /\ l.unit = left.unit \cup u
    BY <1>4, <2>3 DEF LeftRec
  <2>5. Goes(h, q, j) /\ left' = l
    BY <1>13 DEF Unchecked
  <2>6. h = [host EXCEPT !.unit[i] = v]
    OBVIOUS
  <2>7. \/ l.unit = left.unit /\ v = State.unit[i]
        \/ l.unit = left.unit \cup {i} /\ State.unit[i] = None
    <3> HIDE DEF l, v
    <3> QED BY <1>13, <2>1, <2>2, <2>4
  <2> HIDE DEF h, l, v
  <2> QED BY <1>9, <2>2, <2>4, <2>5, <2>6, <2>7
<1> HIDE DEF g
<1> QED BY <1>1, <1>11, <1>12, <1>13

(* The commands between the units and the services touch neither.           *)
LEMMA QuietSound ==
  ASSUME DeployInv, pc \in RestoreCommands \ {"r_unit", "r_start"},
         NEW h, h \in HostRec, h.run = host.run,
         ~Frontend => h.bin = host.bin /\ h.site = host.site /\ h.loaded = host.loaded,
         h.current \in {host.current, State.release, None}
  PROVE  Sound(h) /\ Settled(h)
<1>1. pc \in Restoring
  BY DEF Restoring
<1>2. /\ Sound(host) /\ left.run \subseteq left.astray
      /\ State.release \in Release => State.release \in store.disk
  BY <1>1, RestoreFacts
<1>3. Active = left.run
  BY DEF DeployInv, RestoreInv, Restored
<1>4. \A s \in AllService \ left.astray : host.run[s] = None
  BY <1>2, <1>3 DEF Active, RunningOn
<1>5. None \notin Release
  BY DeployAssumption
<1> QED BY <1>2, <1>4, <1>5 DEF Sound, Settled

(* One of them fails.                                                       *)
LEMMA QuietFails ==
  ASSUME DeployInv, pc \in RestoreCommands \ {"r_unit", "r_start"},
         NEW p, NEW h, Fails(p, h), h \in HostRec, h.run = host.run,
         ~Frontend => h.bin = host.bin /\ h.site = host.site /\ h.loaded = host.loaded,
         h.current \in {host.current, State.release, None},
         from # "snap" => Nginx(h)
  PROVE  DeployInv'
<1>1. Sound(h) /\ Settled(h)
  BY QuietSound
<1> QED BY <1>1, FailsKeeps

(* One of them ends with what it restores restored.                         *)
LEMMA QuietRestore ==
  ASSUME DeployInv, pc \in RestoreCommands \ {"r_unit", "r_start"},
         NEW h, NEW q, NEW l, Goes(h, q, 1), left' = l, l \in LeftRec,
         l.run = left.run, l.astray = left.astray, l.unit = left.unit,
         h \in HostRec, h.run = host.run, h.unit = host.unit,
         ~Frontend => h.bin = host.bin /\ h.site = host.site /\ h.loaded = host.loaded,
         h.current \in {host.current, State.release, None},
         q \in RestoreCommands \ {"r_unit"},
         q \in FrontendOnly => Frontend, q \in ModelOnly => ~Frontend,
         q = "r_enable" /\ ~Frontend => h.enabled = l.enabled,
         q \in {"r_unit", "r_daemon", "r_link", "r_enable"} /\ Frontend => l.enabled = {},
         q \in {"r_bin", "r_site", "r_reload", "r_start"} \/ (q = "r_link" /\ ~Frontend) =>
           h.enabled = State.enabled \cup l.enabled,
         q \in {"r_bin", "r_site", "r_reload", "r_start"} \/ (q = "r_enable" /\ Frontend) =>
           (State.release # None => h.current = State.release),
         q \in {"r_site", "r_reload", "r_start"} /\ Frontend =>
           "bin" \in l.files \/ h.bin = State.bin,
         q \in {"r_reload", "r_start"} /\ Frontend => "site" \in l.files \/ h.site = State.site,
         SiteAt(h, q, from)
  PROVE  DeployInv'
<1>1. pc \in Restoring
  BY DEF Restoring
<1>2. NAll \in Nat /\ 1 <= NAll /\ State \in StateRec /\ left.run \subseteq left.astray
  BY <1>1, RestoreFacts
<1>3. Active = left.run /\ \A s \in AllService : UnitBack(s)
  BY DEF DeployInv, RestoreInv, Restored
<1>4. Sound(h) /\ Settled(h)
  BY QuietSound
<1>5. NoneReturns
  BY <1>2 DEF NoneReturns
<1>6. /\ host' = h /\ pc' = q /\ i' = 1 /\ State' = State /\ (Frontend' <=> Frontend)
      /\ Active' = Active /\ AllService' = AllService
  <2>1. /\ host' = h /\ pc' = q /\ i' = 1 /\ State' = State /\ (Frontend' <=> Frontend)
        /\ AllService' = AllService /\ (h.run = host.run => Active' = Active)
    BY GoesSame
  <2> QED BY <2>1
<1>7. Active' = left'.run
  BY <1>3, <1>6
<1>8. \A s \in AllService : UnitBack(s)'
  BY <1>3, <1>6 DEF UnitBack
<1>9. q = "r_start" => /\ Active' = {s \in State.active : s < 1} \cup left'.run
                       /\ \A s \in Active' \ left'.run : host'.run[s] = RunsFrom(s)'
  <2>1. State.active \subseteq AllService
    BY <1>2 DEF StateRec
  <2>2. \A s \in AllService : ~(s < 1)
    BY SMTT(60) DEF AllService
  <2>3. {s \in State.active : s < 1} = {}
    BY <2>1, <2>2
  <2> QED BY <1>7, <2>3
<1>10. Restored'
  BY <1>6, <1>7, <1>8, <1>9 DEF Restored
<1>11. 1 \in 1 .. NAll + 1
  BY <1>2, SMTT(60)
<1>12. q # "r_unit" /\ q \in RestoreCommands
  OBVIOUS
<1> QED BY <1>1, <1>4, <1>5, <1>10, <1>11, <1>12, RestoreOk

(* systemctl daemon-reload.                                                 *)
LEMMA DaemonReloadKeeps ==
  ASSUME DeployInv, DaemonReload
  PROVE  DeployInv'
<1> DEFINE q == IF Frontend THEN "r_link" ELSE "r_disable"
<1>1. pc = "r_daemon" /\ (Ok("r_daemon", host, q, 1) \/ Fails("r_daemon", host))
  BY DEF DaemonReload, Cmd, Ok, Fails
<1>2. /\ pc \in RestoreCommands \ {"r_unit", "r_start"} /\ pc \in Restoring /\ pc \in EarlyRestore
  BY <1>1 DEF RestoreCommands, Restoring, EarlyRestore
<1>3. host \in HostRec /\ left \in LeftRec /\ SiteAt(host, pc, from)
  BY <1>2, RestoreFacts
<1>4. /\ q \in RestoreCommands \ {"r_unit"} /\ q \in EarlyRestore \cup {"r_start"}
      /\ q \notin FrontendOnly /\ (q \in ModelOnly => ~Frontend)
      /\ q \notin {"r_bin", "r_site", "r_reload", "r_start", "r_enable"}
      /\ q = "r_link" => Frontend
  BY DEF RestoreCommands, FrontendOnly, ModelOnly, EarlyRestore
<1>5. Frontend => left.enabled = {}
  BY <1>1 DEF DeployInv, RestoreInv, Restored
<1> HIDE DEF q
<1>6. SiteAt(host, q, from) /\ Nginx(host)
  BY <1>2, <1>3, <1>4, QuietSite
<1>7. ASSUME Ok("r_daemon", host, q, 1) PROVE DeployInv'
  <2>1. Goes(host, q, 1) /\ left' = left
    BY <1>7, OkGoes
  <2> QED BY <1>2, <1>3, <1>4, <1>5, <1>6, <2>1, QuietRestore
<1>8. ASSUME Fails("r_daemon", host) PROVE DeployInv'
  BY <1>2, <1>3, <1>6, <1>8, QuietFails
<1> QED BY <1>1, <1>7, <1>8

(* All services are disabled, or some stay enabled.                         *)
LEMMA RestoreDisabledKeeps ==
  ASSUME DeployInv, RestoreDisabled
  PROVE  DeployInv'
<1> DEFINE q == "r_enable"
<1>1. pc = "r_disable" /\ Disable("r_disable", q)
  BY DEF RestoreDisabled, Disable, Unchecked
<1>2. /\ pc \in RestoreCommands \ {"r_unit", "r_start"} /\ pc \in Restoring /\ pc \in EarlyRestore
      /\ pc \in ModelOnly
      /\ q \in RestoreCommands \ {"r_unit"} /\ q \in EarlyRestore \cup {"r_start"}
      /\ q \notin FrontendOnly /\ q \notin ModelOnly
      /\ q \notin {"r_bin", "r_site", "r_reload", "r_start", "r_link"}
  BY <1>1 DEF RestoreCommands, Restoring, EarlyRestore, FrontendOnly, ModelOnly
<1>3. /\ host \in HostRec /\ left \in LeftRec /\ left.run \subseteq left.astray
      /\ SiteAt(host, pc, from)
  BY <1>2, RestoreFacts
<1>4. ~Frontend
  BY <1>2 DEF DeployInv, Place
<1> HIDE DEF q
<1>5. PICK x, h, l : Disabled("r_disable", q, x, h, l)
  BY <1>1, <1>3, DisableFacts
<1>6. /\ Goes(h, q, 1) /\ h \in HostRec /\ h.enabled = x /\ h.run = host.run
      /\ h.current = host.current /\ h.unit = host.unit
      /\ h.bin = host.bin /\ h.site = host.site /\ h.loaded = host.loaded
      /\ left' = l /\ l \in LeftRec /\ l.enabled = x /\ l.run = left.run
      /\ l.astray = left.astray /\ l.unit = left.unit
  BY <1>5 DEF Disabled
<1>7. SiteAt(h, q, from)
  BY <1>2, <1>3, <1>6, QuietSite
<1> QED BY <1>2, <1>4, <1>6, <1>7, QuietRestore

(* The enabled services are restored.                                       *)
LEMMA RestoreEnabledKeeps ==
  ASSUME DeployInv, RestoreEnabled
  PROVE  DeployInv'
<1> DEFINE h == [host EXCEPT !.enabled = host.enabled \cup State.enabled]
           q == IF Frontend THEN "r_bin" ELSE "r_link"
<1>1. /\ pc = "r_enable"
      /\ \/ /\ ~Frontend \/ State.enabled # {}
            /\ Ok("r_enable", h, q, 1) \/ Fails("r_enable", h)
         \/ Frontend /\ State.enabled = {} /\ Disable("r_enable", q)
  BY DEF RestoreEnabled, Cmd
<1>2. /\ pc \in RestoreCommands \ {"r_unit", "r_start"} /\ pc \in Restoring /\ pc \in EarlyRestore
  BY <1>1 DEF RestoreCommands, Restoring, EarlyRestore
<1>3. /\ State \in StateRec /\ host \in HostRec /\ left \in LeftRec
      /\ left.run \subseteq left.astray /\ SiteAt(host, pc, from)
      /\ Frontend => \A s \in AllService : s = 1
  BY <1>2, RestoreFacts
<1>4. /\ h \in HostRec /\ h.enabled = host.enabled \cup State.enabled
      /\ h.current = host.current /\ h.unit = host.unit /\ h.run = host.run
      /\ h.bin = host.bin /\ h.site = host.site /\ h.loaded = host.loaded
  <2>1. host.enabled \cup State.enabled \in SUBSET AllService
    BY <1>3 DEF StateRec, HostRec
  <2> QED BY <1>3, <2>1, EnabledChanged
<1>5. /\ q \in RestoreCommands \ {"r_unit"} /\ (q \in FrontendOnly => Frontend)
      /\ q \notin ModelOnly /\ q \in EarlyRestore \cup {"r_start"}
      /\ q \notin {"r_site", "r_reload", "r_start", "r_enable", "r_daemon"}
      /\ (q = "r_bin" => Frontend) /\ (q = "r_link" => ~Frontend)
  BY DEF RestoreCommands, FrontendOnly, ModelOnly, EarlyRestore
<1>6. /\ Frontend => (State.release # None => host.current = State.release)
      /\ Frontend => left.enabled = {}
      /\ ~Frontend => host.enabled = left.enabled
  BY <1>1 DEF DeployInv, RestoreInv, Restored
<1> HIDE DEF h, q
<1>7. SiteAt(h, q, from) /\ Nginx(h)
  BY <1>2, <1>3, <1>4, <1>5, QuietSite
<1>8. ASSUME Fails("r_enable", h) PROVE DeployInv'
  BY <1>2, <1>4, <1>7, <1>8, QuietFails
<1>9. ASSUME ~Frontend \/ State.enabled # {}, Ok("r_enable", h, q, 1) PROVE DeployInv'
  <2>1. Goes(h, q, 1) /\ left' = left
    BY <1>9, OkGoes
  <2>2. h.enabled = State.enabled \cup left.enabled
    <3>1. CASE ~Frontend
      BY <1>4, <1>6, <3>1
    <3>2. CASE Frontend
      <4>1. State.enabled \subseteq AllService /\ host.enabled \subseteq AllService
        BY <1>3 DEF StateRec, HostRec
      <4>2. host.enabled \subseteq State.enabled
        BY <1>3, <1>9, <3>2, <4>1
      <4> QED BY <1>4, <1>6, <3>2, <4>2
    <3> QED BY <3>1, <3>2
  <2> QED BY <1>2, <1>3, <1>4, <1>5, <1>6, <1>7, <2>1, <2>2, QuietRestore
<1>10. ASSUME Frontend, State.enabled = {}, Disable("r_enable", q) PROVE DeployInv'
  <2>1. PICK x, g, l : Disabled("r_enable", q, x, g, l)
    BY <1>3, <1>10, DisableFacts
  <2>2. /\ Goes(g, q, 1) /\ g \in HostRec /\ g.enabled = x /\ g.run = host.run
        /\ g.current = host.current /\ g.unit = host.unit
        /\ g.bin = host.bin /\ g.site = host.site /\ g.loaded = host.loaded
        /\ left' = l /\ l \in LeftRec /\ l.enabled = x /\ l.run = left.run
        /\ l.astray = left.astray /\ l.unit = left.unit
    BY <2>1 DEF Disabled
  <2>3. SiteAt(g, q, from)
    BY <1>2, <1>3, <1>5, <2>2, QuietSite
  <2>4. g.enabled = State.enabled \cup l.enabled
    BY <1>10, <2>2
  <2>5. q # "r_link"
    BY <1>5, <1>10
  <2> QED BY <1>2, <1>5, <1>6, <1>10, <2>2, <2>3, <2>4, <2>5, QuietRestore
<1> QED BY <1>1, <1>8, <1>9, <1>10

(* A file that rm -f left is remembered.                                    *)
LEMMA FilesLeft ==
  ASSUME left \in LeftRec, NEW f \in SUBSET {"current", "bin", "site"},
         NEW l, l = [left EXCEPT !.files = left.files \cup f]
  PROVE  /\ l \in LeftRec /\ l.files = left.files \cup f /\ l.run = left.run
         /\ l.astray = left.astray /\ l.enabled = left.enabled /\ l.unit = left.unit
<1>1. left.files \cup f \in SUBSET {"current", "bin", "site"}
  BY DEF LeftRec
<1> QED BY <1>1 DEF LeftRec

(* The link current is restored, or one to no release is removed.           *)
LEMMA RestoreLinkKeeps ==
  ASSUME DeployInv, RestoreLink
  PROVE  DeployInv'
<1> DEFINE g == [host EXCEPT !.current = State.release]
           q == IF Frontend THEN "r_enable" ELSE "r_start"
<1>1. /\ pc = "r_link"
      /\ \/ Ok("r_link", g, q, 1)
         \/ Fails("r_link", g)
         \/ /\ State.release = None
            /\ \E f \in Kept("current", host.current) :
                 Unchecked("r_link", f,
                           [host EXCEPT !.current = IF f = {} THEN None ELSE host.current],
                           [left EXCEPT !.files = left.files \cup f], q, 1)
  BY DEF RestoreLink, Cmd
<1>2. /\ pc \in RestoreCommands \ {"r_unit", "r_start"} /\ pc \in Restoring /\ pc \in EarlyRestore
  BY <1>1 DEF RestoreCommands, Restoring, EarlyRestore
<1>3. State \in StateRec /\ host \in HostRec /\ left \in LeftRec /\ SiteAt(host, pc, from)
  BY <1>2, RestoreFacts
<1>4. /\ q \in RestoreCommands \ {"r_unit"} /\ (q \in FrontendOnly => Frontend)
      /\ q \notin ModelOnly /\ q \in EarlyRestore \cup {"r_start"}
      /\ q \notin {"r_site", "r_reload", "r_bin", "r_link", "r_daemon"}
      /\ (q = "r_start" => ~Frontend) /\ (q = "r_enable" => Frontend)
  BY DEF RestoreCommands, FrontendOnly, ModelOnly, EarlyRestore
<1>5. /\ ~Frontend => host.enabled = State.enabled \cup left.enabled
      /\ Frontend => left.enabled = {}
  BY <1>1 DEF DeployInv, RestoreInv, Restored
<1>6. ASSUME NEW v \in Link, NEW h, h = [host EXCEPT !.current = v]
      PROVE  /\ h \in HostRec /\ h.current = v
             /\ h.unit = host.unit /\ h.enabled = host.enabled /\ h.run = host.run
             /\ h.bin = host.bin /\ h.site = host.site /\ h.loaded = host.loaded
  BY <1>3, <1>6, CurrentChanged
<1>7. State.release \in Link /\ host.current \in Link /\ None \in Link
  BY <1>3 DEF StateRec, HostRec, Link
<1> HIDE DEF q
<1>8. /\ g \in HostRec /\ g.current = State.release
      /\ g.unit = host.unit /\ g.enabled = host.enabled /\ g.run = host.run
      /\ g.bin = host.bin /\ g.site = host.site /\ g.loaded = host.loaded
  BY <1>6, <1>7
<1> HIDE DEF g
<1>9. SiteAt(g, q, from) /\ Nginx(g)
  BY <1>2, <1>3, <1>4, <1>8, QuietSite
<1>10. ASSUME Fails("r_link", g) PROVE DeployInv'
  BY <1>2, <1>8, <1>9, <1>10, QuietFails
<1>11. ASSUME Ok("r_link", g, q, 1) PROVE DeployInv'
  <2>1. Goes(g, q, 1) /\ left' = left
    BY <1>11, OkGoes
  <2> QED BY <1>2, <1>3, <1>4, <1>5, <1>8, <1>9, <2>1, QuietRestore
<1>12. ASSUME State.release = None, NEW f \in Kept("current", host.current),
              Unchecked("r_link", f,
                        [host EXCEPT !.current = IF f = {} THEN None ELSE host.current],
                        [left EXCEPT !.files = left.files \cup f], q, 1)
       PROVE  DeployInv'
  <2> DEFINE v == IF f = {} THEN None ELSE host.current
             h == [host EXCEPT !.current = v]
             l == [left EXCEPT !.files = left.files \cup f]
  <2>1. Goes(h, q, 1) /\ left' = l
    BY <1>12 DEF Unchecked
  <2>2. v \in Link /\ v \in {host.current, None}
    BY <1>7
  <2>3. f \in SUBSET {"current", "bin", "site"}
    BY DEF Kept
  <2>4. /\ l \in LeftRec /\ l.run = left.run
        /\ l.astray = left.astray /\ l.enabled = left.enabled /\ l.unit = left.unit
    BY <1>3, <2>3, FilesLeft
  <2> HIDE DEF v
  <2>5. /\ h \in HostRec /\ h.current = v
        /\ h.unit = host.unit /\ h.enabled = host.enabled /\ h.run = host.run
        /\ h.bin = host.bin /\ h.site = host.site /\ h.loaded = host.loaded
    BY <1>6, <2>2
  <2> HIDE DEF h, l
  <2>6. SiteAt(h, q, from)
    BY <1>2, <1>3, <1>4, <2>5, QuietSite
  <2>7. h.current \in {host.current, State.release, None}
    BY <2>2, <2>5
  <2> QED BY <1>2, <1>4, <1>5, <1>12, <2>1, <2>4, <2>5, <2>6, <2>7, QuietRestore
<1> QED BY <1>1, <1>10, <1>11, <1>12

(* What is restored before the router's files.                              *)
LEMMA RouterFacts ==
  ASSUME DeployInv, pc \in {"r_bin", "r_site", "r_reload"}
  PROVE  /\ Frontend /\ pc \in RestoreCommands \ {"r_unit", "r_start"} /\ pc \in Restoring
         /\ State \in StateRec /\ host \in HostRec /\ left \in LeftRec
         /\ SiteAt(host, pc, from)
         /\ State.release # None => host.current = State.release
         /\ host.enabled = State.enabled \cup left.enabled
<1>1. /\ pc \in FrontendOnly /\ pc \in RestoreCommands \ {"r_unit", "r_start"} /\ pc \in Restoring
  BY DEF RestoreCommands, Restoring, FrontendOnly
<1>2. /\ State \in StateRec /\ host \in HostRec /\ left \in LeftRec /\ SiteAt(host, pc, from)
  BY <1>1, RestoreFacts
<1> QED BY <1>1, <1>2 DEF DeployInv, RestoreInv, Restored, Place

(* The router's binary is restored, or one that was not there stays.        *)
LEMMA RestoreRouterKeeps ==
  ASSUME DeployInv, RestoreRouter
  PROVE  DeployInv'
<1> DEFINE g == [host EXCEPT !.bin = State.bin]
           q == "r_site"
<1>1. /\ pc = "r_bin"
      /\ \/ Ok("r_bin", g, q, 1)
         \/ Fails("r_bin", g)
         \/ /\ State.bin = None
            /\ \E f \in Kept("bin", host.bin) :
                 Unchecked("r_bin", f, [host EXCEPT !.bin = IF f = {} THEN None ELSE host.bin],
                           [left EXCEPT !.files = left.files \cup f], q, 1)
  BY DEF RestoreRouter, Cmd
<1>2. /\ Frontend /\ pc \in RestoreCommands \ {"r_unit", "r_start"} /\ pc \in Restoring
      /\ State \in StateRec /\ host \in HostRec /\ left \in LeftRec
      /\ SiteAt(host, pc, from)
      /\ State.release # None => host.current = State.release
      /\ host.enabled = State.enabled \cup left.enabled
  BY <1>1, RouterFacts
<1>3. /\ q \in RestoreCommands \ {"r_unit"} /\ q \notin ModelOnly
      /\ q \in EarlyRestore \cup {"r_start"} /\ pc \in EarlyRestore
      /\ q \notin {"r_reload", "r_start", "r_link", "r_daemon", "r_enable"}
  BY <1>1 DEF RestoreCommands, ModelOnly, EarlyRestore
<1>4. ASSUME NEW v \in Release \cup {None}, NEW h, h = [host EXCEPT !.bin = v]
      PROVE  /\ h \in HostRec /\ h.bin = v /\ h.current = host.current
             /\ h.unit = host.unit /\ h.enabled = host.enabled /\ h.run = host.run
             /\ h.site = host.site /\ h.loaded = host.loaded
  BY <1>2, <1>4, BinChanged
<1>5. State.bin \in Release \cup {None} /\ host.bin \in Release \cup {None}
  BY <1>2 DEF StateRec, HostRec
<1> HIDE DEF q
<1>6. /\ g \in HostRec /\ g.bin = State.bin /\ g.current = host.current
      /\ g.unit = host.unit /\ g.enabled = host.enabled /\ g.run = host.run
      /\ g.site = host.site /\ g.loaded = host.loaded
  BY <1>4, <1>5
<1> HIDE DEF g
<1>7. SiteAt(g, q, from) /\ Nginx(g)
  BY <1>2, <1>3, <1>6, QuietSite
<1>8. ASSUME Fails("r_bin", g) PROVE DeployInv'
  BY <1>2, <1>6, <1>7, <1>8, QuietFails
<1>9. ASSUME Ok("r_bin", g, q, 1) PROVE DeployInv'
  <2>1. Goes(g, q, 1) /\ left' = left
    BY <1>9, OkGoes
  <2> QED BY <1>2, <1>3, <1>6, <1>7, <2>1, QuietRestore
<1>10. ASSUME State.bin = None, NEW f \in Kept("bin", host.bin),
              Unchecked("r_bin", f, [host EXCEPT !.bin = IF f = {} THEN None ELSE host.bin],
                        [left EXCEPT !.files = left.files \cup f], q, 1)
       PROVE  DeployInv'
  <2> DEFINE v == IF f = {} THEN None ELSE host.bin
             h == [host EXCEPT !.bin = v]
             l == [left EXCEPT !.files = left.files \cup f]
  <2>1. Goes(h, q, 1) /\ left' = l
    BY <1>10 DEF Unchecked
  <2>2. v \in Release \cup {None} /\ (f = {} => v = None)
    BY <1>5
  <2>3. f \in SUBSET {"current", "bin", "site"} /\ (f # {} => "bin" \in f)
    BY DEF Kept
  <2>4. /\ l \in LeftRec /\ l.run = left.run /\ l.files = left.files \cup f
        /\ l.astray = left.astray /\ l.enabled = left.enabled /\ l.unit = left.unit
    BY <1>2, <2>3, FilesLeft
  <2> HIDE DEF v
  <2>5. /\ h \in HostRec /\ h.bin = v /\ h.current = host.current
        /\ h.unit = host.unit /\ h.enabled = host.enabled /\ h.run = host.run
        /\ h.site = host.site /\ h.loaded = host.loaded
    BY <1>4, <2>2
  <2> HIDE DEF h, l
  <2>6. SiteAt(h, q, from)
    BY <1>2, <1>3, <2>5, QuietSite
  <2>7. "bin" \in l.files \/ h.bin = State.bin
    BY <1>10, <2>2, <2>3, <2>4, <2>5
  <2> QED BY <1>2, <1>3, <2>1, <2>4, <2>5, <2>6, <2>7, QuietRestore
<1> QED BY <1>1, <1>8, <1>9, <1>10

(* The site file is restored, or one that was not there stays.              *)
LEMMA RestoreSiteKeeps ==
  ASSUME DeployInv, RestoreSite
  PROVE  DeployInv'
<1> DEFINE g == [host EXCEPT !.site = State.site]
           q == "r_reload"
           r == "r_start"
<1>1. /\ pc = "r_site"
      /\ \/ host.site = State.site /\ Ok("r_site", host, r, 1)
         \/ host.site # State.site /\ (Ok("r_site", g, q, 1) \/ Fails("r_site", g))
         \/ /\ host.site # State.site /\ State.site = None
            /\ \E f \in Kept("site", host.site) :
                 Unchecked("r_site", f, [host EXCEPT !.site = IF f = {} THEN None ELSE host.site],
                           [left EXCEPT !.files = left.files \cup f], q, 1)
  BY DEF RestoreSite, Cmd
<1>2. /\ Frontend /\ pc \in RestoreCommands \ {"r_unit", "r_start"} /\ pc \in Restoring
      /\ State \in StateRec /\ host \in HostRec /\ left \in LeftRec
      /\ SiteAt(host, pc, from)
      /\ State.release # None => host.current = State.release
      /\ host.enabled = State.enabled \cup left.enabled
  BY <1>1, RouterFacts
<1>3. /\ q \in RestoreCommands \ {"r_unit"} /\ q \notin ModelOnly /\ q # "reload"
      /\ q \notin Activating /\ q \notin EarlyRestore
      /\ q \notin {"r_link", "r_daemon", "r_enable"}
      /\ r \in RestoreCommands \ {"r_unit"} /\ r \notin ModelOnly
      /\ r \in EarlyRestore \cup {"r_start"} /\ pc \in EarlyRestore
      /\ r \notin {"r_link", "r_daemon", "r_enable"}
  BY <1>1 DEF RestoreCommands, ModelOnly, EarlyRestore, Activating
<1>4. ASSUME NEW v \in Release \cup {None}, NEW h, h = [host EXCEPT !.site = v]
      PROVE  /\ h \in HostRec /\ h.site = v /\ h.current = host.current
             /\ h.unit = host.unit /\ h.enabled = host.enabled /\ h.run = host.run
             /\ h.bin = host.bin /\ h.loaded = host.loaded
  BY <1>2, <1>4, SiteChanged
<1>5. State.site \in Release \cup {None} /\ host.site \in Release \cup {None}
  BY <1>2 DEF StateRec, HostRec
<1>6. from # "snap" => from = "saved" /\ host.site = before.site /\ host.loaded = before.loaded
  <2>1. from \in {"snap", "saved"}
    BY DEF DeployInv, Types
  <2> QED BY <1>2, <1>3, <2>1 DEF SiteAt
<1>7. "bin" \in left.files \/ host.bin = State.bin
  BY <1>1, <1>2 DEF DeployInv, RestoreInv, Restored
<1> HIDE DEF q, r
<1>8. /\ g \in HostRec /\ g.site = State.site /\ g.current = host.current
      /\ g.unit = host.unit /\ g.enabled = host.enabled /\ g.run = host.run
      /\ g.bin = host.bin /\ g.loaded = host.loaded
  BY <1>4, <1>5
<1> HIDE DEF g
<1>9. ASSUME host.site # State.site PROVE SiteAt(g, q, from) /\ (from # "snap" => Nginx(g))
  <2>1. from # "snap" => Nginx(g)
    BY <1>6, <1>8, <1>9 DEF Nginx
  <2> QED BY <1>3, <2>1 DEF SiteAt, q
<1>10. ASSUME host.site = State.site, Ok("r_site", host, r, 1) PROVE DeployInv'
  <2>1. Goes(host, r, 1) /\ left' = left
    BY <1>10, OkGoes
  <2>2. SiteAt(host, r, from)
    BY <1>2, <1>3, QuietSite
  <2> QED BY <1>2, <1>3, <1>7, <1>10, <2>1, <2>2, QuietRestore
<1>11. ASSUME host.site # State.site, Fails("r_site", g) PROVE DeployInv'
  BY <1>2, <1>8, <1>9, <1>11, QuietFails
<1>12. ASSUME host.site # State.site, Ok("r_site", g, q, 1) PROVE DeployInv'
  <2>1. Goes(g, q, 1) /\ left' = left
    BY <1>12, OkGoes
  <2> QED BY <1>2, <1>3, <1>7, <1>8, <1>9, <1>12, <2>1, QuietRestore
<1>13. ASSUME host.site # State.site, State.site = None, NEW f \in Kept("site", host.site),
              Unchecked("r_site", f, [host EXCEPT !.site = IF f = {} THEN None ELSE host.site],
                        [left EXCEPT !.files = left.files \cup f], q, 1)
       PROVE  DeployInv'
  <2> DEFINE v == IF f = {} THEN None ELSE host.site
             h == [host EXCEPT !.site = v]
             l == [left EXCEPT !.files = left.files \cup f]
  <2>1. Goes(h, q, 1) /\ left' = l
    BY <1>13 DEF Unchecked
  <2>2. v \in Release \cup {None} /\ (f = {} => v = None) /\ (f # {} => v = host.site)
    BY <1>5
  <2>3. f \in SUBSET {"current", "bin", "site"} /\ (f # {} => "site" \in f)
    BY DEF Kept
  <2>4. /\ l \in LeftRec /\ l.run = left.run /\ l.files = left.files \cup f
        /\ l.astray = left.astray /\ l.enabled = left.enabled /\ l.unit = left.unit
    BY <1>2, <2>3, FilesLeft
  <2> HIDE DEF v
  <2>5. /\ h \in HostRec /\ h.site = v /\ h.current = host.current
        /\ h.unit = host.unit /\ h.enabled = host.enabled /\ h.run = host.run
        /\ h.bin = host.bin /\ h.loaded = host.loaded
    BY <1>4, <2>2
  <2> HIDE DEF h, l
  <2>6. SiteAt(h, q, from)
    <3>1. from # "snap" => Nginx(h)
      BY <1>6, <1>13, <2>2, <2>5 DEF Nginx
    <3> QED BY <1>3, <3>1 DEF SiteAt, q
  <2>7. /\ "site" \in l.files \/ h.site = State.site
        /\ "bin" \in l.files \/ h.bin = State.bin
    BY <1>7, <1>13, <2>2, <2>3, <2>4, <2>5
  <2> QED BY <1>2, <1>3, <2>1, <2>4, <2>5, <2>6, <2>7, QuietRestore
<1> QED BY <1>1, <1>10, <1>11, <1>12, <1>13

(* The reload of nginx during the restoration.                              *)
LEMMA RestoreReloadKeeps ==
  ASSUME DeployInv, RestoreReload
  PROVE  DeployInv'
<1> DEFINE h == [host EXCEPT !.loaded = host.site]
           q == "r_start"
<1>1. pc = "r_reload" /\ (Ok("r_reload", h, q, 1) \/ Fails("r_reload", h))
  BY DEF RestoreReload, Cmd, Ok, Fails
<1>2. /\ Frontend /\ pc \in RestoreCommands \ {"r_unit", "r_start"} /\ pc \in Restoring
      /\ State \in StateRec /\ host \in HostRec /\ left \in LeftRec
      /\ State.release # None => host.current = State.release
      /\ host.enabled = State.enabled \cup left.enabled
  BY <1>1, RouterFacts
<1>3. /\ q \in RestoreCommands \ {"r_unit"} /\ q \notin ModelOnly /\ q # "reload"
      /\ q \notin Activating /\ q \notin EarlyRestore
      /\ q \notin {"r_link", "r_daemon", "r_enable"}
  BY DEF RestoreCommands, ModelOnly, EarlyRestore, Activating
<1>4. /\ h \in HostRec /\ h.loaded = host.site
      /\ h.current = host.current /\ h.unit = host.unit /\ h.enabled = host.enabled
      /\ h.run = host.run /\ h.bin = host.bin /\ h.site = host.site
  <2>1. host.site \in Release \cup {None}
    BY <1>2 DEF HostRec
  <2> QED BY <1>2, <2>1, LoadedChanged
<1>5. /\ "bin" \in left.files \/ host.bin = State.bin
      /\ "site" \in left.files \/ host.site = State.site
  BY <1>1, <1>2 DEF DeployInv, RestoreInv, Restored
<1> HIDE DEF h, q
<1>6. Nginx(h)
  BY <1>4 DEF Nginx
<1>7. SiteAt(h, q, from)
  BY <1>3, <1>6 DEF SiteAt
<1>8. ASSUME Fails("r_reload", h) PROVE DeployInv'
  BY <1>2, <1>4, <1>6, <1>8, QuietFails
<1>9. ASSUME Ok("r_reload", h, q, 1) PROVE DeployInv'
  <2>1. Goes(h, q, 1) /\ left' = left
    BY <1>9, OkGoes
  <2> QED BY <1>2, <1>3, <1>4, <1>5, <1>7, <2>1, QuietRestore
<1> QED BY <1>1, <1>8, <1>9

(* One active service of the state is started again.                        *)
LEMMA RestoreStartKeeps ==
  ASSUME DeployInv, RestoreStart
  PROVE  DeployInv'
<1> DEFINE h == Started(i)
           q == "r_start"
<1>1. /\ pc = "r_start" /\ i <= NAll
      /\ \/ i \notin State.active /\ Ok("r_start", host, q, i + 1)
         \/ i \in State.active /\ Healthy(i) /\ Ok("r_start", h, q, i + 1)
         \/ i \in State.active /\ Fails("r_start", h)
         \/ i \in State.active /\ GiveUp /\ host' = h
            /\ UNCHANGED <<config, store, op, snap, ops, kills, before, left>>
  BY DEF RestoreStart
<1>2. /\ pc \in RestoreCommands /\ pc \in Restoring /\ q \in RestoreCommands
      /\ q = "r_start" /\ q \notin FrontendOnly /\ q \notin ModelOnly
      /\ q \notin Activating /\ q \notin EarlyRestore /\ q # "reload" /\ q # "r_reload"
      /\ pc # "r_reload" /\ q \in Restoring /\ pc # "start"
  BY <1>1 DEF RestoreCommands, Restoring, FrontendOnly, ModelOnly, EarlyRestore, Activating
<1>3. /\ State \in StateRec /\ host \in HostRec /\ Sound(host) /\ Settled(host)
      /\ kills = 0 /\ ~Frontend => Coherent(State)
      /\ NAll \in Nat /\ SiteAt(host, pc, from)
      /\ left \in LeftRec /\ left.run \subseteq left.astray
  BY <1>2, RestoreFacts
<1>4. i \in 1 .. NAll + 1
  BY <1>1 DEF DeployInv, Index
<1>5. i \in AllService /\ i + 1 \in 1 .. NAll + 1 /\ \A s \in AllService : s < i + 1 <=> s < i \/ s = i
  BY <1>1, <1>3, <1>4, SMTT(60) DEF AllService
<1>6. /\ h \in HostRec
      /\ \A x \in AllService :
           h.run[x] = IF x = i /\ Starts(i) THEN RunsFrom(i) ELSE host.run[x]
      /\ h.current = host.current /\ h.unit = host.unit /\ h.enabled = host.enabled
      /\ h.bin = host.bin /\ h.site = host.site /\ h.loaded = host.loaded
  BY <1>3, <1>5, OneStarted
<1>7. Healthy(i) => h.run[i] # None
  BY DEF Healthy
<1> HIDE DEF h, q
<1>8. /\ \A s \in AllService : UnitBack(s)
      /\ host.enabled = State.enabled \cup left.enabled
      /\ State.release # None => host.current = State.release
      /\ Frontend => "bin" \in left.files \/ host.bin = State.bin
      /\ Frontend => "site" \in left.files \/ host.site = State.site
      /\ Active = {s \in State.active : s < i} \cup left.run
      /\ \A s \in Active \ left.run : host.run[s] = RunsFrom(s)
  BY <1>1, <1>2 DEF DeployInv, RestoreInv, Restored
<1>9. State.active \subseteq AllService
  BY <1>3 DEF StateRec
<1>10. Nginx(host) /\ Nginx(h)
  <2>1. Nginx(host)
    BY <1>2, <1>3 DEF SiteAt
  <2> QED BY <1>6, <2>1 DEF Nginx
<1>11. SiteAt(host, q, from) /\ SiteAt(h, q, from)
  BY <1>2, <1>10 DEF SiteAt
<1>12. ASSUME i \in State.active PROVE Sound(h) /\ Settled(h)
  <2>1. ~Frontend /\ Starts(i) => RunsFrom(i) = host.unit[i] /\ host.unit[i] \in store.disk
    BY DEF Starts, CanRun, RunsFrom
  <2>2. kills = 0 /\ ~Frontend /\ i \notin left.astray => host.unit[i] = host.current
    <3>1. ASSUME kills = 0, ~Frontend, i \notin left.astray PROVE host.unit[i] = host.current
      <4>1. State.unit[i] = State.release /\ State.release \in Release
        BY <1>3, <1>12, <3>1 DEF Coherent
      <4>2. State.release # None
        BY <4>1, DeployAssumption
      <4>3. host.unit[i] = State.unit[i]
        BY <1>5, <1>8, <4>1, <4>2 DEF UnitBack
      <4> QED BY <1>8, <4>1, <4>2, <4>3
    <3> QED BY <3>1
  <2>3. Sound(h)
    BY <1>3, <1>6, <2>1 DEF Sound
  <2>4. Settled(h)
    BY <1>3, <1>6, <2>1, <2>2 DEF Settled
  <2> QED BY <2>3, <2>4
<1>13. ASSUME i \notin State.active, Ok("r_start", host, q, i + 1) PROVE DeployInv'
  <2>1. Goes(host, q, i + 1) /\ NoneReturns /\ left' = left
    BY <1>13, OkGoes
  <2>2. /\ host' = host /\ pc' = q /\ i' = i + 1 /\ State' = State /\ (Frontend' <=> Frontend)
        /\ AllService' = AllService /\ Active' = Active
    BY <2>1, GoesSame
  <2>3. {s \in State.active : s < i + 1} = {s \in State.active : s < i}
    BY <1>5, <1>9, <1>13
  <2>4. /\ \A s \in AllService : UnitBack(s)'
        /\ \A s \in Active' \ left'.run : host'.run[s] = RunsFrom(s)'
    BY <1>8, <2>1, <2>2 DEF UnitBack, RunsFrom
  <2>5. Restored'
    BY <1>2, <1>8, <2>1, <2>2, <2>3, <2>4 DEF Restored
  <2> QED BY <1>2, <1>3, <1>5, <1>11, <2>1, <2>5, RestoreOk
<1>14. ASSUME i \in State.active, Healthy(i), Ok("r_start", h, q, i + 1) PROVE DeployInv'
  <2>1. Goes(h, q, i + 1) /\ NoneReturns /\ left' = left
    BY <1>14, OkGoes
  <2>2. /\ host' = h /\ pc' = q /\ i' = i + 1 /\ State' = State /\ (Frontend' <=> Frontend)
        /\ AllService' = AllService
    BY <2>1, GoesSame
  <2>3. Active' = Active \cup {i}
    <3>1. \A s \in AllService : h.run[s] # None <=> s \in Active \/ s = i
      <4>1. TAKE s \in AllService
      <4>2. CASE s = i
        BY <1>7, <1>14, <4>2
      <4>3. CASE s # i
        BY <1>6, <4>3 DEF Active, RunningOn
      <4> QED BY <4>2, <4>3
    <3>2. Active \subseteq AllService
      BY DEF Active, RunningOn
    <3>3. Active' = {s \in AllService : h.run[s] # None}
      BY <2>2 DEF Active, RunningOn
    <3> QED BY <1>5, <3>1, <3>2, <3>3
  <2>4. {s \in State.active : s < i + 1} = {s \in State.active : s < i} \cup {i}
    BY <1>5, <1>9, <1>14
  <2>5. \A s \in AllService : UnitBack(s)'
    BY <1>6, <1>8, <2>1, <2>2 DEF UnitBack
  <2>6. \A s \in Active' \ left'.run : host'.run[s] = RunsFrom(s)'
    <3>1. \A s \in AllService : RunsFrom(s)' = RunsFrom(s)
      BY <1>6, <2>2 DEF RunsFrom
    <3>2. ASSUME NEW s \in Active' \ left'.run PROVE h.run[s] = RunsFrom(s)
      <4>1. s \in AllService /\ s \notin left.run
        BY <1>5, <2>1, <2>3, <3>2 DEF Active, RunningOn
      <4>2. CASE s = i /\ Starts(i)
        BY <1>6, <4>1, <4>2
      <4>3. CASE s # i
        BY <1>6, <1>8, <2>3, <3>2, <4>1, <4>3
      <4>4. CASE s = i /\ ~Starts(i)
        <5>1. host.run[i] # None
          BY <1>5, <1>6, <1>7, <1>14, <4>4
        <5>2. i \in Active
          BY <1>5, <5>1 DEF Active, RunningOn
        <5> QED BY <1>6, <1>8, <4>1, <4>4, <5>2
      <4> QED BY <4>2, <4>3, <4>4
    <3>3. \A s \in Active' \ left'.run : s \in AllService
      BY <2>2 DEF Active, RunningOn
    <3> QED BY <2>2, <3>1, <3>2, <3>3
  <2>7. Active' = {s \in State.active : s < i + 1} \cup left.run
    BY <1>8, <2>3, <2>4
  <2>8. Restored'
    BY <1>2, <1>6, <1>8, <2>1, <2>2, <2>5, <2>6, <2>7 DEF Restored
  <2>9. Sound(h) /\ Settled(h)
    BY <1>12, <1>14
  <2> QED BY <1>2, <1>5, <1>11, <2>1, <2>8, <2>9, RestoreOk
<1>15. ASSUME i \in State.active, Fails("r_start", h) PROVE DeployInv'
  <2>1. Sound(h) /\ Settled(h)
    BY <1>12, <1>15
  <2> QED BY <1>2, <1>10, <1>15, <2>1, FailsKeeps
<1>16. ASSUME i \in State.active, GiveUp, host' = h,
              UNCHANGED <<config, store, op, snap, ops, kills, before, left>>
       PROVE  DeployInv'
  <2>1. Sound(host') /\ Settled(host') /\ Nginx(host')
    BY <1>10, <1>12, <1>16
  <2>2. Frame
    BY <1>3, <1>16 DEF Frame, NoneReturns
  <2> QED BY <1>2, <1>16, <2>1, <2>2, GiveUpKeeps
<1> QED BY <1>1, <1>13, <1>14, <1>15, <1>16

(* All services are up: the rollback goes on, a restored snapshot ends the  *)
(* run.                                                                     *)
LEMMA RestoreDoneKeeps ==
  ASSUME DeployInv, RestoreDone
  PROVE  DeployInv'
<1> USE FrameSame
<1>1. /\ pc = "r_start" /\ i > NAll /\ Frame /\ host' = host /\ from' = from /\ i' = 1
      /\ left' = left
      /\ \/ from = "saved" /\ pc' = "previous" /\ report' = report
         \/ from = "snap" /\ pc' = "idle" /\ report' = "restored"
  BY DEF RestoreDone, Exit, Frame, NoneReturns, DeployInv, Types
<1>2. pc \in RestoreCommands /\ pc \in Restoring /\ pc \in Running
  BY <1>1 DEF RestoreCommands, Restoring, Running
<1>3. /\ State \in StateRec /\ host \in HostRec /\ Sound(host) /\ Settled(host) /\ NAll \in Nat
      /\ SiteAt(host, pc, from)
  BY <1>2, RestoreFacts
<1>4. from' \in {"snap", "saved"} /\ Sound(host') /\ Settled(host')
  BY <1>1, <1>3 DEF DeployInv, Types
<1>5. /\ pc' \in {"idle"} \cup Activating \cup Restoring \cup {"previous"}
      /\ pc' = "idle" => report' \notin {"deployed", "rolledback"}
  BY <1>1
<1>6. /\ Types' /\ Taken' /\ RouterKept' /\ OnDisk'
      /\ kills' = 0 /\ ~Frontend' /\
              (pc' \in {"idle", "previous", "r_start"} => Settled(host')) => CoherentInv'
  BY <1>1, <1>2, <1>4, <1>5, FrameKeeps
<1>7. Index'
  BY <1>1 DEF Index
<1>8. Place'
  BY <1>1, <1>2 DEF Place, DeployInv, Frame, Activating, Restoring, RestoreCommands,
                    FrontendOnly, ModelOnly, Running
<1>9. Restored'
  BY <1>1 DEF Restored, RestoreCommands
<1>10. /\ \A s \in AllService : UnitBack(s)
       /\ host.enabled = State.enabled \cup left.enabled
       /\ State.release # None => host.current = State.release
       /\ Frontend => "bin" \in left.files \/ host.bin = State.bin
       /\ Frontend => "site" \in left.files \/ host.site = State.site
       /\ Active = State.active \cup left.run
       /\ \A s \in Active \ left.run : host.run[s] = RunsFrom(s)
  <2>1. /\ \A s \in AllService : UnitBack(s)
        /\ host.enabled = State.enabled \cup left.enabled
        /\ State.release # None => host.current = State.release
        /\ Frontend => "bin" \in left.files \/ host.bin = State.bin
        /\ Frontend => "site" \in left.files \/ host.site = State.site
        /\ Active = {s \in State.active : s < i} \cup left.run
        /\ \A s \in Active \ left.run : host.run[s] = RunsFrom(s)
    BY <1>1, <1>2 DEF DeployInv, RestoreInv, Restored
  <2>2. State.active \subseteq AllService
    BY <1>3 DEF StateRec
  <2>3. i \in 1 .. NAll + 1
    BY <1>1 DEF DeployInv, Index
  <2>4. \A s \in AllService : s < i
    BY <1>1, <1>3, <2>3, SMTT(60) DEF AllService
  <2>5. {s \in State.active : s < i} = State.active
    BY <2>2, <2>4
  <2> QED BY <2>1, <2>5
<1>11. RestoreInv'
  <2>1. Active' = Active /\ \A s \in AllService : RunsFrom(s)' = RunsFrom(s)
    BY <1>1 DEF Active, RunningOn, RunsFrom
  <2>2. snap # None
    BY <1>2 DEF DeployInv, Place
  <2>3. pc' = "idle" => State = snap /\ snap' = snap
    BY <1>1 DEF State, Frame
  <2>4. Nginx(host)' /\ SiteAt(host, pc, from)'
    <3>1. Nginx(host)
      BY <1>1, <1>2, <1>3 DEF SiteAt
    <3>2. pc' \notin Activating /\ pc' \notin EarlyRestore /\ pc' \notin Restoring
      BY <1>1 DEF Activating, EarlyRestore, Restoring, RestoreCommands
    <3>3. pc' # "reload"
      BY <1>1
    <3> QED BY <1>1, <3>1, <3>2, <3>3 DEF SiteAt, Nginx, Frame
  <2>5. Active \subseteq AllService
    BY DEF Active, RunningOn
  <2>6. \A s \in AllService :
          IF s \in left.unit THEN State.unit[s] = None ELSE host.unit[s] = State.unit[s]
    BY <1>10 DEF UnitBack
  <2>7. pc' = "idle" /\ report' = "restored" =>
         /\ snap' # None
         /\ snap'.release # None => host'.current = snap'.release
         /\ \A s \in AllService' :
              IF s \in left'.unit THEN snap'.unit[s] = None ELSE host'.unit[s] = snap'.unit[s]
         /\ host'.enabled = snap'.enabled \cup left'.enabled
         /\ Active' = snap'.active \cup left'.run
         /\ \A s \in Active' \ left'.run : host'.run[s] = RunsFrom(s)'
         /\ Frontend' => "bin" \in left'.files \/ host'.bin = snap'.bin
         /\ Frontend' => "site" \in left'.files \/ host'.site = snap'.site
    BY <1>1, <1>10, <2>1, <2>2, <2>3, <2>5, <2>6
  <2> QED BY <1>6, <1>9, <2>4, <2>7 DEF RestoreInv
<1>12. Activated'
  <2>1. pc' = "previous" => op' \notin DeployOp
    <3>1. from = "saved" => op \notin DeployOp
      BY <1>2 DEF DeployInv, Place, RollbackOp, DeployOp
    <3> QED BY <1>1, <3>1 DEF Frame
  <2> QED BY <1>1, <2>1 DEF Activated, Ending
<1> QED BY <1>1, <1>4, <1>6, <1>7, <1>8, <1>11, <1>12 DEF DeployInv

-----------------------------------------------------------------------------
(* The end of a run: the host stays, and of the store the releases that the *)
(* link and the snapshot name.                                              *)
LEMMA EndKeeps ==
  ASSUME DeployInv, pc \in Ending,
         UNCHANGED <<config, host, op, snap, from, ops, kills, before, left>>, i' = 1,
         store' \in StoreRec,
         store'.saved \in {store.saved, None, snap},
         store'.savedNext \in {store.savedNext, None, snap},
         \/ store'.disk = store.disk
         \/ /\ pc' = "idle" /\ store'.saved = snap
            /\ {host.current, snap.release} \cap store.disk \subseteq store'.disk,
         \/ pc' \in Ending
         \/ pc' = "idle" /\ report' = "exited"
         \/ pc' = "idle" /\ report' = "deployed" /\ op \in DeployOp /\ store'.saved = snap
         \/ pc' = "idle" /\ report' = "rolledback" /\ store'.saved = snap,
         pc' \in {"save", "drop", "keep", "prune"} => store'.previous = snap.release,
         pc' \in {"drop", "keep"} => store'.savedNext = snap,
         pc' = "prune" => store'.saved = snap
  PROVE  DeployInv'
<1>1. /\ (Frontend <=> Frontend') /\ NAll' = NAll /\ AllService' = AllService /\ Service' = Service
      /\ Active' = Active
  BY DEF Frontend, NAll, AllService, Service, Active, RunningOn
<1>2. pc \in Running /\ snap # None /\ op \in DeployOp \cup RollbackOp
  BY DEF Running, DeployInv, Place
<1>3. /\ pc' \in Ending \cup {"idle"} /\ pc' \notin Activating /\ pc' \notin Restoring
      /\ pc' \notin RestoreCommands /\ pc' \notin FrontendOnly /\ pc' \notin ModelOnly
      /\ pc' \notin EarlyRestore
      /\ pc' \notin {"stage", "snapshot", "units", "start", "r_unit", "r_start", "stop"}
      /\ pc' \notin {"enable", "link", "r_enable", "r_link", "r_bin", "r_site", "r_reload"}
      /\ pc' \notin {"disable", "bin", "site", "reload", "r_daemon"}
      /\ pc' = "idle" => report' \in {"exited", "deployed", "rolledback"}
      /\ pc' = "idle" /\ report' = "deployed" => op \in DeployOp
  BY DEF Ending, Activating, Restoring, RestoreCommands, FrontendOnly, ModelOnly, EarlyRestore
<1>4. Types'
  <2>1. /\ HostRec' = HostRec /\ StateRec' = StateRec /\ StoreRec' = StoreRec
        /\ LeftRec' = LeftRec
    BY <1>1 DEF HostRec, StoreRec, StateRec, LeftRec, Unit
  <2> QED BY <1>3, <2>1 DEF DeployInv, Types, Before, Running
<1>5. Index'
  BY <1>3 DEF Index
<1>6. Place'
  BY <1>2, <1>3 DEF Place
<1>7. Restored'
  BY <1>3 DEF Restored
<1>8. RouterKept'
  BY <1>1, <1>2, <1>3 DEF DeployInv, RestoreInv, RouterKept
<1>9. Taken'
  BY <1>1 DEF DeployInv, Taken, HostRec, Unit, StateFrom, RunningOn
<1>10. RestoreInv'
  <2>1. SiteAt(host, pc, from)'
    BY <1>3 DEF SiteAt
  <2> QED BY <1>3, <1>7, <1>8, <2>1 DEF RestoreInv
<1>11. Activated'
  <2>1. op \in DeployOp => Serves
    BY <1>1 DEF DeployInv, Activated
  <2>2. Serves => Serves'
    BY <1>1 DEF Serves
  <2> QED BY <1>1, <1>3, <2>1, <2>2 DEF Activated
<1>12. /\ host.current \in Release => host.current \in store'.disk
       /\ snap.release \in Release => snap.release \in store'.disk
  BY <1>2 DEF DeployInv, OnDisk
<1>13. OnDisk'
  <2>1. pc' # "idle" /\ op \in DeployOp => op.target \in store'.disk
    BY <1>2 DEF DeployInv, OnDisk
  <2>2. store'.saved # None /\ store'.saved.release \in Release => store'.saved.release \in store'.disk
    BY <1>12 DEF DeployInv, OnDisk
  <2>3. Done' => store'.saved # None
    BY <1>2, <1>3 DEF Done, Ending
  <2>4. pc' \in Running \cup {"snapshot"} => pc' # "idle"
    BY DEF Running, Activating, Restoring, RestoreCommands, Ending
  <2> QED BY <1>12, <2>1, <2>2, <2>3, <2>4 DEF OnDisk
<1>14. ASSUME kills' = 0, ~Frontend' PROVE CoherentInv'
  <2>1. CoherentInv /\ kills = 0 /\ ~Frontend
    BY <1>1, <1>14 DEF DeployInv
  <2>2. \A s \in Active \ left.astray :
          host.run[s] = host.current /\ host.unit[s] = host.current
    BY <2>1 DEF CoherentInv
  <2>3. \A s \in Active \ left.astray : host.run[s] \in store'.disk
    <3>1. store.disk \subseteq Release
      BY DEF DeployInv, Types, StoreRec
    <3> QED BY <1>12, <2>1, <2>2, <3>1 DEF CoherentInv
  <2>4. Coherent(snap) /\ (store.saved # None => Coherent(store.saved))
    BY <1>2, <2>1 DEF CoherentInv
  <2>5. store'.saved # None => Coherent(store'.saved)
    BY <2>4
  <2> QED BY <1>1, <2>2, <2>3, <2>4, <2>5 DEF CoherentInv, Coherent
<1> QED BY <1>4, <1>5, <1>6, <1>9, <1>10, <1>11, <1>13, <1>14 DEF DeployInv

(* At the end of a run there is a snapshot.                                 *)
LEMMA EndFacts ==
  ASSUME DeployInv, pc \in Ending
  PROVE  store \in StoreRec /\ snap \in StateRec /\ i = 1 /\ snap.release \in Link
<1>1. pc \in Running /\ pc \notin {"units", "start", "r_unit", "r_start"}
  BY DEF Running, Ending
<1>2. snap \in StateRec
  BY <1>1 DEF DeployInv, Place, Types
<1> QED BY <1>1, <1>2 DEF DeployInv, Index, Types, StateRec

(* The link previous.                                                       *)
LEMMA LinkPreviousKeeps ==
  ASSUME DeployInv, LinkPrevious
  PROVE  DeployInv'
<1> DEFINE t == [store EXCEPT !.previous = snap.release]
<1>1. /\ pc = "previous" /\ store' \in {store, t}
      /\ UNCHANGED <<config, host, op, snap, from, ops, kills, before, left>>
      /\ \/ store' = t /\ pc' = "save" /\ i' = i
         \/ pc' = "idle" /\ report' = "exited" /\ i' = 1
  BY DEF LinkPrevious, EndCmd, Exit
<1>2. pc \in Ending /\ "save" \in Ending
  BY <1>1 DEF Ending
<1>3. store \in StoreRec /\ i = 1 /\ snap.release \in Link
  BY <1>2, EndFacts
<1>4. /\ t \in StoreRec /\ t.disk = store.disk /\ t.saved = store.saved
      /\ t.savedNext = store.savedNext /\ t.previous = snap.release
  BY <1>3 DEF StoreRec
<1> HIDE DEF t
<1>5. /\ store' \in StoreRec /\ store'.disk = store.disk /\ store'.saved = store.saved
      /\ store'.savedNext = store.savedNext
  BY <1>1, <1>3, <1>4
<1> QED BY <1>1, <1>2, <1>3, <1>4, <1>5, EndKeeps

(* save_previous_state: the copy of the snapshot.                           *)
LEMMA SaveNextKeeps ==
  ASSUME DeployInv, SaveNext
  PROVE  DeployInv'
<1> DEFINE t == [store EXCEPT !.savedNext = snap]
<1>1. /\ pc = "save" /\ store' \in {store, t}
      /\ UNCHANGED <<config, host, op, snap, from, ops, kills, before, left>>
      /\ \/ store' = t /\ pc' = "drop" /\ i' = i
         \/ pc' = "idle" /\ report' = "exited" /\ i' = 1
  BY DEF SaveNext, EndCmd, Exit
<1>2. pc \in Ending /\ "drop" \in Ending
  BY <1>1 DEF Ending
<1>3. store \in StoreRec /\ i = 1 /\ snap \in StateRec
  BY <1>2, EndFacts
<1>4. /\ t \in StoreRec /\ t.disk = store.disk /\ t.saved = store.saved
      /\ t.savedNext = snap /\ t.previous = store.previous
  BY <1>3 DEF StoreRec
<1> HIDE DEF t
<1>5. /\ store' \in StoreRec /\ store'.disk = store.disk /\ store'.saved = store.saved
      /\ store'.savedNext \in {store.savedNext, snap}
  BY <1>1, <1>3, <1>4
<1>6. store.previous = snap.release
  BY <1>1 DEF DeployInv, OnDisk
<1> QED BY <1>1, <1>2, <1>3, <1>4, <1>5, <1>6, EndKeeps

(* save_previous_state: the old state is removed.                           *)
LEMMA DropPreviousKeeps ==
  ASSUME DeployInv, DropPrevious
  PROVE  DeployInv'
<1> DEFINE t == [store EXCEPT !.saved = None]
<1>1. /\ pc = "drop" /\ store' \in {store, t}
      /\ UNCHANGED <<config, host, op, snap, from, ops, kills, before, left>>
      /\ \/ store' = t /\ pc' = "keep" /\ i' = i
         \/ pc' = "idle" /\ report' = "exited" /\ i' = 1
  BY DEF DropPrevious, EndCmd, Exit
<1>2. pc \in Ending /\ "keep" \in Ending
  BY <1>1 DEF Ending
<1>3. store \in StoreRec /\ i = 1
  BY <1>2, EndFacts
<1>4. /\ t \in StoreRec /\ t.disk = store.disk /\ t.saved = None
      /\ t.savedNext = store.savedNext /\ t.previous = store.previous
  BY <1>3 DEF StoreRec
<1> HIDE DEF t
<1>5. /\ store' \in StoreRec /\ store'.disk = store.disk /\ store'.saved \in {store.saved, None}
      /\ store'.savedNext = store.savedNext
  BY <1>1, <1>3, <1>4
<1>6. store.previous = snap.release /\ store.savedNext = snap
  BY <1>1 DEF DeployInv, OnDisk
<1> QED BY <1>1, <1>2, <1>3, <1>4, <1>5, <1>6, EndKeeps

(* save_previous_state: the copy takes its place.                           *)
LEMMA KeepNextKeeps ==
  ASSUME DeployInv, KeepNext
  PROVE  DeployInv'
<1> DEFINE t == [store EXCEPT !.saved = store.savedNext, !.savedNext = None]
<1>1. /\ pc = "keep" /\ store' \in {store, t}
      /\ UNCHANGED <<config, host, op, snap, from, ops, kills, before, left>>
      /\ \/ store' = t /\ pc' = "prune" /\ i' = i
         \/ pc' = "idle" /\ report' = "exited" /\ i' = 1
  BY DEF KeepNext, EndCmd, Exit
<1>2. pc \in Ending /\ "prune" \in Ending
  BY <1>1 DEF Ending
<1>3. store \in StoreRec /\ i = 1
  BY <1>2, EndFacts
<1>4. /\ t \in StoreRec /\ t.disk = store.disk /\ t.saved = store.savedNext
      /\ t.savedNext = None /\ t.previous = store.previous
  BY <1>3 DEF StoreRec
<1> HIDE DEF t
<1>5. store.previous = snap.release /\ store.savedNext = snap
  BY <1>1 DEF DeployInv, OnDisk
<1>6. /\ store' \in StoreRec /\ store'.disk = store.disk /\ store'.saved \in {store.saved, snap}
      /\ store'.savedNext \in {store.savedNext, None}
  BY <1>1, <1>3, <1>4, <1>5
<1> QED BY <1>1, <1>2, <1>3, <1>4, <1>5, <1>6, EndKeeps

(* prune_releases keeps the releases that the link and the snapshot name.   *)
LEMMA PruneKeeps ==
  ASSUME DeployInv, Prune
  PROVE  DeployInv'
<1>1. /\ pc = "prune" /\ pc' = "idle" /\ i' = 1
      /\ UNCHANGED <<config, host, op, snap, from, ops, kills, before, left>>
      /\ report' \in {"exited", IF op.kind = "deploy" THEN "deployed" ELSE "rolledback"}
  BY DEF Prune, Exit
<1>2. pc \in Ending
  BY <1>1 DEF Ending
<1>3. store \in StoreRec /\ store.disk \subseteq Release
  <2>1. store \in StoreRec
    BY <1>2, EndFacts
  <2> QED BY <2>1 DEF StoreRec
<1>4. store.previous = snap.release /\ store.saved = snap
  BY <1>1 DEF DeployInv, OnDisk
<1>5. {host.current, snap.release} \cap store.disk \subseteq Linked
  <2>1. Self \notin Release
    BY DeployAssumption
  <2> QED BY <1>3, <1>4, <2>1 DEF Linked, Target
<1>6. /\ store' \in StoreRec /\ store'.saved = store.saved /\ store'.savedNext = store.savedNext
      /\ {host.current, snap.release} \cap store.disk \subseteq store'.disk
  <2>1. CASE store' = store
    BY <1>3, <2>1
  <2>2. ASSUME store' = [store EXCEPT !.disk = @ \cap Linked, !.partial = IF Frontend THEN @ ELSE {}]
        PROVE  /\ store' \in StoreRec /\ store'.saved = store.saved
               /\ store'.savedNext = store.savedNext /\ store'.disk = store.disk \cap Linked
    BY <1>3, <2>2 DEF StoreRec
  <2>3. ASSUME NEW gone \in SUBSET (store.disk \ Linked), store' = [store EXCEPT !.disk = @ \ gone]
        PROVE  /\ store' \in StoreRec /\ store'.saved = store.saved
               /\ store'.savedNext = store.savedNext /\ store'.disk = store.disk \ gone
    BY <1>3, <2>3 DEF StoreRec
  <2> QED BY <1>5, <2>1, <2>2, <2>3 DEF Prune
<1>7. op.kind = "deploy" => op \in DeployOp
  <2>1. op \in DeployOp \cup RollbackOp
    BY <1>2 DEF DeployInv, Types, Place, Running
  <2> QED BY <2>1 DEF RollbackOp
<1> QED BY <1>1, <1>2, <1>4, <1>6, <1>7, EndKeeps

-----------------------------------------------------------------------------
(* Outside activation, restoration and the end of a run the host stays, and *)
(* no release is removed.                                                   *)
LEMMA BeforeKeeps ==
  ASSUME DeployInv, UNCHANGED <<config, host, snap, from, before, left>>, i' = 1,
         op' \in DeployOp \cup RollbackOp \cup {None},
         store' \in StoreRec, store.disk \subseteq store'.disk,
         store'.saved = store.saved, store'.savedNext = store.savedNext,
         pc' \in Before,
         pc' = "idle" => report' \in {"exited", "killed"},
         pc' = "stage" => op' \in DeployOp,
         pc' = "snapshot" => op' \in DeployOp \cup RollbackOp,
         pc' = "snapshot" /\ op' \in RollbackOp => store.saved # None,
         pc' = "snapshot" /\ op' \in DeployOp => op'.target \in store'.disk,
         kills' \in Nat, kills' = 0 => kills = 0 /\ pc \in Before
  PROVE  DeployInv'
<1>1. /\ (Frontend <=> Frontend') /\ NAll' = NAll /\ AllService' = AllService /\ Service' = Service
      /\ Active' = Active
  BY DEF Frontend, NAll, AllService, Service, Active, RunningOn
<1>2. /\ pc' \notin Running /\ pc' \notin Activating /\ pc' \notin Restoring
      /\ pc' \notin RestoreCommands /\ pc' \notin FrontendOnly /\ pc' \notin Ending
      /\ pc' \notin ModelOnly /\ pc' \notin EarlyRestore
      /\ pc' \notin {"units", "start", "r_unit", "r_start", "stop"}
      /\ pc' \notin {"enable", "link", "r_enable", "r_link", "r_bin", "r_site", "r_reload"}
      /\ pc' \notin {"disable", "bin", "site", "reload", "r_daemon"}
  BY DEF Before, Ending, Activating, Restoring, RestoreCommands, FrontendOnly, ModelOnly,
         EarlyRestore, Running
<1>3. Types'
  <2>1. /\ HostRec' = HostRec /\ StateRec' = StateRec /\ StoreRec' = StoreRec
        /\ LeftRec' = LeftRec
    BY <1>1 DEF HostRec, StoreRec, StateRec, LeftRec, Unit
  <2> QED BY <2>1 DEF DeployInv, Types
<1>4. Index'
  BY <1>2 DEF Index
<1>5. Place'
  BY <1>2 DEF Place
<1>6. Restored'
  BY <1>2 DEF Restored
<1>7. RouterKept'
  BY <1>2 DEF RouterKept
<1>8. Taken'
  BY <1>1 DEF DeployInv, Taken, HostRec, Unit, StateFrom, RunningOn
<1>9. RestoreInv'
  <2>1. SiteAt(host, pc, from)'
    BY <1>2 DEF SiteAt
  <2> QED BY <1>2, <1>6, <1>7, <2>1 DEF RestoreInv
<1>10. Activated'
  BY <1>2 DEF Activated
<1>11. OnDisk'
  <2>1. ~Done' /\ pc' \notin {"save", "drop", "keep", "prune"}
    BY <1>2 DEF Done, Ending
  <2> QED BY <1>2, <2>1 DEF DeployInv, OnDisk
<1>12. ASSUME kills' = 0, ~Frontend' PROVE CoherentInv'
  <2>1. CoherentInv /\ pc \in Before
    BY <1>1, <1>12 DEF DeployInv
  <2> QED BY <1>1, <1>2, <2>1 DEF CoherentInv, Coherent
<1> QED BY <1>3, <1>4, <1>5, <1>8, <1>9, <1>10, <1>11, <1>12 DEF DeployInv

(* A deployment begins.                                                     *)
(* A deployment begins.                                                     *)
LEMMA DeployKeeps ==
  ASSUME DeployInv, NEW r \in Release, Deploy(r)
  PROVE  DeployInv'
<1>1. /\ pc = "idle" /\ pc' = "stage" /\ UNCHANGED <<config, host, store, i, snap, from, kills, before, left>>
      /\ op' = [kind |-> "deploy", target |-> r]
  BY DEF Deploy
<1>2. i = 1 /\ store \in StoreRec /\ kills \in Nat
  BY <1>1 DEF DeployInv, Index, Types
<1>3. op' \in DeployOp
  BY <1>1 DEF DeployOp
<1>4. pc \in Before /\ pc' \in Before /\ pc' # "idle" /\ pc' # "snapshot"
  BY <1>1 DEF Before
<1> QED BY <1>1, <1>2, <1>3, <1>4, BeforeKeeps

(* A rollback begins, or finds no saved state.                              *)
LEMMA RollbackKeeps ==
  ASSUME DeployInv, Rollback
  PROVE  DeployInv'
<1>1. /\ pc = "idle" /\ UNCHANGED <<config, host, store, snap, from, kills, before, left>>
      /\ op' = [kind |-> "rollback", target |-> None]
      /\ \/ pc' = "idle" /\ i' = 1 /\ report' = "exited"
         \/ pc' = "snapshot" /\ i' = i /\ store.saved # None
  BY DEF Rollback, Exit
<1>2. i = 1 /\ store \in StoreRec /\ kills \in Nat
  BY <1>1 DEF DeployInv, Index, Types
<1>3. op' \in RollbackOp /\ op' \notin DeployOp
  BY <1>1 DEF RollbackOp, DeployOp
<1>4. pc \in Before /\ pc' \in Before /\ pc' # "stage"
  BY <1>1 DEF Before
<1> QED BY <1>1, <1>2, <1>3, <1>4, BeforeKeeps

(* The release is staged, or the script exits.                              *)
LEMMA StageKeeps ==
  ASSUME DeployInv, Stage
  PROVE  DeployInv'
<1> DEFINE t == [store EXCEPT !.disk = @ \cup {op.target}]
           u == [store EXCEPT !.partial = @ \cup {op.target}]
<1>1. /\ pc = "stage" /\ UNCHANGED <<config, host, op, snap, from, kills, before, left>>
      /\ \/ store' = t /\ pc' = "snapshot" /\ i' = i
         \/ store' \in {store, u} /\ pc' = "idle" /\ i' = 1 /\ report' = "exited"
  BY DEF Stage, Exit
<1>2. i = 1 /\ store \in StoreRec /\ kills \in Nat /\ op \in DeployOp
  BY <1>1 DEF DeployInv, Index, Types, Place
<1>3. op.target \in Release /\ op \notin RollbackOp
  BY <1>2 DEF DeployOp, RollbackOp
<1>4. /\ t \in StoreRec /\ t.disk = store.disk \cup {op.target}
      /\ t.saved = store.saved /\ t.savedNext = store.savedNext
  BY <1>2, <1>3 DEF StoreRec
<1>5. /\ u \in StoreRec /\ u.disk = store.disk
      /\ u.saved = store.saved /\ u.savedNext = store.savedNext
  BY <1>2, <1>3 DEF StoreRec
<1> HIDE DEF t, u
<1>6. /\ store' \in StoreRec /\ store.disk \subseteq store'.disk
      /\ store'.saved = store.saved /\ store'.savedNext = store.savedNext
      /\ pc' = "snapshot" => op.target \in store'.disk
  BY <1>1, <1>2, <1>4, <1>5
<1>7. pc \in Before /\ pc' \in Before /\ pc' # "stage"
  BY <1>1 DEF Before
<1> QED BY <1>1, <1>2, <1>3, <1>6, <1>7, BeforeKeeps

(* The script is killed.                                                    *)
LEMMA KillKeeps ==
  ASSUME DeployInv, Kill
  PROVE  DeployInv'
<1> DEFINE u == [store EXCEPT !.partial = @ \cup {op.target}]
<1>1. /\ UNCHANGED <<config, host, op, snap, from, before, left>> /\ kills' = kills + 1
      /\ pc' = "idle" /\ i' = 1 /\ report' = "killed"
      /\ store' = store \/ (store' = u /\ pc = "stage")
  BY DEF Kill, Exit
<1>2. store \in StoreRec /\ kills \in Nat /\ op \in DeployOp \cup RollbackOp \cup {None}
  BY DEF DeployInv, Types
<1>3. kills' \in Nat /\ kills' # 0
  BY <1>1, <1>2, SMTT(60)
<1>4. ASSUME pc = "stage"
      PROVE  /\ u \in StoreRec /\ u.disk = store.disk
             /\ u.saved = store.saved /\ u.savedNext = store.savedNext
  <2>1. op \in DeployOp
    BY <1>4 DEF DeployInv, Place
  <2>2. op.target \in Release
    BY <2>1 DEF DeployOp
  <2> QED BY <1>2, <2>2 DEF StoreRec
<1> HIDE DEF u
<1>5. /\ store' \in StoreRec /\ store.disk \subseteq store'.disk
      /\ store'.saved = store.saved /\ store'.savedNext = store.savedNext
  BY <1>1, <1>2, <1>4
<1>6. pc' \in Before /\ pc' \notin {"stage", "snapshot"}
  BY <1>1 DEF Before
<1> QED BY <1>1, <1>2, <1>3, <1>5, <1>6, BeforeKeeps

(* snapshot_deployment_state: what it reads of a settled host is coherent.  *)
LEMMA SnapshotKeeps ==
  ASSUME DeployInv, Snapshot
  PROVE  DeployInv'
<1> DEFINE t == StateFrom(host)
<1>1. /\ pc = "snapshot" /\ i = 1 /\ pc \in Before
      /\ UNCHANGED <<config, host, store, op, ops, kills, left>>
  BY DEF Snapshot, DeployInv, Index, Before
<1>2. host \in HostRec /\ store \in StoreRec /\ op \in DeployOp \cup RollbackOp /\ kills \in Nat
  BY <1>1 DEF DeployInv, Types, Place
<1>3. ASSUME UNCHANGED <<snap, before, from>>, pc' = "idle", i' = 1, report' = "exited"
      PROVE  DeployInv'
  <2>1. pc' \in Before /\ pc' # "stage" /\ pc' # "snapshot"
    BY <1>3 DEF Before
  <2> QED BY <1>1, <1>2, <1>3, <2>1, BeforeKeeps
<1>4. ASSUME snap' = t, before' = host, i' = i, report' = report,
             \/ op.kind = "rollback" /\ pc' = "r_stop" /\ from' = "saved"
             \/ op.kind # "rollback" /\ pc' = (IF Frontend THEN "link" ELSE "units") /\ from' = from
      PROVE  DeployInv'
  <2>1. \/ op \in RollbackOp /\ pc' = "r_stop" /\ from' = "saved"
        \/ op \in DeployOp /\ ~Frontend /\ pc' = "units" /\ from' = from
        \/ op \in DeployOp /\ Frontend /\ pc' = "link" /\ from' = from
    <3>1. (op.kind = "rollback" => op \in RollbackOp) /\ (op.kind # "rollback" => op \in DeployOp)
      BY <1>2 DEF DeployOp, RollbackOp
    <3> QED BY <1>4, <3>1
  <2>2. /\ t.release = ReadLink(host.current) /\ t.unit = host.unit /\ t.enabled = host.enabled
        /\ t.active = Active /\ t.bin = host.bin /\ t.site = host.site
    BY DEF StateFrom, Active
  <2>3. t \in StateRec
    <3>1. ReadLink(host.current) \in Link
      BY <1>2 DEF HostRec, Link, ReadLink
    <3>2. /\ host.unit \in Unit /\ host.enabled \in SUBSET AllService
          /\ host.bin \in Release \cup {None} /\ host.site \in Release \cup {None}
      BY <1>2 DEF HostRec
    <3>3. RunningOn(host) \in SUBSET AllService
      BY DEF RunningOn
    <3> QED BY <3>1, <3>2, <3>3 DEF StateRec, StateFrom
  <2>4. t # None
    <3>1. None \notin StateOf(config.all)
      BY DeployAssumption DEF DeployInv, Types
    <3> QED BY <2>3, <3>1 DEF StateRec, StateOf, Link, Unit, AllService, NAll
  <2>5. t.release \in Release => host.current = t.release
    <3>1. None \notin Release /\ Self \notin Release
      BY DeployAssumption
    <3>2. CASE host.current \in Release
      BY <2>2, <3>1, <3>2 DEF ReadLink
    <3>3. CASE host.current \in {None, Self}
      BY <2>2, <3>1, <3>3, DeployAssumption DEF ReadLink
    <3> QED BY <1>2, <3>2, <3>3 DEF HostRec, Link
  <2>6. /\ (Frontend <=> Frontend') /\ NAll' = NAll /\ AllService' = AllService /\ Service' = Service
        /\ Active' = Active
    BY <1>1 DEF Frontend, NAll, AllService, Service, Active, RunningOn
  <2>7. /\ pc' \notin Before /\ pc' \notin Ending /\ pc' \in Running /\ pc' \notin RestoreCommands
        /\ pc' \notin FrontendOnly /\ pc' \notin ModelOnly
        /\ pc' # "idle" /\ pc' \in {"r_stop", "units", "link"}
        /\ pc' \in Restoring => pc' = "r_stop"
        /\ pc' \in Activating => pc' \in {"units", "link"}
    BY <2>1 DEF Before, Running, Ending, Restoring, RestoreCommands, Activating, FrontendOnly,
                ModelOnly
  <2>8. Types'
    <3>1. /\ HostRec' = HostRec /\ StateRec' = StateRec /\ StoreRec' = StoreRec
          /\ LeftRec' = LeftRec
      BY <2>6 DEF HostRec, StoreRec, StateRec, LeftRec, Unit
    <3>2. from' \in {"snap", "saved"} /\ snap' \in StateRec /\ before' \in HostRec
      BY <1>2, <1>4, <2>1, <2>3 DEF DeployInv, Types
    <3> QED BY <1>1, <2>7, <3>1, <3>2 DEF DeployInv, Types
  <2>9. 1 \in Service /\ \A s \in Service : ~(s < 1)
    <3>1. 1 \in Service
      BY ConfigFacts DEF DeployInv
    <3>2. \A s \in Service : ~(s < 1)
      BY SMTT(60) DEF Service
    <3> QED BY <3>1, <3>2
  <2>10. Index'
    BY <1>1, <1>4, <2>1, <2>6, <2>9 DEF Index
  <2>11. Place'
    <3>1. op \in RollbackOp => store.saved # None
      BY <1>1 DEF DeployInv, Place
    <3>2. op \in RollbackOp => op \notin DeployOp
      BY DEF RollbackOp, DeployOp
    <3> QED BY <1>1, <1>2, <1>4, <2>1, <2>4, <2>7, <3>1, <3>2 DEF Place, Before
  <2>12. Taken'
    <3>1. StateFrom(before)' = t /\ HostRec' = HostRec
      BY <1>4, <2>6 DEF StateFrom, RunningOn, HostRec, Unit
    <3> QED BY <1>2, <1>4, <3>1 DEF Taken
  <2>13. RestoreInv'
    <3>1. Restored'
      BY <2>7 DEF Restored, RestoreCommands
    <3>2. RouterKept'
      BY <1>1, <1>4 DEF RouterKept
    <3>3. SiteAt(host, pc, from)'
      BY <1>1, <1>4, <2>7 DEF SiteAt, Nginx
    <3> QED BY <2>7, <3>1, <3>2, <3>3 DEF RestoreInv
  <2>14. Activated'
    <3>1. pc' = "units" => ~Frontend' /\ i' = 1
      BY <1>1, <1>4, <2>1, <2>6
    <3>2. pc' = "link" => Frontend'
      BY <2>1, <2>6
    <3> QED BY <2>6, <2>7, <2>9, <3>1, <3>2 DEF Activated
  <2>15. OnDisk'
    <3>1. ~Done' /\ pc' \notin {"save", "drop", "keep", "prune"}
      BY <2>7 DEF Done, Ending
    <3> QED BY <1>1, <1>4, <2>5, <3>1 DEF DeployInv, OnDisk
  <2>16. ASSUME kills' = 0, ~Frontend' PROVE CoherentInv'
    <3>1. CoherentInv
      BY <1>1, <2>6, <2>16 DEF DeployInv
    <3>2. /\ \A s \in Active \ left.astray : host.run[s] \in store.disk
          /\ \A s \in Active \ left.astray :
               host.run[s] = host.current /\ host.unit[s] = host.current
          /\ store.saved # None => Coherent(store.saved)
      BY <1>1, <3>1 DEF CoherentInv
    <3>3. store.disk \subseteq Release
      BY <1>2 DEF StoreRec
    <3>4. Coherent(t)
      <4>1. ASSUME NEW s \in Active \ left.astray
            PROVE  host.unit[s] = t.release /\ t.release \in Release
        <5>1. host.current \in Release
          BY <3>2, <3>3
        <5>2. ReadLink(host.current) = host.current
          BY <5>1, DeployAssumption DEF ReadLink
        <5> QED BY <2>2, <3>2, <5>1, <5>2
      <4> QED BY <2>2, <4>1 DEF Coherent
    <3> HIDE DEF t
    <3>5. Coherent(snap)' /\ (store'.saved # None => Coherent(store.saved)')
      BY <1>1, <1>4, <3>2, <3>4 DEF Coherent
    <3> QED BY <1>1, <2>6, <2>7, <3>2, <3>5 DEF CoherentInv
  <2> QED BY <2>8, <2>10, <2>11, <2>12, <2>13, <2>14, <2>15, <2>16 DEF DeployInv
<1> QED BY <1>3, <1>4 DEF Snapshot, Exit

-----------------------------------------------------------------------------
(* The invariant holds initially.                                           *)
LEMMA InitDeployInv ==
  ASSUME Init
  PROVE  DeployInv
<1>1. PICK serving \in IF Deployed = None THEN {{}} ELSE (SUBSET AllService) \ {{}} :
        LET units == [s \in AllService |-> IF s \in serving THEN Deployed ELSE None]
            router == IF Frontend THEN Deployed ELSE None
        IN  host = [current |-> Deployed, unit |-> units, enabled |-> serving,
                    run |-> units, bin |-> router, site |-> router, loaded |-> router]
  BY DEF Init
<1> DEFINE units == [s \in AllService |-> IF s \in serving THEN Deployed ELSE None]
           router == IF Frontend THEN Deployed ELSE None
<1>2. host = [current |-> Deployed, unit |-> units, enabled |-> serving,
              run |-> units, bin |-> router, site |-> router, loaded |-> router]
  BY <1>1
<1>3. serving \in SUBSET AllService /\ (Deployed = None => serving = {})
  OBVIOUS
<1>4. Deployed \in Release \cup {None} /\ None \notin Release
  <2>1. config \in [frontend : BOOLEAN, redeploy : BOOLEAN, all : Nat,
                    deployed : Release \cup {None}, faults : Nat, kills : Nat]
    BY DeployAssumption DEF Init
  <2>2. config.deployed \in Release \cup {None}
    BY <2>1
  <2> QED BY <2>2, DeployAssumption DEF Deployed
<1>5. units \in Unit /\ router \in Release \cup {None}
  BY <1>4 DEF Unit
<1>6. \A s \in AllService : units[s] = IF s \in serving THEN Deployed ELSE None
  OBVIOUS
<1> HIDE DEF units, router
<1>7. host \in HostRec /\ host.current = Deployed /\ host.unit = units /\ host.run = units
  BY <1>2, <1>3, <1>4, <1>5 DEF HostRec, Link
<1>8. store = [disk |-> {Deployed} \ {None}, partial |-> {},
               previous |-> None, saved |-> None, savedNext |-> None]
  BY DEF Init
<1>9. /\ store \in StoreRec /\ store.disk = {Deployed} \ {None}
      /\ store.saved = None /\ store.savedNext = None
  BY <1>4, <1>8 DEF StoreRec, Link
<1>10. /\ config \in Configs /\ pc = "idle" /\ i = 1 /\ op = None /\ snap = None /\ from = "snap"
       /\ report = "none" /\ kills = 0 /\ before = None
       /\ left = [run |-> {}, astray |-> {}, enabled |-> {}, unit |-> {}, files |-> {}]
  BY DEF Init
<1>11. /\ pc \notin Running /\ pc \notin Ending /\ pc \notin RestoreCommands /\ pc \notin Restoring
       /\ pc \notin Activating /\ pc \notin FrontendOnly /\ pc \notin ModelOnly
       /\ pc \notin EarlyRestore /\ pc \in Before
  BY <1>10 DEF Running, Activating, Restoring, RestoreCommands, Ending, FrontendOnly, ModelOnly,
               EarlyRestore, Before
<1>12. left \in LeftRec /\ left.run \subseteq left.astray
  BY <1>10 DEF LeftRec
<1>13. Types
  <2>1. 0 \in Nat
    BY SMTT(60)
  <2> QED BY <1>7, <1>9, <1>10, <1>11, <1>12, <2>1 DEF Types
<1>14. Index /\ Place /\ Taken
  BY <1>10, <1>11 DEF Index, Place, Taken
<1>15. RestoreInv
  <2>1. SiteAt(host, pc, from)
    BY <1>10, <1>11 DEF SiteAt
  <2> QED BY <1>10, <1>11, <2>1 DEF RestoreInv, Restored, RouterKept, RestoreCommands
<1>16. Activated
  BY <1>10, <1>11 DEF Activated
<1>17. OnDisk
  BY <1>4, <1>7, <1>9, <1>10, <1>11 DEF OnDisk, Done
<1>18. CoherentInv
  <2>1. \A s \in Active : units[s] = Deployed /\ Deployed # None
    BY <1>6, <1>7 DEF Active, RunningOn
  <2> QED BY <1>7, <1>9, <1>11, <2>1 DEF CoherentInv
<1> QED BY <1>13, <1>14, <1>15, <1>16, <1>17, <1>18 DEF DeployInv

(* A stuttering step keeps the invariant.                                   *)
LEMMA StutterDeployInv ==
  ASSUME DeployInv, UNCHANGED vars
  PROVE  DeployInv'
<1>1. UNCHANGED <<config, host, store, pc, i, op, snap, from, report, kills, before, left>>
  BY DEF vars, script
<1>2. /\ (Frontend <=> Frontend') /\ NAll' = NAll /\ AllService' = AllService /\ Service' = Service
      /\ Active' = Active /\ State' = State
      /\ \A s \in AllService : RunsFrom(s)' = RunsFrom(s) /\ (UnitBack(s)' <=> UnitBack(s))
  BY <1>1 DEF Frontend, NAll, AllService, Service, Active, RunningOn, State, RunsFrom, UnitBack
<1>3. Types'
  <2>1. /\ HostRec' = HostRec /\ StateRec' = StateRec /\ StoreRec' = StoreRec
        /\ LeftRec' = LeftRec
    BY <1>2 DEF HostRec, StoreRec, StateRec, LeftRec, Unit
  <2> QED BY <1>1, <2>1 DEF DeployInv, Types
<1>4. Index' /\ Place'
  BY <1>1, <1>2 DEF DeployInv, Index, Place
<1>5. Restored'
  BY <1>1, <1>2 DEF DeployInv, RestoreInv, Restored, Active, RunningOn
<1>6. RouterKept' /\ Taken' /\ SiteAt(host, pc, from)' /\ Nginx(host)' = Nginx(host)
  BY <1>1, <1>2 DEF DeployInv, RestoreInv, RouterKept, Taken, SiteAt, Nginx, StateFrom,
                    RunningOn, HostRec, Unit
<1>7. RestoreInv'
  BY <1>1, <1>2, <1>5, <1>6 DEF DeployInv, RestoreInv, Active, RunningOn
<1>8. Activated'
  BY <1>1, <1>2 DEF DeployInv, Activated, Serves
<1>9. OnDisk'
  BY <1>1 DEF DeployInv, OnDisk, Done
<1>10. CoherentInv => CoherentInv'
  BY <1>1, <1>2 DEF CoherentInv, Coherent
<1> QED BY <1>1, <1>2, <1>3, <1>4, <1>6, <1>7, <1>8, <1>9, <1>10 DEF DeployInv

(* Every step of the script keeps the invariant.                            *)
LEMMA NextDeployInv ==
  ASSUME DeployInv, Next
  PROVE  DeployInv'
<1>1. ASSUME Activate PROVE DeployInv'
  BY <1>1, InstallUnitKeeps, DisableServicesKeeps, EnableServicesKeeps, StopServicesKeeps,
     LinkCurrentKeeps, InstallRouterKeeps, StartServiceKeeps, InstallSiteKeeps,
     ReloadNginxKeeps DEF Activate
<1>2. ASSUME RestoreDeployment PROVE DeployInv'
  BY <1>2, RestoreStopKeeps, RestoreUnitKeeps, DaemonReloadKeeps, RestoreDisabledKeeps,
     RestoreEnabledKeeps, RestoreLinkKeeps, RestoreRouterKeeps, RestoreSiteKeeps,
     RestoreReloadKeeps, RestoreStartKeeps, RestoreDoneKeeps DEF RestoreDeployment
<1> QED BY <1>1, <1>2, DeployKeeps, RollbackKeeps, StageKeeps, SnapshotKeeps, LinkPreviousKeeps,
           SaveNextKeeps, DropPreviousKeeps, KeepNextKeeps, PruneKeeps, KillKeeps DEF Next

(* The invariant holds in every reachable state.                            *)
LEMMA DeployInvariant == Spec => []DeployInv
<1>1. DeployInv /\ [Next]_vars => DeployInv'
  BY NextDeployInv, StutterDeployInv
<1> QED BY <1>1, InitDeployInv, PTL DEF Spec

-----------------------------------------------------------------------------
(* On every host, whatever commands fail, ignored or not, and wherever the  *)
(* script is killed: when deploy_release or rollback_release reports that   *)
(* the previous deployment was restored, the host is as it was found but    *)
(* for what ignored failures of disable, stop and rm -f left undone.        *)
THEOREM RestoreIsExact == Spec => []RestoredExact
<1>1. ASSUME DeployInv PROVE RestoredExact
  <2>1. TypeOK
    <3>1. Types /\ Index
      BY <1>1 DEF DeployInv
    <3>2. StateRec = StateOf(NAll)
      BY DEF StateRec, StateOf, Link, Unit, AllService
    <3>3. i \in 1 .. NAll + 1
      <4>1. NAll \in Nat /\ NService \in Nat /\ 1 <= NService /\ NService <= NAll
        BY <3>1, ConfigFacts
      <4>2. i \in Service \/ i \in AllService \/ i \in 1 .. NAll + 1 \/ i = 1
        BY <3>1 DEF Index
      <4> QED BY <4>1, <4>2, SMTT(60) DEF Service, AllService
    <3> QED BY <3>1, <3>2, <3>3 DEF TypeOK, Types, HostRec, StoreRec, LeftRec, Link, Unit
  <2>2. ASSUME pc = "idle", report = "restored"
        PROVE  /\ before.current \in Release => host.current = before.current
               /\ \A s \in AllService :
                    IF s \in left.unit THEN before.unit[s] = None
                    ELSE host.unit[s] = before.unit[s]
               /\ host.enabled = before.enabled \cup left.enabled
               /\ Active = RunningOn(before) \cup left.run
               /\ \A s \in Active \ left.run : host.run[s] = RunsFrom(s)
               /\ "bin" \notin left.files => host.bin = before.bin
               /\ "site" \notin left.files =>
                    host.site = before.site /\ host.loaded \in {before.loaded, before.site}
    <3>1. RestoreInv /\ Taken
      BY <1>1 DEF DeployInv
    <3>2. snap = StateFrom(before)
      BY <2>2, <3>1 DEF RestoreInv, Taken
    <3>3. /\ snap.release = ReadLink(before.current) /\ snap.unit = before.unit
          /\ snap.enabled = before.enabled /\ snap.active = RunningOn(before)
          /\ snap.bin = before.bin /\ snap.site = before.site
      BY <3>2 DEF StateFrom
    <3>4. before.current \in Release => snap.release = before.current /\ snap.release # None
      BY <3>3, DeployAssumption DEF ReadLink
    <3>5. ~Frontend => host.bin = before.bin /\ host.site = before.site /\ host.loaded = before.loaded
      BY <2>2, <3>1 DEF RestoreInv, RouterKept
    <3>6. host.site = before.site => host.loaded \in {before.loaded, before.site}
      BY <2>2, <3>1 DEF RestoreInv, Nginx
    <3>7. /\ snap.release # None => host.current = snap.release
          /\ \A s \in AllService :
               IF s \in left.unit THEN snap.unit[s] = None ELSE host.unit[s] = snap.unit[s]
          /\ host.enabled = snap.enabled \cup left.enabled
          /\ Active = snap.active \cup left.run
          /\ \A s \in Active \ left.run : host.run[s] = RunsFrom(s)
          /\ Frontend => "bin" \in left.files \/ host.bin = snap.bin
          /\ Frontend => "site" \in left.files \/ host.site = snap.site
      BY <2>2, <3>1 DEF RestoreInv
    <3> QED BY <3>3, <3>4, <3>5, <3>6, <3>7
  <2> QED BY <2>1, <2>2 DEF RestoredExact
<1> QED BY <1>1, DeployInvariant, PTL

(* On every host, whatever commands fail, ignored or not, and wherever      *)
(* earlier runs were killed: a run of deploy_release that reports success   *)
(* leaves the link, the units, the binary and the site of the release, and  *)
(* every service of the role up and running from it, but for a service that *)
(* a failed stop left running; nginx has loaded the release's site, unless  *)
(* the site file was in place already.                                      *)
THEOREM DeploymentServes == Spec => []DeployedServes
<1>1. ASSUME DeployInv PROVE DeployedServes
  BY <1>1 DEF DeployInv, Activated, Serves, DeployedServes
<1> QED BY <1>1, DeployInvariant, PTL

(* Whatever commands fail, as long as the script is not killed: no service  *)
(* of a model host that every stop has stopped runs from a release that     *)
(* prune_releases removed, and after a success the state rollback_release   *)
(* restores is there, with the releases it needs on disk.                   *)
THEOREM RollbackIsReady == Spec => []RollbackReady
<1>1. ASSUME DeployInv PROVE RollbackReady
  <2>1. ServingOnDisk
    BY <1>1 DEF DeployInv, CoherentInv, ServingOnDisk, Active, RunningOn
  <2>2. ASSUME Done
        PROVE  /\ store.saved # None
               /\ store.saved.release \in Release => store.saved.release \in store.disk
    BY <1>1, <2>2 DEF DeployInv, OnDisk
  <2>3. ASSUME kills = 0, Done, ~Frontend
        PROVE  \A s \in store.saved.active \ left.astray : store.saved.unit[s] \in store.disk
    <3>1. Coherent(store.saved)
      BY <1>1, <2>2, <2>3 DEF DeployInv, CoherentInv
    <3> QED BY <2>2, <2>3, <3>1 DEF Coherent
  <2> QED BY <2>1, <2>2, <2>3 DEF RollbackReady
<1> QED BY <1>1, DeployInvariant, PTL

=============================================================================
