---------------------------- MODULE DeployRelease ----------------------------
(* The production deployment script (tools/deploy_rwkv_production.sh) on    *)
(* one host: stage a release, snapshot the deployment, activate the         *)
(* release, restore the snapshot if that fails, save the snapshot for a     *)
(* later rollback and prune the releases nobody names.                      *)
(*                                                                          *)
(* A unit, a binary and a site file stand for the release they come from.   *)
(* A command that is checked may fail, with or without its effect; one that *)
(* is not (|| true, or no check where set -e is suspended) may fail, leave  *)
(* some of its work undone, and the script goes on.  The script may be      *)
(* killed between two commands.  systemd, nginx and the file system are     *)
(* external: a service that runs is not started again, one whose release is *)
(* not on disk does not run.  A removed directory is removed whole, and the *)
(* two commands of atomic_link are one.                                     *)
EXTENDS Integers, FiniteSets

CONSTANTS
  Release,     \* the git SHAs
  NService,    \* the services of this host are 1 .. NService
  Configs,     \* the hosts, what they have deployed at first, and the bounds
               \* on what happens to them
  MaxOps,      \* bound: number of deployments and rollbacks
  None,
  Self         \* the path of the link current, which readlink -f prints
               \* when the link does not exist

(* state_dir on a host with n services.                                     *)
StateOf(n) ==
  [release : Release \cup {None, Self}, unit : [1 .. n -> Release \cup {None}],
   enabled : SUBSET (1 .. n), active : SUBSET (1 .. n),
   bin : Release \cup {None}, site : Release \cup {None}]

ASSUME DeployAssumption ==
  /\ NService \in Nat \ {0} /\ MaxOps \in Nat
  /\ Configs \subseteq [frontend : BOOLEAN, redeploy : BOOLEAN, all : Nat,
                         deployed : Release \cup {None}, faults : Nat, kills : Nat]
  /\ \A c \in Configs :
       NService <= c.all /\ None \notin StateOf(c.all) /\ (c.frontend => c.all = 1)
  /\ None \notin Release /\ Self \notin Release /\ None # Self

VARIABLES
  config,  \* the host and the bounds, which never change
  host,    \* what serves: current link, units, enabled and running services,
           \* the router's binary, the site file and the one nginx has loaded
  store,   \* under root_dir: the releases, previous link, previous-state
  pc, i,   \* the next command of the script and its loop index
  op,      \* [kind, target]: deploy of a release, or rollback
  snap,    \* state_dir of this run
  from,    \* which state restore_deployment_state restores: "snap", "saved"
  report,  \* how the last run of the script ended
  ops, faults, kills,
  before,  \* ghost: the host when the snapshot was taken
  left     \* ghost: what failures that the script ignores have left undone:
           \* services still running after the last stop or any stop (astray),
           \* still enabled, unit files and other files not removed

script == <<pc, i, op, snap, from, report, before, left>>
vars == <<config, host, store, script, ops, faults, kills>>

Frontend == config.frontend   \* deployment_role: service 1 is the router
Deployed == config.deployed   \* the release deployed at first, or None
Redeploy == config.redeploy   \* the SHA that is current may be deployed again
MaxFaults == config.faults    \* bound: number of commands that fail
MaxKills == config.kills      \* bound: number of times the script is killed
NAll == config.all            \* all_services is 1 .. NAll
Service == 1 .. NService
AllService == 1 .. NAll

(* The host serves release Deployed with some of the services, which need   *)
(* not be those of its role now.                                            *)
Init ==
  /\ config \in Configs
  /\ \E serving \in IF Deployed = None THEN {{}} ELSE (SUBSET AllService) \ {{}} :
       LET units == [s \in AllService |-> IF s \in serving THEN Deployed ELSE None]
           router == IF Frontend THEN Deployed ELSE None
       IN  host = [current |-> Deployed, unit |-> units, enabled |-> serving,
                   run |-> units, bin |-> router, site |-> router, loaded |-> router]
  /\ store = [disk |-> {Deployed} \ {None}, partial |-> {},
              previous |-> None, saved |-> None, savedNext |-> None]
  /\ pc = "idle" /\ i = 1 /\ op = None /\ snap = None /\ from = "snap"
  /\ report = "none" /\ before = None
  /\ left = [run |-> {}, astray |-> {}, enabled |-> {}, unit |-> {}, files |-> {}]
  /\ ops = 0 /\ faults = 0 /\ kills = 0

-----------------------------------------------------------------------------
(* readlink -f: the final component may be missing, a loop is an error.     *)
ReadLink(link) ==
  CASE link = None -> Self
    [] link = Self -> None
    [] OTHER -> link

(* The release a link leads to, None if it leads to none.                   *)
Target(link) ==
  IF link = Self THEN (IF host.current \in Release THEN host.current ELSE None)
  ELSE link

RunningOn(h) == {s \in AllService : h.run[s] # None}
Active == RunningOn(host)

(* The script goes on to command q with index j.                            *)
Goes(h, q, j) ==
  /\ host' = h /\ pc' = q /\ i' = j
  /\ UNCHANGED <<config, store, op, snap, from, report, ops, kills, before>>

(* A command that succeeds.                                                 *)
Ok(p, h, q, j) == pc = p /\ Goes(h, q, j) /\ UNCHANGED <<faults, left>>

(* A command whose failure is ignored; undone is what a failure leaves.     *)
Unchecked(p, undone, h, l, q, j) ==
  /\ pc = p
  /\ \/ undone = {} /\ UNCHANGED faults
     \/ undone # {} /\ faults < MaxFaults /\ faults' = faults + 1
  /\ left' = l
  /\ Goes(h, q, j)

(* The script exits.                                                        *)
Exit(how) == pc' = "idle" /\ i' = 1 /\ report' = how

(* A function called in a condition: its failure makes deploy_release and   *)
(* rollback_release restore the snapshot, or give up if that is what failed.*)
RestoreCommands ==
  {"r_unit", "r_daemon", "r_disable", "r_enable", "r_link", "r_bin", "r_site", "r_reload", "r_start"}
Restore(what) == pc' = "r_stop" /\ i' = 1 /\ from' = what /\ UNCHANGED report
GiveUp ==
  IF pc \in RestoreCommands /\ from = "snap"
  THEN Exit("lost") /\ UNCHANGED from
  ELSE Restore("snap")

(* A checked command that fails has had its effect or not.                  *)
Fails(p, h) ==
  /\ pc = p /\ faults < MaxFaults
  /\ faults' = faults + 1
  /\ host' \in {host, h}
  /\ GiveUp
  /\ UNCHANGED <<config, store, op, snap, ops, kills, before, left>>

Cmd(p, h, q, j) == Ok(p, h, q, j) \/ Fails(p, h)

-----------------------------------------------------------------------------
(* deploy_release up to the snapshot.                                       *)

Deploy(r) ==
  /\ pc = "idle" /\ ops < MaxOps
  /\ Redeploy \/ r # host.current
  /\ ops' = ops + 1
  /\ op' = [kind |-> "deploy", target |-> r]
  /\ pc' = "stage"
  /\ UNCHANGED <<config, host, store, i, snap, from, report, faults, kills, before, left>>

(* stage_source_release, stage_router_release.  A directory left by a run   *)
(* that was killed has no GIT_SHA, a leftover staging directory is refused: *)
(* either ends the script.                                                  *)
Stage ==
  /\ pc = "stage"
  /\ \/ /\ op.target \notin store.partial
        /\ store' = [store EXCEPT !.disk = @ \cup {op.target}]
        /\ pc' = "snapshot"
        /\ UNCHANGED <<i, report, faults>>
     \/ /\ op.target \in store.partial
        /\ Exit("exited")
        /\ UNCHANGED <<store, faults>>
     \/ /\ op.target \notin store.partial /\ faults < MaxFaults
        /\ faults' = faults + 1
        /\ store' = IF Frontend /\ op.target \notin store.disk
                    THEN [store EXCEPT !.partial = @ \cup {op.target}] ELSE store
        /\ Exit("exited")
  /\ UNCHANGED <<config, host, op, snap, from, ops, kills, before, left>>

(* rollback_release.                                                        *)
Rollback ==
  /\ pc = "idle" /\ ops < MaxOps
  /\ ops' = ops + 1
  /\ op' = [kind |-> "rollback", target |-> None]
  /\ IF store.saved = None THEN Exit("exited")
     ELSE pc' = "snapshot" /\ UNCHANGED <<i, report>>
  /\ UNCHANGED <<config, host, store, snap, from, faults, kills, before, left>>

(* snapshot_deployment_state; a command of it that fails ends the script.   *)
StateFrom(h) ==
  [release |-> ReadLink(h.current), unit |-> h.unit, enabled |-> h.enabled,
   active |-> RunningOn(h), bin |-> h.bin, site |-> h.site]

Snapshot ==
  /\ pc = "snapshot"
  /\ \/ /\ snap' = StateFrom(host) /\ before' = host
        /\ IF op.kind = "rollback" THEN pc' = "r_stop" /\ from' = "saved"
           ELSE pc' = (IF Frontend THEN "link" ELSE "units") /\ UNCHANGED from
        /\ UNCHANGED <<i, report, faults>>
     \/ /\ faults < MaxFaults /\ faults' = faults + 1
        /\ Exit("exited")
        /\ UNCHANGED <<snap, before, from>>
  /\ UNCHANGED <<config, host, store, op, ops, kills, left>>

-----------------------------------------------------------------------------
(* activate_release.  Model hosts: install_units, stop_services, the link,  *)
(* start_services.  Frontend: the link, then install_release_router.        *)

InstallUnit ==
  Cmd("units", [host EXCEPT !.unit[i] = op.target],
      IF i < NService THEN "units" ELSE IF Frontend THEN "enable" ELSE "disable",
      IF i < NService THEN i + 1 ELSE 1)

(* systemctl disable ... || true                                            *)
Disable(p, q) ==
  \E s \in SUBSET host.enabled :
    Unchecked(p, s, [host EXCEPT !.enabled = s], [left EXCEPT !.enabled = s], q, 1)

DisableServices == Disable("disable", "enable")

EnableServices ==
  Cmd("enable", [host EXCEPT !.enabled = @ \cup Service], IF Frontend THEN "start" ELSE "stop", 1)

(* systemctl stop ... || true: services s are still running.                *)
StoppedBut(s) ==
  [host EXCEPT !.run = [x \in AllService |-> IF x \in s THEN @[x] ELSE None]]

(* Faulty variant: only the services of this role are stopped.              *)
StopServicesOwn ==
  Ok("stop", [host EXCEPT !.run = [s \in AllService |-> IF s \in Service THEN None ELSE @[s]]],
     "link", 1)

StopServices ==
  \E s \in SUBSET Active :
    Unchecked("stop", s, StoppedBut(s),
              [left EXCEPT !.run = s, !.astray = @ \cup s], "link", 1)

LinkCurrent ==
  Cmd("link", [host EXCEPT !.current = op.target], IF Frontend THEN "bin" ELSE "start", 1)

InstallRouter ==
  Cmd("bin", [host EXCEPT !.bin = op.target], "units", 1)

(* Start and probe.  A model's unit runs from the release it names, the     *)
(* router's from the binary that was installed; a release is activated with *)
(* a restart of the router.  A service that runs is left as it is, and      *)
(* answers the probe, which model hosts make with the current release's     *)
(* Python.                                                                  *)
RunsFrom(s) == IF Frontend THEN host.bin ELSE host.unit[s]
CanRun(s) == IF Frontend THEN host.bin # None ELSE host.unit[s] \in store.disk
Started(s) ==
  IF CanRun(s) /\ (host.run[s] = None \/ (Frontend /\ pc = "start"))
  THEN [host EXCEPT !.run[s] = RunsFrom(s)] ELSE host
Healthy(s) == Started(s).run[s] # None /\ (Frontend \/ Target(host.current) \in store.disk)

StartService ==
  \/ /\ pc = "start" /\ Healthy(i)
     /\ Ok("start", Started(i),
           IF i < NService THEN "start" ELSE IF Frontend THEN "site" ELSE "previous",
           IF i < NService THEN i + 1 ELSE 1)
  \/ Fails("start", Started(i))

InstallSite ==
  \/ Ok("site", host, "previous", 1) /\ host.site = op.target
  \/ pc = "site" /\ host.site # op.target /\ Cmd("site", [host EXCEPT !.site = op.target], "reload", 1)

ReloadNginx == Cmd("reload", [host EXCEPT !.loaded = host.site], "previous", 1)

-----------------------------------------------------------------------------
(* restore_deployment_state of the state "from" names.                      *)

State == IF from = "snap" THEN snap ELSE store.saved

RestoreStop ==
  \E s \in SUBSET Active :
    Unchecked("r_stop", s, StoppedBut(s),
              [run |-> s, astray |-> left.astray \cup s,
               enabled |-> {}, unit |-> {}, files |-> {}], "r_unit", 1)

(* rm -f, which nobody checks: a file that is there may stay.               *)
Kept(name, file) == SUBSET (IF file = None THEN {} ELSE {name})

RestoreUnit ==
  LET q == IF i < NAll THEN "r_unit" ELSE "r_daemon"
      j == IF i < NAll THEN i + 1 ELSE 1
  IN  /\ pc = "r_unit"
      /\ \/ State.unit[i] # None /\ Cmd("r_unit", [host EXCEPT !.unit[i] = State.unit[i]], q, j)
         \/ /\ State.unit[i] = None
            /\ \E u \in Kept(i, host.unit[i]) :
                 Unchecked("r_unit", u, [host EXCEPT !.unit[i] = IF u = {} THEN None ELSE @],
                           [left EXCEPT !.unit = @ \cup u], q, j)

DaemonReload == Cmd("r_daemon", host, IF Frontend THEN "r_link" ELSE "r_disable", 1)

(* Faulty variant: what the release enabled is not disabled first.          *)
RestoreDisabledNot == Cmd("r_disable", host, "r_enable", 1)

RestoreDisabled == Disable("r_disable", "r_enable")

(* The enabled services; on the frontend the router is enabled or disabled. *)
RestoreEnabled ==
  /\ pc = "r_enable"
  /\ \/ /\ ~Frontend \/ State.enabled # {}
        /\ Cmd("r_enable", [host EXCEPT !.enabled = @ \cup State.enabled],
               IF Frontend THEN "r_bin" ELSE "r_link", 1)
     \/ /\ Frontend /\ State.enabled = {}
        /\ Disable("r_enable", "r_bin")

(* A release is linked, an empty one removes the link.                      *)
RestoreLink ==
  LET q == IF Frontend THEN "r_enable" ELSE "r_start"
  IN  /\ pc = "r_link"
      /\ \/ State.release # None /\ Cmd("r_link", [host EXCEPT !.current = State.release], q, 1)
         \/ /\ State.release = None
            /\ \E f \in Kept("current", host.current) :
                 Unchecked("r_link", f, [host EXCEPT !.current = IF f = {} THEN None ELSE @],
                           [left EXCEPT !.files = @ \cup f], q, 1)

RestoreRouter ==
  /\ pc = "r_bin"
  /\ \/ State.bin # None /\ Cmd("r_bin", [host EXCEPT !.bin = State.bin], "r_site", 1)
     \/ /\ State.bin = None
        /\ \E f \in Kept("bin", host.bin) :
             Unchecked("r_bin", f, [host EXCEPT !.bin = IF f = {} THEN None ELSE @],
                       [left EXCEPT !.files = @ \cup f], "r_site", 1)

RestoreSite ==
  /\ pc = "r_site"
  /\ \/ host.site = State.site /\ Ok("r_site", host, "r_start", 1)
     \/ /\ host.site # State.site /\ State.site # None
        /\ Cmd("r_site", [host EXCEPT !.site = State.site], "r_reload", 1)
     \/ /\ host.site # State.site /\ State.site = None
        /\ \E f \in Kept("site", host.site) :
             Unchecked("r_site", f, [host EXCEPT !.site = IF f = {} THEN None ELSE @],
                       [left EXCEPT !.files = @ \cup f], "r_reload", 1)

RestoreReload == Cmd("r_reload", [host EXCEPT !.loaded = host.site], "r_start", 1)

RestoreStart ==
  /\ pc = "r_start"
  /\ \/ /\ i <= NAll /\ i \notin State.active
        /\ Ok("r_start", host, "r_start", i + 1)
     \/ /\ i <= NAll /\ i \in State.active /\ Healthy(i)
        /\ Ok("r_start", Started(i), "r_start", i + 1)
     \/ /\ i <= NAll /\ i \in State.active /\ Healthy(i)
        /\ Fails("r_start", Started(i))
     \/ /\ i <= NAll /\ i \in State.active /\ ~Healthy(i)
        /\ GiveUp
        /\ host' = Started(i)
        /\ UNCHANGED <<config, store, op, snap, ops, faults, kills, before, left>>

(* Every service of the state is up: rollback_release goes on, a restored   *)
(* snapshot ends the script.                                                *)
RestoreDone ==
  /\ pc = "r_start" /\ i > NAll
  /\ IF from = "saved" THEN pc' = "previous" /\ i' = 1 /\ UNCHANGED report
     ELSE Exit("restored")
  /\ UNCHANGED <<config, host, store, op, snap, from, ops, faults, kills, before, left>>

-----------------------------------------------------------------------------
(* The end of deploy_release and rollback_release.  A command that fails    *)
(* here ends the script (set -e).                                           *)

EndCmd(p, s, q) ==
  /\ pc = p
  /\ \/ /\ store' = s /\ pc' = q
        /\ UNCHANGED <<i, report, faults>>
     \/ /\ faults < MaxFaults /\ faults' = faults + 1
        /\ store' \in {store, s}
        /\ Exit("exited")
  /\ UNCHANGED <<config, host, op, snap, from, ops, kills, before, left>>

LinkPrevious ==
  EndCmd("previous", [store EXCEPT !.previous = snap.release], "save")

(* Faulty variant: the new state is dropped with the previous one.          *)
DropPreviousBoth ==
  EndCmd("drop", [store EXCEPT !.saved = None, !.savedNext = None], "keep")

(* save_previous_state                                                      *)
SaveNext ==
  EndCmd("save", [store EXCEPT !.savedNext = snap], "drop")
DropPrevious ==
  EndCmd("drop", [store EXCEPT !.saved = None], "keep")
KeepNext ==
  EndCmd("keep", [store EXCEPT !.saved = store.savedNext, !.savedNext = None], "prune")

(* prune_releases keeps what current and previous lead to; the links are    *)
(* read first, and a current link that is a loop ends the script.           *)
Linked == {Target(host.current), Target(store.previous)}
Prune ==
  /\ pc = "prune"
  /\ \/ /\ host.current # Self
        /\ store' = [store EXCEPT !.disk = @ \cap Linked, !.partial = IF Frontend THEN @ ELSE {}]
        /\ Exit(IF op.kind = "deploy" THEN "deployed" ELSE "rolledback")
        /\ UNCHANGED faults
     \/ /\ host.current = Self
        /\ Exit("exited")
        /\ UNCHANGED <<store, faults>>
     \/ /\ faults < MaxFaults /\ faults' = faults + 1
        /\ \E gone \in SUBSET (store.disk \ Linked) :
             store' = [store EXCEPT !.disk = @ \ gone]
        /\ Exit("exited")
  /\ UNCHANGED <<config, host, op, snap, from, ops, kills, before, left>>

(* The script is killed; while staging it leaves an unfinished directory.   *)
Kill ==
  /\ pc # "idle" /\ kills < MaxKills
  /\ kills' = kills + 1
  /\ store' = IF pc = "stage" /\ op.target \notin store.disk
              THEN [store EXCEPT !.partial = @ \cup {op.target}] ELSE store
  /\ Exit("killed")
  /\ UNCHANGED <<config, host, op, snap, from, ops, faults, before, left>>

-----------------------------------------------------------------------------
Activate ==
  \/ InstallUnit \/ DisableServices \/ EnableServices \/ StopServices \/ LinkCurrent
  \/ InstallRouter \/ StartService \/ InstallSite \/ ReloadNginx

RestoreDeployment ==
  \/ RestoreStop \/ RestoreUnit \/ DaemonReload \/ RestoreDisabled
  \/ RestoreEnabled \/ RestoreLink
  \/ RestoreRouter \/ RestoreSite \/ RestoreReload \/ RestoreStart \/ RestoreDone

Next ==
  \/ \E r \in Release : Deploy(r)
  \/ Rollback \/ Stage \/ Snapshot
  \/ Activate \/ RestoreDeployment
  \/ LinkPrevious \/ SaveNext \/ DropPrevious \/ KeepNext \/ Prune
  \/ Kill

Spec == Init /\ [][Next]_vars

-----------------------------------------------------------------------------
Done == pc = "idle" /\ report \in {"deployed", "rolledback"}

(* The types of the state.                                                  *)
TypeOK ==
  LET Link == Release \cup {None, Self}
      Unit == [AllService -> Release \cup {None}]
      Host == [current : Link, unit : Unit, enabled : SUBSET AllService, run : Unit,
               bin : Release \cup {None}, site : Release \cup {None},
               loaded : Release \cup {None}]
      Saved == StateOf(NAll) \cup {None}
  IN  /\ host \in Host /\ before \in Host \cup {None}
      /\ store \in [disk : SUBSET Release, partial : SUBSET Release,
                     previous : Link, saved : Saved, savedNext : Saved]
      /\ snap \in Saved
      /\ i \in 1 .. NAll + 1
      /\ left \in [run : SUBSET AllService, astray : SUBSET AllService,
                    enabled : SUBSET AllService, unit : SUBSET AllService,
                    files : SUBSET {"current", "bin", "site"}]

(* "failed health checks restore that snapshot": when the script says the   *)
(* previous deployment was restored, the host is as it was found, but for   *)
(* what commands whose failure the script ignores have left undone.  The    *)
(* link is that of the release found; a unit file differs only where there  *)
(* was none; the enabled and the running services are those found and those *)
(* that could not be disabled and stopped; the others run what is installed;*)
(* nginx has loaded what it had, or the site file found.                    *)
RestoredExact ==
  /\ TypeOK
  /\ (pc = "idle" /\ report = "restored") =>
       /\ before.current \in Release => host.current = before.current
       /\ \A s \in AllService :
            IF s \in left.unit THEN before.unit[s] = None ELSE host.unit[s] = before.unit[s]
       /\ host.enabled = before.enabled \cup left.enabled
       /\ Active = RunningOn(before) \cup left.run
       /\ \A s \in Active \ left.run : host.run[s] = RunsFrom(s)
       /\ "bin" \notin left.files => host.bin = before.bin
       /\ "site" \notin left.files =>
            host.site = before.site /\ host.loaded \in {before.loaded, before.site}

(* A deployment that reports success serves the release: the link, the      *)
(* units, exactly the services of the role enabled and running from it, but *)
(* for what could not be disabled or stopped; every service of the role is  *)
(* up.  On the frontend nginx has loaded the release's site, unless the     *)
(* file was there already: then the script leaves nginx with what it had,   *)
(* which is another site if an earlier run was killed or gave up before it  *)
(* reloaded nginx.                                                          *)
DeployedServes ==
  (pc = "idle" /\ report = "deployed") =>
    /\ host.current = op.target /\ host.enabled = Service \cup left.enabled
    /\ \A s \in Service : host.unit[s] = op.target /\ host.run[s] # None
    /\ \A s \in AllService : Frontend \/ s \notin left.run =>
         host.run[s] = IF s \in Service THEN op.target ELSE None
    /\ Frontend =>
         /\ host.bin = op.target /\ host.site = op.target
         /\ host.loaded = IF before.site = op.target THEN before.loaded ELSE op.target

(* Unless a run of the script was killed, a model's service that no failed  *)
(* stop ever left running never runs from a release that was pruned.        *)
ServingOnDisk ==
  kills = 0 /\ ~Frontend =>
    \A s \in AllService \ left.astray : host.run[s] # None => host.run[s] \in store.disk

(* After a success there is a state to roll back to, and the release it     *)
(* links and those its active services run from are on disk, unless a run   *)
(* of the script was killed or a stop of the service failed; and            *)
(* ServingOnDisk.                                                           *)
RollbackReady ==
  /\ ServingOnDisk
  /\ kills = 0 /\ Done =>
    /\ store.saved # None
    /\ store.saved.release \in Release => store.saved.release \in store.disk
    /\ ~Frontend =>
         \A s \in store.saved.active \ left.astray : store.saved.unit[s] \in store.disk
=============================================================================
