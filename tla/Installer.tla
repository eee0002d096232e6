----------------------------- MODULE Installer -----------------------------
(***************************************************************************)
(* The installer's runs against a router (cmd/installer/flows.go,          *)
(* steps.go), the remote shell they use (entware.go), the bootstrap of     *)
(* Entware (keenetic.go), and the init script they leave there             *)
(* (embed/S99yonder).                                                      *)
(*                                                                         *)
(* Every remote command is a course of states of the router, one per       *)
(* change it makes.  A command that succeeds goes through all of it.  One  *)
(* that fails, times out or loses its exit marker stops anywhere in it,    *)
(* and may even have gone through it all.  A checked command that fails    *)
(* ends the run; the failure of any other is ignored.                      *)
(*                                                                         *)
(* The two jobs done through the CLI session in between (port 443 and the  *)
(* DNS upstream) end no run and touch nothing here; they are the subject   *)
(* of KeeneticCLI.  A mkdir is part of the command that needs it.          *)
(***************************************************************************)
EXTENDS Naturals, Sequences, SequencesExt

CONSTANTS
    Releases,   \* releases of the installer, each with its own yonderd
    MaxRuns,    \* bound: runs of the installer
    MaxEvents   \* bound: what happens to a router without the installer

ASSUME InstallerAssumption ==
    /\ Releases # {}
    /\ Releases \cap {"none", "part", "whole"} = {}
    /\ MaxRuns \in Nat /\ MaxEvents \in Nat

VARIABLES
    router,   \* the router: see Router
    runs,     \* runs started so far
    job,      \* what the present run is for
    rel,      \* the release of the installer that runs
    at,       \* the step it is at; "off" between runs
    link,     \* are its connections up
    trusted,  \* half files that a test of this run took for whole ones
    trouble,  \* history: something went wrong in this run
    said,     \* what it has told its user: "", or how it ended
    events,   \* events so far
    died,     \* history: a yonderd ended, but not by a whole stop
    cutStart, \* history: a start was cut short with the daemon running
    orphaned, \* history: a daemon ran without an init script to stop it
    victim    \* history: a stop killed a process that is not ours

run  == <<runs, job, rel, at, link, trusted, trouble, said>>
past == <<died, cutStart, victim>>
vars == <<router, run, events, past, orphaned>>

Job      == {"install", "uninstall"}
Ours     == {"yonderd", "S99yonder"}                    \* uploaded
Kept     == {"xkeen", "xray", "find", "accounts", "geoip", "geosite"}
Verdict  == {"failed", "done", "uninstalled"}
Tarball  == {"none", "pending", "unpacking"}
PidFile  == {"none", "daemon", "dead", "foreign"}       \* whom it names

(* "xkeen" stands for the script and S99xkeen, "accounts" for passwd,      *)
(* group and shadow.  "part" is a file that was cut short; it passes       *)
(* test -x, -s and -f.                                                     *)
Router == [diskSet : BOOLEAN, diskSaved : BOOLEAN,
           tarball : Tarball, entware : BOOLEAN,
           xkeen : {"none", "whole"}, xray : {"none", "part", "whole"},
           find : {"none", "whole"}, accounts : {"none", "part", "whole"},
           geoip : {"none", "part", "whole"},
           geosite : {"none", "part", "whole"},
           yonderd : Releases \cup {"none", "part"},
           S99yonder : Releases \cup {"none", "part"},
           exec : SUBSET Ours,              \* may be executed
           staging : [Ours -> Seq(Releases \X (1..2))],  \* .b64.tmp files
           rules : 0..1,
           daemon : Releases \cup {"none"}, \* the process on port 8080
           held : BOOLEAN,                  \* it runs the file now in place
           pidfile : PidFile]

(* A router on which the installer has not been run, with or without the   *)
(* opkg setting and Entware.                                               *)
Bare(disk, entware) ==
    [diskSet |-> disk, diskSaved |-> disk, tarball |-> "none",
     entware |-> entware, xkeen |-> "none", xray |-> "none", find |-> "none",
     accounts |-> "none", geoip |-> "none", geosite |-> "none",
     yonderd |-> "none", S99yonder |-> "none", exec |-> {},
     staging |-> [f \in Ours |-> <<>>], rules |-> 0,
     daemon |-> "none", held |-> FALSE, pidfile |-> "none"]

(* Without Entware a factory reset may have left the opkg setting.         *)
Init ==
    /\ \E disk, entware \in BOOLEAN :
          (entware => disk) /\ router = Bare(disk, entware)
    /\ runs = 0 /\ job = "install" /\ rel \in Releases
    /\ at = "off" /\ link = FALSE
    /\ trusted = {} /\ trouble = FALSE /\ said = ""
    /\ events = 0
    /\ died = FALSE /\ cutStart = FALSE /\ orphaned = FALSE /\ victim = FALSE

-----------------------------------------------------------------------------
(* The init script: a stop and a start as courses.                         *)

Runnable(r, f) == f \in r.exec /\ r[f] \in Releases

IsRunning(r) == r.pidfile \in {"daemon", "foreign"}

Ended(r) == [r EXCEPT !.daemon = "none", !.held = FALSE, !.pidfile = "dead"]

(* Slip: the pid file is left behind. *)
StopKeepsPid(r) ==
    CASE r.pidfile = "daemon"  -> <<r, Ended(r)>>
      [] r.pidfile = "foreign" -> <<r, [r EXCEPT !.pidfile = "dead"]>>
      [] OTHER                 -> <<r>>

Stop(r) ==
    LET Killed == CASE r.pidfile = "daemon"  -> Ended(r)
                    [] r.pidfile = "foreign" -> [r EXCEPT !.pidfile = "dead"]
                    [] OTHER                 -> r
    IN <<r, Killed, [Killed EXCEPT !.pidfile = "none"]>>

(* A binary that cannot run leaves its pid behind as well, and so does a   *)
(* daemon that finds the port taken.                                       *)
Spawned(r) ==
    IF Runnable(r, "yonderd") /\ r.daemon = "none"
    THEN LET Up == [r EXCEPT !.daemon = r.yonderd, !.held = TRUE]
         IN <<r, Up, [Up EXCEPT !.pidfile = "daemon"]>>
    ELSE <<r, [r EXCEPT !.pidfile = "dead"]>>

(* Slip: whether it runs already is not asked. *)
StartBlindly(r) == Spawned(r)

Start(r) == IF IsRunning(r) THEN <<r>> ELSE Spawned(r)

Script(verb, r) ==
    IF ~Runnable(r, "S99yonder") THEN <<r>>
    ELSE CASE verb = "stop"    -> Stop(r)
           [] verb = "start"   -> Start(r)
           [] verb = "restart" -> Stop(r) \o Start(Last(Stop(r)))

(* What a script that took the router from r to router' adds to history.   *)
Remember(verb, r) ==
    LET whole == router' = Last(Script(verb, r)) IN
    /\ victim' = (victim \/ (/\ r.pidfile = "foreign" /\ verb # "start"
                             /\ router' # r))
    /\ died' = (died \/ (/\ r.pidfile # "dead" /\ router'.pidfile = "dead"
                         /\ ~(verb = "stop" /\ whole)))
    /\ cutStart' = (cutStart \/ (/\ verb # "stop" /\ ~whole
                                 /\ router'.daemon # "none" /\ router' # r))

-----------------------------------------------------------------------------
(* One remote command: EntwareShell.run and KeeneticCLI.cmd. *)

Succeeds(course) ==
    /\ link
    /\ router' = Last(course)
    /\ UNCHANGED trouble

Fails(course) ==
    /\ router' \in IF link THEN Range(course) ELSE {router}
    /\ trouble' = TRUE

(* The next step, or the end of the run. *)
Goes(step) ==
    IF step \in Verdict THEN at' = "off" /\ said' = step
                        ELSE at' = step /\ UNCHANGED said

(* A command whose failure is fatal, *)
Must(step, course, next) ==
    /\ at = step
    /\ \/ Succeeds(course) /\ Goes(next)
       \/ Fails(course) /\ Goes("failed")
    /\ UNCHANGED <<runs, job, rel, link, trusted>>

(* one whose failure is ignored, *)
Try(step, course, next) ==
    /\ at = step
    /\ Succeeds(course) \/ Fails(course)
    /\ Goes(next)
    /\ UNCHANGED <<runs, job, rel, link, trusted>>

(* the same for a script (runScript), whose outcomes are no others,        *)
TryScript(step, course, next) == Try(step, course, next)

(* and a test, which counts as negative when it fails.                     *)
Test(step, holds, files, yes, no) ==
    /\ at = step
    /\ \/ /\ Succeeds(<<router>>)
          /\ Goes(IF holds THEN yes ELSE no)
          /\ trusted' = IF holds
                        THEN trusted \cup {f \in files : router[f] = "part"}
                        ELSE trusted
       \/ Fails(<<router>>) /\ Goes(no) /\ UNCHANGED trusted
    /\ UNCHANGED <<runs, job, rel, link>>

Put(f, content) == [router EXCEPT ![f] = content]

(* A file that grows until it is whole. *)
Grows(f) == <<router, Put(f, "part"), Put(f, "whole")>>

-----------------------------------------------------------------------------
(* Bootstrap of Entware. *)

(* The router restarts.  /var/run and the firewall start afresh; if Entware *)
(* is there, its init scripts are run.                                     *)
Boot(r) ==
    LET up == [r EXCEPT !.diskSet = r.diskSaved, !.daemon = "none",
                        !.held = FALSE, !.pidfile = "none", !.rules = 0,
                        !.tarball = IF r.tarball = "pending" /\ r.diskSaved
                                    THEN "unpacking" ELSE r.tarball]
    IN IF up.entware THEN Last(Script("start", up)) ELSE up

RememberBoot == /\ died' = (died \/ router'.pidfile = "dead")
                /\ UNCHANGED <<cutStart, victim>>

(* isEntwareReady has a connection of its own. *)
Ready ==
    /\ at = "ready"
    /\ UNCHANGED <<router, runs, job, rel, trusted>>
    /\ \/ router.entware /\ link' = TRUE /\ UNCHANGED trouble /\ Goes("shell")
       \/ /\ UNCHANGED link
          /\ trouble' = (trouble \/ router.entware)
          /\ Goes(IF job = "install" THEN "preflight" ELSE "failed")

(* Components, drive, space, internet, and the user's consent. *)
Preflight ==
    /\ at = "preflight"
    /\ UNCHANGED <<router, runs, job, rel, trusted>>
    /\ \/ link' = TRUE /\ UNCHANGED trouble /\ Goes("disk")
       \/ UNCHANGED link /\ trouble' = TRUE /\ Goes("failed")

DiskCourse == <<router, [router EXCEPT !.diskSet = TRUE],
                [router EXCEPT !.diskSet = TRUE, !.tarball = "pending"]>>

(* Slip: a disk that is set already is taken for a success. *)
DiskOnce ==
    IF router.diskSet THEN Must("disk", <<router>>, "save")
                      ELSE Must("disk", DiskCourse, "save")

(* "Disk is unchanged": nothing is downloaded. *)
OpkgDisk ==
    IF router.diskSet THEN Must("disk", <<router>>, "undisk")
                      ELSE Must("disk", DiskCourse, "save")

NoOpkgDisk == Must("undisk", <<router, [router EXCEPT !.diskSet = FALSE]>>,
                   "disk2")

OpkgDiskAgain ==
    Must("disk2", IF router.diskSet THEN <<router>> ELSE DiskCourse, "save")

(* An answer that says neither is only warned of. *)
OpkgDiskRefused ==
    /\ at \in {"disk", "disk2"} /\ link
    /\ router' \in {router, [router EXCEPT !.diskSet = TRUE]}
    /\ trouble' = TRUE
    /\ Goes("save")
    /\ UNCHANGED <<runs, job, rel, link, trusted>>

SaveConfig ==
    Must("save", <<router, [router EXCEPT !.diskSaved = router.diskSet]>>,
         "reboot")

(* The command is sent, and its failure not looked at. *)
SystemReboot ==
    /\ at = "reboot"
    /\ Goes("wait")
    /\ link' = FALSE
    /\ \/ link /\ router' = Boot(router) /\ UNCHANGED trouble
       \/ UNCHANGED router /\ trouble' = TRUE
    /\ RememberBoot
    /\ UNCHANGED <<runs, job, rel, trusted>>

(* Until Entware is ready or the time is up. *)
Wait ==
    /\ at = "wait"
    /\ \/ router.entware /\ UNCHANGED trouble /\ Goes("shell")
       \/ trouble' = TRUE /\ Goes("failed")
    /\ UNCHANGED <<router, runs, job, rel, link, trusted>>

(* The connections of the run itself. *)
Shell ==
    /\ at = "shell"
    /\ UNCHANGED <<router, runs, job, rel, trusted>>
    /\ \/ /\ link' = TRUE /\ UNCHANGED trouble
          /\ Goes(IF job = "install" THEN "xkeen?" ELSE "stopDaemon")
       \/ UNCHANGED link /\ trouble' = TRUE /\ Goes("failed")

-----------------------------------------------------------------------------
(* Install: what is not ours. *)

(* Slip: xray is looked for where the documentation of xkeen has it. *)
LookedForInOptBin == FALSE

xkeenFullyInstalled == router.xkeen = "whole" /\ router.xray # "none"

XKeenThere == Test("xkeen?", xkeenFullyInstalled, {"xkeen", "xray"},
                   "find?", "cleanup")

Cleanup == Try("cleanup", <<router, Put("xkeen", "none")>>, "curl")

InstallCurl == Must("curl", <<router>>, "xkeen")

(* xkeen's own installer, which puts its files there in an order of its    *)
(* own and whose exit status is only warned of.                            *)
RunXKeenInstaller ==
    LET Xray(r)  == <<[r EXCEPT !.xray = "part"], [r EXCEPT !.xray = "whole"]>>
        XKeen(r) == [r EXCEPT !.xkeen = "whole"]
    IN \/ TryScript("xkeen", <<router, XKeen(router)>> \o Xray(XKeen(router)),
                    "verify")
       \/ TryScript("xkeen", Append(<<router>> \o Xray(router),
                                    XKeen(Last(Xray(router)))), "verify")

VerifyXKeen == Test("verify", xkeenFullyInstalled, {"xkeen", "xray"}, "find?",
                    "failed")

FindThere    == Test("find?", router.find # "none", {"find"}, "accounts?", "find")
InstallFind  == Must("find", <<router, Put("find", "whole")>>, "accounts?")

AccountsThere == Test("accounts?", router.accounts # "none", {"accounts"},
                      "geo?", "accounts")
SeedAccounts  == Try("accounts", Grows("accounts"), "geo?")

(* Slip: only the first of the two is looked for. *)
GeoIPAlone == router.geoip # "none"

GeoDats == router.geoip # "none" /\ router.geosite # "none"

GeoThere     == Test("geo?", GeoDats, {"geoip", "geosite"}, "stop", "geoip")
FetchGeoIP   == Must("geoip", Grows("geoip"), "geosite")
FetchGeoSite == Must("geosite", Grows("geosite"), "stop")

-----------------------------------------------------------------------------
(* Install: what is ours. *)

(* Slip: the daemon is left running. *)
StopSkipped == Try("stop", <<router>>, "bin1") /\ UNCHANGED past

StopOld ==
    /\ Try("stop", Script("stop", router), "bin1")
    /\ Remember("stop", router)

Fragment(i) == <<rel, i>>

(* uploadB64Chunked: the first chunk with >, the others with >>.           *)
Chunk(f, i) ==
    [router EXCEPT !.staging[f] = IF i = 1 THEN <<Fragment(1)>>
                                  ELSE Append(@, Fragment(i))]

Decoded(f) ==
    IF router.staging[f] = <<Fragment(1), Fragment(2)>> THEN rel ELSE "part"

Unstaged(r, f) == [r EXCEPT !.staging[f] = <<>>]

DecodeCourse(f) ==
    LET clean == Unstaged(Put(f, Decoded(f)), f)
    IN <<router, Put(f, "part"), Put(f, Decoded(f)), clean,
         [clean EXCEPT !.exec = @ \cup {f}]>>

(* uploadBytes.  A binary that is being executed cannot be written to.     *)
Upload(f, steps) ==
    \/ Must(steps[1], <<router, Unstaged(router, f)>>, steps[2])
    \/ Must(steps[2], <<router, Chunk(f, 1)>>, steps[3])
    \/ Must(steps[3], <<router, Chunk(f, 2)>>, steps[4])
    \/ /\ f = "yonderd" => ~router.held
       /\ Must(steps[4], DecodeCourse(f), steps[5])

TextBusy ==
    /\ at = "bin4" /\ router.held
    /\ Goes("failed")
    /\ UNCHANGED <<router, runs, job, rel, link, trusted, trouble>>

UploadDaemon == Upload("yonderd", <<"bin1", "bin2", "bin3", "bin4", "init1">>)
UploadScript == Upload("S99yonder",
                       <<"init1", "init2", "init3", "init4", "firewall">>)

(* Slip: the rule is added without looking for an earlier one. *)
InsertRule == <<router, [router EXCEPT !.rules = @ + 1]>>

(* Slip: -I, then -D. *)
InsertThenDelete ==
    LET added == [router EXCEPT !.rules = @ + 1]
    IN <<router, added, router>>

(* -D, then -I. *)
FirewallCourse ==
    LET removed == [router EXCEPT !.rules = IF @ > 0 THEN @ - 1 ELSE 0]
    IN <<router, removed, [removed EXCEPT !.rules = @ + 1]>>

OpenFirewallPort == Try("firewall", FirewallCourse, "restart")

StartDaemon ==
    /\ Try("restart", Script("restart", router), "listening")
    /\ Remember("restart", router)

(* netstat or ss; if nobody listens, a warning is printed.                 *)
Listening ==
    /\ at = "listening"
    /\ UNCHANGED <<router, runs, job, rel, link, trusted>>
    /\ trouble' = (trouble \/ router.daemon = "none" \/ ~link)
    /\ Goes("done")

-----------------------------------------------------------------------------
(* Uninstall: nothing that fails here is noticed. *)

StopDaemon ==
    /\ Try("stopDaemon", Script("stop", router), "rmInit")
    /\ Remember("stop", router)

Gone(r, f) == [r EXCEPT ![f] = "none", !.exec = @ \ {f}]

RemoveInitScript == Try("rmInit", <<router, Gone(router, "S99yonder")>>, "rmApp")

RemoveApp ==
    LET gone == Unstaged(Gone(router, "yonderd"), "yonderd")
    IN Try("rmApp", <<router, [gone EXCEPT !.held = FALSE]>>, "closePort")

(* Slip: the rule it deletes is not the one that was inserted. *)
RuleMismatch == Try("closePort", <<router>>, "uninstalled")

CloseFirewallPort ==
    Try("closePort", <<router, [router EXCEPT !.rules = IF @ > 0 THEN @ - 1
                                                        ELSE 0]>>,
        "uninstalled")

-----------------------------------------------------------------------------
(* Runs, and what happens around them. *)

Begin ==
    /\ at = "off"
    /\ runs < MaxRuns
    /\ runs' = runs + 1
    /\ job' \in Job /\ rel' \in Releases
    /\ at' = "ready" /\ link' = FALSE
    /\ trusted' = {} /\ trouble' = FALSE /\ said' = ""
    /\ UNCHANGED <<router, events, past>>

Event == events < MaxEvents /\ events' = events + 1

(* The connections break: every command from here on fails. *)
Cut ==
    /\ Event
    /\ link
    /\ link' = FALSE /\ trouble' = TRUE
    /\ UNCHANGED <<router, runs, job, rel, at, trusted, said, past>>

Disturbed == trouble' = (trouble \/ at # "off")

Reboot ==
    /\ Event
    /\ router' = Boot(router)
    /\ link' = FALSE /\ Disturbed /\ RememberBoot
    /\ UNCHANGED <<runs, job, rel, at, trusted, said>>

(* The firmware unpacks the tarball after a reboot, in its own time. *)
Unpacks ==
    /\ router.tarball = "unpacking"
    /\ router' = [router EXCEPT !.tarball = "none", !.entware = TRUE]
    /\ UNCHANGED <<run, events, past>>

(* yonderd crashes or is killed. *)
DaemonDies ==
    /\ Event
    /\ router.daemon # "none"
    /\ router' = [router EXCEPT !.daemon = "none", !.held = FALSE,
                      !.pidfile = IF @ = "daemon" THEN "dead" ELSE @]
    /\ died' = TRUE
    /\ Disturbed
    /\ UNCHANGED <<runs, job, rel, at, link, trusted, said, cutStart, victim>>

(* Another process gets the pid. *)
PidReused ==
    /\ router.pidfile = "dead"
    /\ router' = [router EXCEPT !.pidfile = "foreign"]
    /\ UNCHANGED <<run, events, past>>

(* The router rebuilds its firewall. *)
FirewallReload ==
    /\ Event
    /\ router.rules > 0
    /\ router' = [router EXCEPT !.rules = 0]
    /\ Disturbed
    /\ UNCHANGED <<runs, job, rel, at, link, trusted, said, past>>

(* The owner runs the init script. *)
ByHand ==
    /\ Event
    /\ at = "off"
    /\ \E verb \in {"start", "stop", "restart"} :
          /\ router' = Last(Script(verb, router))
          /\ Remember(verb, router)
    /\ UNCHANGED run

Preparation == \/ Ready \/ Preflight \/ OpkgDisk \/ NoOpkgDisk
               \/ OpkgDiskAgain \/ OpkgDiskRefused \/ SaveConfig
               \/ Wait \/ Shell
               \/ XKeenThere \/ Cleanup \/ InstallCurl \/ RunXKeenInstaller
               \/ VerifyXKeen \/ FindThere \/ InstallFind
               \/ AccountsThere \/ SeedAccounts
               \/ GeoThere \/ FetchGeoIP \/ FetchGeoSite
Deployment  == \/ UploadDaemon \/ TextBusy \/ UploadScript
               \/ OpenFirewallPort \/ Listening
Removal     == \/ RemoveInitScript \/ RemoveApp \/ CloseFirewallPort

InstallerStep ==
    /\ UNCHANGED events
    /\ \/ (Preparation \/ Deployment \/ Removal) /\ UNCHANGED past
       \/ SystemReboot \/ StopOld \/ StartDaemon \/ StopDaemon

Around == \/ Cut \/ Reboot \/ Unpacks \/ DaemonDies \/ PidReused
          \/ FirewallReload \/ ByHand

Orphan(r) == r.daemon # "none" /\ ~Runnable(r, "S99yonder")

Noting == orphaned' = (orphaned \/ Orphan(router'))

Next == (Begin \/ InstallerStep \/ Around) /\ Noting

Spec == Init /\ [][Next]_vars
=============================================================================
