--------------------------- MODULE InstallerProps ---------------------------
(***************************************************************************)
(* What the installer and its init script promise the router's owner,      *)
(* stated over Installer.                                                  *)
(***************************************************************************)
EXTENDS Installer

Steps == {"off", "ready", "preflight", "disk", "undisk", "disk2", "save",
          "reboot", "wait", "shell", "xkeen?", "cleanup", "curl", "xkeen",
          "verify", "find?", "find", "accounts?", "accounts", "geo?", "geoip",
          "geosite", "stop", "bin1", "bin2", "bin3", "bin4", "init1", "init2",
          "init3", "init4", "firewall", "restart", "listening",
          "stopDaemon", "rmInit", "rmApp", "closePort"}

(* The type invariant.  With it: whatever is cut short and repeated, there *)
(* is never more than one firewall rule of ours.                           *)
TypeOK ==
    /\ router \in Router
    /\ runs \in 0..MaxRuns /\ events \in 0..MaxEvents /\ job \in Job /\ rel \in Releases
    /\ at \in Steps /\ said \in Verdict \cup {""}
    /\ trusted \subseteq Kept
    /\ {link, trouble, died, cutStart, orphaned, victim} \subseteq BOOLEAN

Ends(verdict) == at # "off" /\ at' = "off" /\ said' = verdict

(* When "Done" is printed, the daemon and its init script are those of     *)
(* this release and complete, whatever earlier runs left half-written; so  *)
(* are xkeen, find and the geo data, except for half files that a test of  *)
(* this run took for whole ones.                                           *)
DoneMeansInPlace ==
    [][Ends("done") =>
         /\ \A f \in Ours : router[f] = rel /\ f \in router.exec
         /\ \A f \in Kept \ {"accounts"} :
               router[f] = "whole" \/ f \in trusted]_vars

(* After "Done" without a warning or a failed command, the daemon of this  *)
(* release is up, its pid is known, its port is open and the accounts that *)
(* xkeen needs are there - unless an earlier start had been cut short and  *)
(* left a daemon that the init script does not know.                       *)
DoneMeansServing ==
    [][Ends("done") /\ ~trouble' =>
         /\ router.rules = 1
         /\ router.accounts = "whole" \/ "accounts" \in trusted
         /\ (router.daemon = rel /\ router.pidfile = "daemon") \/ cutStart]_vars

(* A run in which nothing goes wrong succeeds, whatever earlier runs left  *)
(* behind: so running the installer again is enough to repair.  Exceptions *)
(* are an uninstall without Entware, and a daemon that no stop reaches and *)
(* whose binary therefore cannot be overwritten: one no pid file knows, or *)
(* one whose init script an uninstall that could not stop it has removed,  *)
(* or an upload that broke off has left unable to run.                     *)
FailsOnlyForCause ==
    [][Ends("failed") => \/ trouble'
                         \/ cutStart \/ orphaned
                         \/ job = "uninstall" /\ ~router.entware]_vars

Complete(files) == \A f \in files : router[f] = "whole"

(* What was there and complete is not touched by a run in which nothing    *)
(* went wrong before.                                                      *)
KeepsWhatIsThere ==
    [][\A files \in {{"xkeen", "xray"}, {"find"}, {"accounts"},
                     {"geoip", "geosite"}} :
         Complete(files) => Complete(files)' \/ trouble]_vars

(* After an uninstall in which nothing went wrong, nothing of ours runs,   *)
(* is started at boot, is reachable or lies in our directory.  Only a      *)
(* daemon that the init script does not know, or that no init script is    *)
(* left to stop, may go on running.                                        *)
UninstallLeavesNothing ==
    [][Ends("uninstalled") /\ ~trouble' =>
         /\ router'.yonderd = "none" /\ router'.S99yonder = "none"
         /\ router'.staging["yonderd"] = <<>> /\ router'.rules = 0
         /\ router'.daemon = "none" \/ cutStart \/ orphaned]_vars

(* The init script stops somebody else's process only if a pid file had    *)
(* outlived its daemon.                                                    *)
StopsOnlyOurs == victim => died

(* A daemon that the pid file does not name, which no stop will find,      *)
(* exists only if a start was cut short.                                   *)
LooseOnlyByCut ==
    router.daemon # "none" /\ router.pidfile # "daemon" => cutStart

(* The installer does not reboot a router in vain: Entware will be         *)
(* unpacked, unless an answer of the router was odd and the user warned.   *)
RebootsOnlyToUnpack ==
    [][at = "reboot" /\ at' = "wait" /\ ~trouble'
         => router'.tarball = "unpacking"]_vars
=============================================================================
