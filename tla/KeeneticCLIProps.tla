-------------------------- MODULE KeeneticCLIProps --------------------------
(***************************************************************************)
(* What a CLI session promises the installer, and what the installer       *)
(* promises its user on the strength of it, stated over KeeneticCLI.       *)
(***************************************************************************)
EXTENDS KeeneticCLI

PieceType == [of : Command \cup {"login"}, part : 1..2, prompt : BOOLEAN,
              says : SUBSET (AllPorts \cup {"doh"})]

(* The type invariant. *)
TypeOK ==
    /\ sessions \in 0..MaxSessions
    /\ job \in Job
    /\ step \in Command \cup {"login", "close", "none"}
    /\ wait \in {"idle", "loop", "reading"}
    /\ ticks \in 0..Windows
    /\ buf \in Seq(PieceType) /\ out \in Seq(PieceType)
    /\ came \in Command \cup {"login", "none"}
    /\ orphans \in Nat
    /\ {link, gaveUp, lost, missed, broken} \subseteq BOOLEAN
    /\ todo \in Seq(Command)
    /\ refused \subseteq Command
    /\ running \in Config /\ saved \in Config
    /\ said \subseteq {"skipped", "freed", "present", "configured",
                       "uninstalled"}

(* As long as no output was swallowed and no command gave up, a command    *)
(* that comes back has its own answer, all of it and nothing else.         *)
AnswersAreWhole ==
    came # "none" /\ ~lost /\ ~gaveUp =>
        /\ \A i \in DOMAIN buf : buf[i].of = came /\ buf[i].part = i
        /\ Last(buf).prompt

(* The port the installer says it freed is free, now and after a reboot,   *)
(* unless the router refused that change or its save.  If the installer    *)
(* found nothing to free, the port was free, unless output was swallowed   *)
(* or the router refused to show its configuration.                        *)
PortIsFree ==
    /\ "freed" \in said =>
          /\ "port443" \in refused \/ running.port = "8443"
          /\ {"port443", "save443"} \cap refused # {} \/ saved.port = "8443"
    /\ "skipped" \in said /\ ~lost /\ "show443" \notin refused =>
          running.port # "443"

(* An upstream reported as configured is in force and will survive a       *)
(* reboot, unless a command gave up or the router refused the upstream or  *)
(* the save; one found present is in force, and saved unless an earlier    *)
(* run broke off between the change and the save, or had its save refused. *)
ConfiguredIsSaved ==
    /\ "configured" \in said /\ ~gaveUp /\ "upstream" \notin refused =>
          running.doh /\ (saved.doh \/ "saveDNS" \in refused)
    /\ "present" \in said => running.doh /\ (saved.doh \/ broken)

(* After an uninstall in which no command gave up, no output was swallowed *)
(* and the router refused neither to show the upstream nor to remove it,   *)
(* the upstream is gone; for good unless that save was refused, or an      *)
(* earlier run broke off or had its save refused.                          *)
RemovedIsGone ==
    /\ "uninstalled" \in said /\ ~gaveUp /\ ~lost
    /\ {"showDNS", "upstream"} \cap refused = {}
    => ~running.doh /\ (~saved.doh \/ broken \/ "saveDNS" \in refused)

(* How far a session is from its end: the commands ahead, the windows left *)
(* to the present one, and the output that may still come in between.      *)
Ahead == [none |-> 0, close |-> 1, saveDNS |-> 2, exit |-> 3, upstream |-> 4,
          dns |-> 5, showDNS |-> 6, save443 |-> 7, port443 |-> 8,
          show443 |-> 9, login |-> 10]

Turn == CASE wait = "reading" -> 2 * (Windows - ticks)
          [] wait = "loop"    -> 2 * (Windows - ticks) + 1
          [] wait = "idle"    -> IF step \in Command THEN 2 * Windows + 6 ELSE 0

Distance == (2 * Windows + 7) * Ahead[step] + Turn
            + 2 * (Len(out) + 2 * Len(todo))

(* Every step of the installer brings the session nearer its end, and      *)
(* nothing the router sends, or does not send, takes it back: there is a   *)
(* bound on the steps of a session.                                        *)
NearsItsEnd ==
    [][step # "none" => /\ Distance' <= Distance
                        /\ ClientStep => Distance' < Distance]_vars

(* Whatever the router does, the installer does not hang in a session:     *)
(* there is always a later time at which it has none.                      *)
SessionsEnd == []<>(step = "none")

-----------------------------------------------------------------------------
(* What the repository says and the code does not do. *)

(* waitForPrompt: "reads from the shell until promptRE matches": while it  *)
(* waits, the prompt it waits for has not come and gone to another reader. *)
ReadsUntilPrompt ==
    wait # "idle" => ~missed
=============================================================================
