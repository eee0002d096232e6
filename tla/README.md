# A TLA+ model of yonder

yonder turns a Keenetic router into a VLESS client. `yonderd`, the daemon on the
router, keeps subscriptions, a selected server, an on/off switch and routing
rules; it writes two of xray's configuration files and drives xray through the
`xkeen` wrapper. A watchdog inside it restarts xray when it dies. `yonder`, the
installer on the user's machine, puts all of this on the router over SSH. A
single page in the browser talks to the daemon.

The modules here are translated from the code under `src/`; paths below are
relative to it. `PROJECT.json` maps each definition to the lines it stands for,
lists the runs, the mutants each property is known to catch, the disagreements
found, the hazards and the theorems.

    tlc -workers 2 -config MCApplyPath.cfg MCApplyPath    # one run
    tlapm ApplyPathProofs.tla                             # one module's proofs

## 1. The system

| Component | State | Operations | Touches |
|---|---|---|---|
| State store `internal/state` | `Data` behind a mutex, and `state.json` | load, `Snapshot`, `Update` (mutate, then save by temp file and rename), subscription operations | everybody in the daemon |
| Request handlers `cmd/router-app/handlers.go` | locals of each request's goroutine | add, delete, refresh, rename a subscription; select a server; toggle; set and refresh rules | state store, `applyCh`, downloads |
| Apply worker, same file | what it read in this iteration | take a signal, read the state in two lock sections, write two files, run xkeen, report | `applyCh`, state store, config writer, xkeen |
| Config writer `internal/xray` | `04_outbounds.json`, `05_routing.json` | `WriteXKeenSplit`, `BuildOutbound` | files that xkeen reads |
| xkeen wrapper `internal/services` | none | `Restart`, `Stop`, `IsRunning`, each with a time-out | xkeen, `pidof` |
| Watchdog `internal/watchdog` | count of failures | `tick`: switch on? xray up? else restart; pause | state store, xkeen wrapper; no lock shared with the worker |
| Daemon start and stop `cmd/router-app/main.go` | channel, context | load, start worker, watchdog and server; stop | all of the above |
| Rules parser `cmd/router-app/rules.go`, VLESS parser `internal/vless` | none | pure functions on downloaded text | handlers |
| Web UI `static/app.js` | last state seen, busy, error | poll every 1.5 or 10 s, send one request at a time | handlers over HTTP |
| Keenetic CLI session `cmd/installer/keenetic.go` | SSH shell, a pipe, goroutines blocked on it | `cmd`, `waitForPrompt`, `Close` | the router's configuration |
| Entware shell, installer flows and steps (`entware.go`, `flows.go`, `steps.go`) | SSH connections; the router's settings, files, firewall and processes | bootstrap Entware, install, update, uninstall | the router |
| Init script `embed/S99yonder` | a pid file | start, stop, restart | `yonderd` |

Hard behaviours, by component:

* **Handlers and worker.** Handlers interleave at every lock acquisition. Several
  check in one critical section and act in another, some with a download of up to
  30 s in between. The worker reads the state in two halves while handlers
  change it. A signal that finds the channel full is dropped. A save may fail
  after memory has changed. The process may die anywhere, with the `applying`
  flag already on disk. *Correct means*: no change is ever forgotten, what is in
  force when the daemon is quiet is what the state says, and controls do not
  stay disabled.
* **Worker and watchdog.** Both run xkeen, which takes seconds, fails, is killed
  after 90 s wherever it is, and outlives the daemon. *Correct means*: xray runs
  on the files last asked for, the redirection of client traffic stays up while
  the VPN is on (the kill switch), off means off, and xray comes back.
* **CLI session.** Reads are given up after half a second but their goroutines
  stay; answers may come late, in pieces, or never. *Correct means*: a command
  gets its own answer, whole; what the installer reports is true; it never hangs.
* **Parsers and config writer.** Bodies are cut off at a limit, links spell one
  address in several ways, rules are good or bad one by one, and of the two files
  one may fail to be written. *Correct means*: what is kept is all that was served
  or nothing, and the two files fit together at every moment.
* **Web UI.** Answers arrive out of order with polls; other tabs act meanwhile.
  *Correct means*: the page ends up showing the daemon's state, never goes back
  without a cause, its controls come back, and what it does by itself (picking a
  server after the first addition) is what its user would have done.
* **Installer.** Every remote command may fail or be cut short anywhere, many
  failures are ignored, the router reboots, its daemon dies and its pid is used
  again; the user runs the installer again, perhaps another release. *Correct
  means*: what it claims is so, running it again repairs, what was there before is
  left alone, and an uninstall leaves nothing.

## 2. Modules

| Module | Models |
|---|---|
| `StateData` | the state record and the pure part of every operation on it |
| `ApplyPath` | state store, handlers, channel, worker, file writes, crash and restart |
| `ApplyPathProps` | its properties, the inductive invariant, the refinement mapping |
| `LatestWins` | the abstract specification: what the apply queue promises |
| `Supervisor`, `SupervisorProps` | worker and watchdog over xkeen, xray and the redirection |
| `VlessLinks`, `XrayConfig` | the VLESS parser and the parts of xray's configuration, as operators |
| `ConfigPipeline`, `ConfigPipelineProps` | download, parsing and the two file writes, composed of these |
| `UiClient`, `UiClientProps` | one browser tab against the daemon, other tabs and the worker |
| `Installer`, `InstallerProps` | runs of the installer, the shell, the bootstrap and the init script |
| `KeeneticCLI`, `KeeneticCLIProps` | the CLI session and the jobs done through it |
| `MCApplyPath`, `MCSupervisor`, `MCConfigPipeline`, `MCUiClient`, `MCInstaller`, `MCKeeneticCLI` | instances for TLC |
| `ApplyPathProofs`, `SelectionProofs`, `LatestWinsProofs` | theorems about the apply path |
| `SupervisorProofs`, `ConfigPipelineProofs`, `InstallerProofs`, `KeeneticCLIProofs`, `UiClientProofs` | theorems about the others |

Mutated definitions sit beside the definition they replace, under a comment that
begins with *Slip*. No specification uses them.

### ApplyPath

`mem` is `State.data`, `disk` is `state.json`, `applyCh` counts the signals in the
one-place channel, `files` and `xkeen` say what is on disk for xray and what it
was started on. `reqs[r]` is the goroutine of one request: `pc` is the lock
section it has reached, `op` its arguments, `affected` the local that decides
whether it will signal, `got` what it downloaded. One action is one critical
section or one call out of the process; `DeleteCheck`, `DeleteSnapshot` and
`DeleteCommit`, for instance, are the three lock acquisitions of
`deleteSubscription`. `Update` includes the save, which may fail: memory then
keeps the change and the client sees 500. The worker's two reads are two actions,
`ReadSnapshot` and `ReadServer`; so are its two file writes.

Two things are history, which no guard reads. `reqs[r].raced` is set when another
request commits, between the check of `r` and the commit of `r`, what that check
was about (`Overtakes`). `missed` holds the parts of the state (policy, server) that
were changed with no signal to follow, because the save failed or because a
deletion or refresh had been overtaken; the worker's next read of a part takes it
out again, and so does a restart.

In this module xkeen does what the worker asks, or fails half-way. The watchdog
and deaths of xray are in `Supervisor`, where the requests are reduced to "the user
wants this" and the two actors' xkeen commands overlap.

`LatestWins` says what the queue between them is for, with no queue in it: of
each part of the state (policy, server) the reader eventually reads the latest
value; a change is owed until read; it may be missed only when the system admits
it, and the admission ends with the next read. The mapping is in `ApplyPathProps` (`LW == INSTANCE LatestWins WITH ...`):
`owed` is the set of parts for which a signal is queued, about to be sent, or not
yet read in the current iteration.

### Supervisor

`cmd[c]` is an xkeen command by who started it, in phase `stop` or `start`.
`oldWorker` and `oldDog` are commands whose daemon has died. `redirect` is the set
of iptables rules that send clients to xray; `-stop` removes it, `-restart` removes
and re-installs it, xray's death leaves it. How xkeen treats an xray that another
command has just started is not known, so `XKeenStarts` allows both outcomes.

### ConfigPipeline

A link (`Line`) is a record of what the parser tells apart: scheme, host, port,
query, and the flag and words of its fragment. `ParseLink`, `DetectCountry` and
`BuildOutbound` are operators on it. A job is a listing or a reading of rules:
`pc` is what is being done, `text` the lines or rules in hand, `at` how far it has
got, `built` what it has so far, `served` the body the provider serves. One step of
a job is one turn of the code's loop (`NextLine`, `TakeRule`). `WriteOutbounds` and
`WriteRouting` are the two writes; either may fail and leaves the other's file.

### UiClient

`shown` is the page's `state`, `timer` the tick of `_pollTick`, `get` and `post` the
two requests that may be on their way, each with the state its answer was taken
from. The daemon is reduced to its cards, the selected card and `applying`; `ver`
counts its changes. An action is what JavaScript runs between two awaits. A
handler's change (`PostCommits`) and its answer (`PostServed`) are two steps; for
requests that end in `respondAfterApply` the second raises `applying` (`Marked`).
Either save may fail: after the first the client sees an error, after the second
it gets `Empty`, the zero `Data` that `Update` returns, with status 200. Its lists
are null, so a page that shows it has neither cards nor controls.

### Installer

`router` is the router: settings, files (`part` for one that was cut short, which
passes `test -s` and `test -x`), what an upload has staged, the firewall rules, the
process and whom the pid file names. A remote command is a *course*, the sequence
of states it takes the router through. One that succeeds goes through all of it;
one that fails, times out or loses its exit marker stops anywhere. `Must` is a
command whose failure ends the run, `Try` one whose failure is ignored, `Test` a
test, which counts as negative when it fails. `at` is the step of the flow.
`trusted` names the half files that a test of this run took for whole ones.
Around the runs connections break, the router reboots, `yonderd` dies, its pid is
used again, the firewall is rebuilt, and the owner runs the init script.

### KeeneticCLI

`todo` holds commands sent and not carried out, `out` the pieces of output
nobody has read, `orphans` the readers that were given up but still wait on the
pipe in front of the present one. `step` walks through `freePort443`,
`configureDNSUpstream` or `removeDNSUpstream`; `said` is what was printed. The
router is external: it may be slow or silent, its answers come in one or two
pieces, and it carries a command out (`Obeys`) or refuses it (`Refuses`), which the
installer cannot tell apart, since any prompt counts as success. `refused` is
history: the commands of this session that were refused.

## 3. Runs

| Run | Instance | Shows |
|---|---|---|
| `apply_path` | 2 requests of all 8 kinds, 1 crash, 1 failed save; 287,811 states | `TypeOK`, `NoLostWakeup`, `QuietMeansInForce`, `ApplyingHasOwner`, `DanglesOnlyByRace`, `OnWithoutTargetOnlyBy`, `RulesApartOnlyByRefresh`, and that `ApplyPath` implements `LatestWins` |
| `apply_live` | 2 requests, 1 failed save, fairness; 216,251 states | `Delivered`, `ControlsComeBack`, `EventuallyInForce` |
| `supervisor` | 2 configurations, 2 changes, 2 faults, 1 crash, fairness; 614,640 states | `TypeOK`, `RunsWhatWasAsked`, `FailsClosed`, `OffUnlessOverlap`, `Recovers` |
| `config_pipeline` | bodies of up to 3 lines of 8 kinds, documents of up to 2 rules of 5 kinds, 2 writes; 122,572 states | `ListedAsServed`, `FilesFit`, `RulesAllOrNothing` |
| `ui_client` | 2 cards, 2 requests of the user, 1 change in another tab, 1 lost request, 1 failed save, fairness; 675,143 states | `TypeOK`, `GoesBackOnlyIfOvertaken`, `AutoPickOnboards`, `ControlsComeBack`, `EventuallyShown` |
| `installer` | 2 releases, 2 runs, 1 event; 759,580 states | `TypeOK`, `StopsOnlyOurs`, `LooseOnlyByCut`, `DoneMeansInPlace`, `DoneMeansServing`, `FailsOnlyForCause`, `KeepsWhatIsThere`, `UninstallLeavesNothing`, `RebootsOnlyToUnpack` |
| `keenetic_cli` | 2 sessions, 2 read windows to a deadline, 1 refused command in each, fairness; 1,159,494 states | `TypeOK`, `AnswersAreWhole`, `PortIsFree`, `ConfiguredIsSaved`, `RemovedIsGone`, `NearsItsEnd`, `SessionsEnd` |

Five runs show disagreements between the code and what it says of itself; TLC
prints the behaviour.

| Run | What happens |
|---|---|
| `final_intent` | a selection between a deletion's snapshot and its commit is dropped without a signal: the worker has restarted xkeen for a VPN that was on, and xray stays up while the state says off ("final intent always wins") |
| `stale_flag` | a crash during an apply leaves `applying` set for good ("true between requestApply and the worker finishing") |
| `off_means_off` | a watchdog tick read "on", the worker stops xray for "off", the tick finds it down and starts it again |
| `back_off` | `tick` reports one failure however many came before, so the back-off never grows |
| `lost_prompt` | a reader given up after half a second swallows the prompt the next one waits for |

The passing properties name these situations and others as exceptions, so they
say where a promise holds and that nothing *else* breaks it:

* `missed` in `NoLostWakeup`, `QuietMeansInForce` and `EventuallyInForce`: a change is not
  followed by a signal if its save failed, or if it is that of a deletion or refresh
  whose subscription was selected between its snapshot and its commit. Only the
  parts it changed are excused, and only until the worker reads them again.
* `DanglesOnlyByRace`, `OnWithoutTargetOnlyBy` and `RulesApartOnlyByRefresh` are action
  properties, so that they can speak of order: a selection comes to dangle, the VPN
  to be on without a target, rules to differ from their URL only in the very step
  that commits a request which another one overtook since its check - a selection
  whose server went, a toggle whose target went, a rules refresh whose URL was
  changed - or, for the second, a deselection. That much the code allows; none of
  the other handlers does it, in whatever order they ran before. A restart from a
  file that says so is excepted as well.
* `refused` in `PortIsFree`, `ConfiguredIsSaved` and `RemovedIsGone`: each promise names
  the very commands whose refusal breaks it. `cmd` returns no error for any answer
  that ends in a prompt (keenetic.go:88-118) and steps.go:230-281 never looks at the
  answers, so a refused `https upstream` is reported with "DoH upstream configured",
  although README.md:52 says of the step that it "Adds Cloudflare's DoH endpoint".
  It can be refused: that the router has the dns-https component is checked in
  bootstrap only (flows.go:54-57).
* `GoesBackOnlyIfOvertaken`: of two answers on their way, a poll's and a POST's, the
  one that was served first may arrive last and put the older state back on the
  page. The next poll puts it right (`EventuallyShown`). `late` and `overtaken` are
  history variables that say which was served later and which came first. The
  other way back is an empty answer: `Update` returns `Data{}` when its save fails
  (state.go:183), `respondAfterApply` drops the error and writes that with status 200
  (handlers.go:433), and the page, whose lists are then null, hides both of its
  sections until a poll repairs it.
* `trusted` in `DoneMeansInPlace`: a `geosite.dat` or an xray that an earlier run left
  half-written passes `test -s` or `test -x` and is taken for complete.
* `cutStart` and `orphaned` in `FailsOnlyForCause`, `UninstallLeavesNothing` and
  `DoneMeansServing`: a start that is cut off before it writes the pid file leaves a
  daemon no stop finds; an uninstall whose stop failed, or an upload of the init
  script that broke off, leaves one without a script to stop it. The next
  install then fails, since the binary of a running process cannot be written.

**Bounds.** Each request is made once, so two requests give every pair of handlers
in every interleaving, and every exception above needs just two; that no third
request adds one is proved. One crash separates what memory and disk keep; a
second adds only a restart from an older file. Two configurations and two
changes let a stale value differ from a new one and return to the first. One
failed save meets each of two requests, before and after the other. Two
faults let a retry fail too. Two subscriptions, two server ids and two contents
distinguish another subscription, a removed server, and a server whose content
changed under the same id. `Req` is a symmetry set in the safety runs only.

In `ConfigPipeline` three lines allow a repeated address with another between; the
eight kinds have three spellings of one address, parameters given twice or left
empty, a country by flag, by one word and by two, a port that is no integer,
a line that only mentions vless, and noise. A body is measured in lines and
cut off after two, so bodies at the limit and beyond it both occur. In
`UiClient` one other tab, one lost request and one failed save (the first or the
second of a request) meet each of two requests, one of which may be the addition with its automatic pick. In `Installer` two runs are the
least in which one meets what another left, and an upload of two chunks is the
least with a first and a later one; a daemon that no script can stop and that a
later run meets needs up to three runs, so that exception rests on the proofs,
which hold for any number of runs, events and releases. In `KeeneticCLI` two read
windows are the least in which a reader is given up while another reads (the code
has 20 to 360, so it swallows more, not less), and a second session meets what a
first left behind. One refused command in each session reaches every exception
singly; that more of them add none is proved. A refusal comes in one piece: how an
answer without text is cut up is varied where the command is carried out. HTTPS
admin starts on 443 there, and in `lost_prompt` it may also be off; port 8443 is
what a first session leaves.

**Deadlock** is not checked: a daemon with no requests left and an installer that
has finished rightly stop.

**Fairness.** `ApplyPath!FairSpec` assumes weak fairness of the worker and of each
request once it has started: goroutines run, downloads end at the HTTP client's
30 s, xkeen at its 90 s. No request has to arrive and nothing has to fail.
`Supervisor!FairSpec` assumes it of a pending signal, of the worker, of the watchdog,
whose timer fires, and of each command, which ends or is killed. No death of xray
and no change has to happen, and faults are finite: the claim is that xray is back
once they stop. `UiClient!FairSpec` assumes that timers fire, that a request is
answered or fails, and that the apply worker ends its iterations, which
`apply_live` shows; the user and other tabs need do nothing. `KeeneticCLI!FairSpec`
assumes that the installer's own steps and timers are taken; the router may stay
silent for ever. `Installer` and `ConfigPipeline` have no liveness property: every
loop of the pipeline takes one item off, and a run of the installer is a fixed
sequence of commands with time-outs, of which none comes twice.

## 4. Proofs

TLAPS proves for *every* set of requests, subscriptions, servers, listings, rules,
configurations, lines, aliases and releases, and every bound:

* `TypeCorrect`, `Inductive`, `WakeupsAreNotLost`, `FlagHasOwner`, `QuietIsInForce`
  (`ApplyPathProofs`): the safety invariants of the apply path;
* `DanglingNeedsARace`, `TargetlessHasACause`, `RulesApartNeedARace`
  (`SelectionProofs`): its three ways to contradict itself have those causes only;
* `Refinement` (`ApplyPathProofs`): `Spec => ImplementsLatestWins`;
* `PromiseKept` (`LatestWinsProofs`): the abstract queue keeps `Promise`;
* `SupervisorTyped`, `AskedIsRun`, `StaysClosed`, `OffStaysOff` (`SupervisorProofs`):
  every safety property of worker and watchdog;
* `ListsAreTrue`, `RulesAreTakenWhole`, `FilesAlwaysFit` (`ConfigPipelineProofs`): every
  property of the pipeline;
* `InstallerTyped`, `OthersAreSpared`, `LooseNeedsACut`, `DoneIsInPlace`, `DoneIsServing`,
  `FailuresHaveACause`, `UninstallIsClean`, `RebootsUnpack`, `CompleteIsKept`
  (`InstallerProofs`): every safety property of the installer;
* `SessionTyped`, `AnswersComeWhole`, `FreedIsFree`, `UpstreamIsSaved`, `UpstreamIsGone`,
  `SessionsAreBounded` (`KeeneticCLIProofs`): every safety property of the CLI session;
* `TabTyped`, `PageGoesForward`, `OnboardingIsRight` (`UiClientProofs`): every safety
  property of the page.

So every invariant and every action property that a passing run checks is a theorem.

Assumptions, all named and evaluated by TLC in the passing runs:
`ListingAssumption` (a listing maps server ids to contents), `NoneAssumption`,
`NoneIsNoRef`, `NoneIsNoData` (`None` differs from everything it stands in for),
`KindsAssumption`, `SavedAssumption`, `BoundsAssumption`, and their like in the other
modules (`InstallerAssumption`: the words for an absent and for a half file are no
releases). Nothing is assumed of the state files that the daemon starts from but
their type.

**The apply path.** `NoLostWakeup` and `QuietMeansInForce` are not inductive by
themselves. The inductive invariant is

    IInv == TypeOK /\ IssuedInv /\ RaceInv /\ NoLostWakeup /\ ApplyingHasOwner /\ WorkerInv

* `RaceInv` carries the heart of it: a request about to commit that nobody has
  overtaken still finds what it checked. So a deletion that has decided not to
  signal removes a selection only if somebody selected in that subscription since
  its snapshot, and then what it changes is in `missed`.
* `IssuedInv` says subscription ids in use were issued, so a new subscription
  cannot take over a dangling selection and change the server in force without
  a signal.
* `WorkerInv` ties the worker's position to what files and xray already say, which
  together with `NoLostWakeup` gives `QuietMeansInForce`.

`ApplyPathProofs` begins with lemmas on what each state operation does to the
selected server and the policy. Then it has one lemma per action, and under it
one step per conjunct the action can disturb. The refinement uses the invariant
in one place: a part that a step changes must be owed or `missed`.

`SelectionProofs` needs no invariant of its own. Most steps do not touch selection,
switch and rules (`QuietSteps`); an addition, a deletion or a refresh makes nothing
dangle (`AddHarmless`, `RemovalHarmless`); and the commits that can (a
selection, a toggle, a rules refresh) do so only if `raced`, which is `RaceInv` read
backwards.

**Worker and watchdog.** `IInv` in `SupervisorProofs` adds to the types: a command is
at work as long as its caller waits for it (`Control`); without a signal on its
way, what the worker has read and written is what is wanted (`Fresh`); after its
stop only an xray on the present files can be up (`OnPresentFiles`); clients are
redirected, or somebody is about to see to it (`Closed`); after a stop that nothing
overlapped nobody is left to bring xray back (`Off`).

**The pipeline.** `ListsUpTo(list, t, n)` is the invariant of the parser's loop: the
list is that of the first `n` lines. A line whose address is new adds its entry at
the end, any other changes nothing. For the rules: those taken so far are
sound, and mean what their author wrote.

**The installer.** The courses come first: what a stop, a start or an upload may
leave, whole or cut short. Each action is then put into one form,
`Row(step, fields, to)`: taken at `step`, it changes only these `fields` of the
router and goes on to one of `to`; `Beside` says the same of what happens around a
run. The invariant is

    InstallerInv == TypeOK /\ ProcessInv /\ PlaceInv /\ GeoInv /\ SmoothInv

* `ProcessInv`: daemon, pid file and init script agree, but for what the history
  variables own up to;
* `PlaceInv`: what earlier steps of this run put in place is there at every later
  one, whether or not things went wrong, since a failed checked command ends the
  run;
* `SmoothInv`: as long as nothing has gone wrong in this run, the ignored commands
  have worked too. `GeoInv` (the two geo files come in one order) is what it needs
  to know that a fetch replaces nothing complete.

**The CLI session.** `AnswersAreWhole` says what a command has when it comes back;
that it comes out right needs to know what is on its way before. `InStep` says it:
as long as no command of the session gave up, either the present command is the
only one the router has not carried out and nothing is on the pipe, or what is on
the pipe is the rest of its answer, of which `buf` has the beginning (`Coming`), and
the command has had its effect (`Carried`); or that answer was swallowed. Each
piece read moves from one of these cases to the next. `SoFar` keeps the
effects of earlier commands, or their refusal, and `StillThere` that an upstream an answer shows is
still there when the answer is read. `InStartup` is the part that spans sessions:
running and startup configuration agree on the upstream unless its commands are at
work or some session broke off.

`NearsItsEnd` gives the safety part of "a session does not hang", which *can* be
proved: `Distance` weighs the commands ahead, the read windows left to the
present one and the output that may still come, in that order, and every step of
the installer decreases it while no step of router or pipe increases it. One
command less outweighs all the windows and pieces of the next (`OneStepLess`). What is
left to fairness, and to TLC (`SessionsEnd`), is that the next step is taken.

**The page.** `Newer` says that an answer that was not overtaken is at least as new
as what is shown, and that of two answers on their way the one that was served
later is the newer; `Older` that nothing is newer than the daemon. `Onboarding`
follows a card that was added from the daemon, where it is last, through the
answer, which may be served after a worker's change, to the request that picks it;
an empty answer never is one to an addition, and is older than every state. Nothing is selected in between, unless another tab raced.

**Only model-checked:** the liveness properties (`Delivered`, `EventuallyInForce`,
`ControlsComeBack` of both, `Recovers`, `EventuallyShown`, `SessionsEnd`), since
fairness and ENABLED are out of the prover's reach.

## 5. What is not modelled

* Labels, sources, times, warnings and messages. In `ApplyPath` a set of rules is
  named by its URL, so a file that changed behind the same URL is not told apart,
  and the age of a downloaded list is not kept: of two refreshes the one that
  commits last wins, and nothing in the code promises otherwise.
* Requests turned away before the state is looked at.
* Loss of power: `state.json` is renamed without an fsync; a crash here is one of
  the process.
* The mode without xkeen, in which commands are skipped. A user rule set is never
  empty, since the rules parser refuses one.
* Graceful shutdown as such: SIGTERM waits for neither worker nor xkeen, so the
  crash action covers it at every point.
* `Supervisor` takes the worker's two reads as one step (`ApplyPath` splits them);
  other users of xkeen on the router are left out.
* In `ConfigPipeline`: `deriveLabel`, percent decoding, the spelling of JSON, the
  wording of errors, DNS. A port is held against the width of an integer, as the
  code does, and not against 65535.
* In `UiClient`: a card has one server, and a handler's check and change are one step
  (`ApplyPath` has both in full); a selection made in another tab raises the flag in
  the same step; the first GET is taken to end within the ten seconds before the
  first tick; no toasts.
* In `Installer`: `uploadDirectory`, which nobody calls; the read-only checks before
  the bootstrap are one step that may fail; the CLI commands of port 443 and the
  DNS upstream, which end no run, are left to `KeeneticCLI`; `/var/run` is taken to be
  emptied by a reboot. `iptables -D` is taken to fail only when the rule is not there:
  if it failed for another reason, the `-I` after its `;` would add a second rule.
  The excuses `cutStart` and `orphaned` last for the rest of a behaviour, although a
  reboot ends the daemon they are about.
* In `KeeneticCLI`: a refused `dns-proxy` or `exit`, which shows in the upstream being
  refused or not at all; a command that is carried out in part; the read-only
  pre-flight queries; a prompt split over two pieces; and readers overtaking each
  other on the pipe.
* Markup, styles, build scripts and console prompts.
