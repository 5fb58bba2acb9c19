------------------------------ MODULE Dashboard ------------------------------
(***************************************************************************)
(* omarchy-install-dashboard beside the installer it supervises: it polls  *)
(* state.json and the package database while the installer changes both,   *)
(* ends with its status, reboots or offers a menu, and takes the installer *)
(* with it when it is interrupted.  The session script starts it, each     *)
(* time with no state.json.                                                *)
(*                                                                         *)
(* Seconds, per-mille and packages are the code's; the names of the phases *)
(* are abbreviated.                                                        *)
(***************************************************************************)
EXTENDS Integers, Sequences, FiniteSetsExt

CONSTANTS
  Sessions,     \* what the dashboards are told by their environment and by the medium
  MaxAttempts,  \* bound: how often the session script is run
  MaxClock,     \* bound: seconds spent
  Delays,       \* bound: what time passes by
  Batches,      \* bound: how many packages at a time
  MaxPackages,  \* bound: packages on the target
  MaxMoves,     \* bound: how often one is reinstalled
  MaxPolls      \* bound: polls of a stopping installer (20 in the code)

\* interactive, deferred, autoreboot and failexit are OMARCHY_UI_INTERACTIVE # no,
\* OMARCHY_UI_DEFER_PROVISIONING = yes, OMARCHY_UI_AUTO_REBOOT # no and
\* OMARCHY_UI_FAILURE_ACTION = exit; expected is what the medium says of the
\* packages; held are those on a target that is mounted already.
ASSUME DashboardAssumption ==
  /\ {MaxAttempts, MaxClock, MaxPackages, MaxMoves, MaxPolls} \subseteq Nat
  /\ Delays \cup Batches \subseteq Nat \ {0}
  /\ \A s \in Sessions :
       /\ {s.interactive, s.deferred, s.autoreboot, s.failexit} \subseteq BOOLEAN
       /\ {s.expected, s.held} \subseteq Nat

\* build_phases
Phases == <<"live", "target", "packages", "hibernation", "system", "staging", "limine",
            "user", "login", "ssh", "tailscale", "dns", "validate", "snapshot">>

VARIABLES
  session,   \* the environment
  attempt,   \* how often the session script was run
  clock,     \* seconds
  file,      \* state.json
  inst,      \* the installer
  packages,  \* the target's packages: count in the database, done and moved by this installer
  dash,      \* the line the dashboard is at
  pid,       \* it has recorded the installer's pid
  frame,     \* what it has read for the frame it draws
  view,      \* what it remembers of the progress
  polls,     \* how often it has looked for a stopping installer
  rebooted   \* who has rebooted the machine

installer == <<file, inst, packages>>
dashboard == <<dash, pid, frame, view, polls, rebooted>>
vars == <<session, attempt, clock, installer, dashboard>>

Absent == [there |-> FALSE, name |-> "", index |-> -1, finished |-> FALSE]
NoFrame == [read |-> FALSE, now |-> 0, name |-> "", index |-> -1, finished |-> FALSE]
NoInstaller == [at |-> "none", index |-> 0, whole |-> FALSE, killed |-> FALSE]
NewView == [pos |-> 10, name |-> "", t0 |-> clock, base |-> -1, seen |-> 0, bonus |-> 0, change |-> clock]

Exited == inst.at \in {"ok", "failed"}
Ended == inst.at = "none" \/ Exited

Init ==
  /\ session \in Sessions
  /\ attempt = 0 /\ clock = 0
  /\ file = Absent
  /\ inst = NoInstaller
  /\ packages = [count |-> 0, done |-> 0, moves |-> 0, flying |-> FALSE]
  /\ dash = "over" /\ pid = FALSE
  /\ frame = NoFrame
  /\ view = NewView
  /\ polls = 0
  /\ rebooted = "no"

-----------------------------------------------------------------------------
(* The session script                                                      *)

\* Seeded fault: the state of the attempt before is left.
BeginOver ==
  /\ dash = "over" /\ rebooted = "no" /\ Ended /\ attempt < MaxAttempts
  /\ attempt' = attempt + 1
  /\ inst' = NoInstaller
  /\ packages' = [count |-> session.held, done |-> 0, moves |-> 0, flying |-> FALSE]
  /\ dash' = "start" /\ pid' = FALSE /\ frame' = NoFrame /\ view' = NewView /\ polls' = 0
  /\ UNCHANGED <<session, clock, file, rebooted>>

\* rm -f state.json, then the dashboard; not while an installer is left.
Begin ==
  /\ dash = "over" /\ rebooted = "no" /\ Ended /\ attempt < MaxAttempts
  /\ attempt' = attempt + 1
  /\ file' = Absent
  /\ inst' = NoInstaller
  /\ packages' = [count |-> session.held, done |-> 0, moves |-> 0, flying |-> FALSE]
  /\ dash' = "start" /\ pid' = FALSE /\ frame' = NoFrame /\ view' = NewView /\ polls' = 0
  /\ UNCHANGED <<session, clock, rebooted>>

Tick ==
  /\ dash = "poll" /\ ~ Ended
  /\ \E delay \in Delays : clock + delay <= MaxClock /\ clock' = clock + delay
  /\ UNCHANGED <<session, attempt, installer, dashboard>>

-----------------------------------------------------------------------------
(* The installer: main() and run(), as far as they can be seen             *)

Working == UNCHANGED <<session, attempt, clock, dashboard>>
Publish(name, index, finished) ==
  file' = [there |-> TRUE, name |-> name, index |-> index, finished |-> finished]

\* run() begins; from_env may have ended it before.
Starting ==
  /\ inst.at = "starting"
  /\ Publish("starting", 0, FALSE)
  /\ inst' = [inst EXCEPT !.at = "working"]
  /\ UNCHANGED packages /\ Working

BeginPhase ==
  /\ inst.at = "working" /\ inst.index < Len(Phases) /\ ~ packages.flying
  /\ Publish(Phases[inst.index + 1], inst.index, FALSE)
  /\ inst' = [inst EXCEPT !.index = @ + 1]
  /\ UNCHANGED packages /\ Working

InPackages == inst.at = "working" /\ inst.index > 0 /\ Phases[inst.index] = "packages"

\* libalpm makes one directory per package, and moves that of a reinstalled one.
Unpack ==
  /\ InPackages /\ ~ packages.flying
  /\ \E n \in Batches :
       /\ packages.count + n <= MaxPackages
       /\ packages' = [packages EXCEPT !.count = @ + n, !.done = @ + n]
  /\ UNCHANGED <<file, inst>> /\ Working

Lift ==
  /\ InPackages /\ ~ packages.flying /\ packages.count > 0 /\ packages.moves < MaxMoves
  /\ packages' = [packages EXCEPT !.count = @ - 1, !.moves = @ + 1, !.flying = TRUE]
  /\ UNCHANGED <<file, inst>> /\ Working

PutBack ==
  /\ InPackages /\ packages.flying
  /\ packages' = [packages EXCEPT !.count = @ + 1, !.done = @ + 1, !.flying = FALSE]
  /\ UNCHANGED <<file, inst>> /\ Working

\* finished_at
Complete ==
  /\ inst.at = "working" /\ inst.index = Len(Phases)
  /\ Publish("complete", Len(Phases) - 1, TRUE)
  /\ inst' = [inst EXCEPT !.at = "written", !.whole = TRUE]
  /\ UNCHANGED packages /\ Working

Exit ==
  /\ inst.at = "written"
  /\ inst' = [inst EXCEPT !.at = "ok"]
  /\ UNCHANGED <<file, packages>> /\ Working

\* A phase, the timing copy or the clean-up fails, or a signal ends it.
Fail ==
  /\ ~ Ended
  /\ inst' = [inst EXCEPT !.at = "failed"]
  /\ UNCHANGED <<file, packages>> /\ Working

\* The kernel ends a process that was sent SIGKILL.
Die == inst.killed /\ Fail

-----------------------------------------------------------------------------
(* Progress                                                                *)

\* The band of a known phase and its tau.
Bands ==
  [starting |-> <<10, 25, 5>>,      live |-> <<25, 50, 25>>,       target |-> <<50, 65, 20>>,
   packages |-> <<65, 700, 150>>,   hibernation |-> <<700, 720, 10>>, system |-> <<720, 850, 120>>,
   staging |-> <<850, 855, 5>>,     limine |-> <<855, 950, 90>>,   user |-> <<950, 978, 30>>,
   login |-> <<978, 988, 5>>,       dns |-> <<988, 994, 5>>,       validate |-> <<994, 998, 5>>,
   snapshot |-> <<998, 1000, 5>>]

\* Another one has an even share of the bar, from its published index.
Band(name, index) ==
  IF name \in DOMAIN Bands THEN Bands[name]
  ELSE <<10 + (990 * index) \div Len(Phases), 10 + (990 * (index + 1)) \div Len(Phases), 60>>

\* PKG_TOTAL
Expected == IF session.expected < 300 \/ session.expected > 5000 THEN 0 ELSE session.expected
Signal(name) == name = "packages" /\ Expected > 0

Span(band) == Max({band[2] - band[1], 2})

\* The floor: time since this process saw the phase.
Floor(band, tau, t) == band[1] + ((Span(band) - 1) * t) \div (t + tau)

\* The phase is new to this process.
Entered(v) ==
  IF frame.name = v.name THEN v
  ELSE [v EXCEPT !.name = frame.name, !.t0 = frame.now, !.base = -1, !.seen = 0,
                 !.bonus = 0, !.change = frame.now]

\* Seeded fault: what the target held is counted as installed.
CountedFromZero(v) ==
  LET seen == Max({v.seen, packages.count})
      change == IF seen > v.seen THEN frame.now ELSE v.change
  IN [v EXCEPT !.base = 0, !.seen = seen, !.change = change,
               !.bonus = Max({@, Min({frame.now - change, 100})})]

\* Seeded fault: the bonus for waiting is not capped.
CountedUncapped(v) ==
  LET base == IF v.base < 0 THEN packages.count ELSE v.base
      seen == Max({v.seen, packages.count - base})
      change == IF seen > v.seen THEN frame.now ELSE v.change
  IN [v EXCEPT !.base = base, !.seen = seen, !.change = change,
               !.bonus = Max({@, frame.now - change})]

\* Packages since the first sight of the phase, a running maximum.
Counted(v) ==
  LET base == IF v.base < 0 THEN packages.count ELSE v.base
      seen == Max({v.seen, packages.count - base})
      change == IF seen > v.seen THEN frame.now ELSE v.change
  IN [v EXCEPT !.base = base, !.seen = seen, !.change = change,
               !.bonus = Max({@, Min({frame.now - change, 100})})]

Work(band, v) == band[1] + ((Span(band) - 1 - 40) * v.seen) \div Expected + v.bonus

\* install_progress, after the state was read.
InstallProgress ==
  LET band == Band(frame.name, frame.index)
      entered == Entered(view)
      t == frame.now - entered.t0
      v == IF Signal(frame.name) THEN Counted(entered) ELSE entered
      pos == IF Signal(frame.name) THEN Max({Floor(band, 900, t), Work(band, v)})
             ELSE Floor(band, band[3], t)
  IN IF ~ frame.read THEN view
     ELSE IF frame.finished THEN [view EXCEPT !.pos = 1000]
     ELSE [v EXCEPT !.pos = Max({@, Min({pos, band[2] - 1})})]

-----------------------------------------------------------------------------
(* The dashboard                                                           *)

Supervising == UNCHANGED <<session, attempt, clock, file, packages>>
At(line) == dash' = line
\* Nothing is drawn any more.
Forget == frame' = NoFrame /\ view' = NewView

\* Without a terminal it ends before it has launched anything.
Launch ==
  /\ dash = "start"
  /\ \/ inst' = [inst EXCEPT !.at = "starting"] /\ At("launch")
     \/ At("over") /\ UNCHANGED inst
  /\ UNCHANGED <<pid, frame, view, polls, rebooted>> /\ Supervising

\* child_pid=$!
Record ==
  /\ dash = "launch"
  /\ pid' = TRUE
  /\ At("poll")
  /\ UNCHANGED <<inst, frame, view, polls, rebooted>> /\ Supervising

\* set_now and jq, which may read nothing.
Read ==
  frame' \in {NoFrame} \cup
    {[read |-> TRUE, now |-> clock, name |-> f.name, index |-> f.index, finished |-> f.finished] :
       f \in {g \in {file} : g.there}}

Look ==
  /\ dash = "poll" /\ ~ Ended
  /\ Read
  /\ At("draw")
  /\ UNCHANGED <<inst, pid, view, polls, rebooted>> /\ Supervising

\* The packages are counted and the frame is drawn.
Draw ==
  /\ dash = "draw"
  /\ view' = InstallProgress
  /\ frame' = NoFrame
  /\ At("poll")
  /\ UNCHANGED <<inst, pid, polls, rebooted>> /\ Supervising

\* Seeded fault: an installation is complete if its state says so.
ReapState ==
  /\ dash = "poll" /\ Ended
  /\ pid' = FALSE
  /\ IF file.finished THEN At("last look") /\ UNCHANGED <<frame, view>> ELSE At("failure") /\ Forget
  /\ UNCHANGED <<inst, polls, rebooted>> /\ Supervising

\* The loop ends with the installer; wait tells its status.
Reap ==
  /\ dash = "poll" /\ Ended
  /\ pid' = FALSE
  /\ IF inst.at = "ok" THEN At("last look") /\ UNCHANGED <<frame, view>> ELSE At("failure") /\ Forget
  /\ UNCHANGED <<inst, polls, rebooted>> /\ Supervising

LastLook ==
  /\ dash = "last look"
  /\ Read
  /\ At("last draw")
  /\ UNCHANGED <<inst, pid, view, polls, rebooted>> /\ Supervising

LastDraw ==
  /\ dash = "last draw"
  /\ view' = InstallProgress
  /\ frame' = NoFrame
  /\ At(IF session.deferred THEN "reboot" ELSE "finish")
  /\ UNCHANGED <<inst, pid, polls, rebooted>> /\ Supervising

\* The finish screen, and reboot_prompt where nobody is there to answer it.
Finish ==
  /\ dash = "finish" /\ ~ session.interactive
  /\ At("reboot")
  /\ UNCHANGED <<inst, pid, frame, view, polls, rebooted>> /\ Supervising

\* The user answers reboot_prompt, or gum fails.
RebootPrompt ==
  /\ dash = "finish" /\ session.interactive
  /\ At("reboot") \/ At("over")
  /\ UNCHANGED <<inst, pid, frame, view, polls, rebooted>> /\ Supervising

Reboot ==
  /\ dash = "reboot"
  /\ rebooted' = IF session.autoreboot THEN "dashboard" ELSE rebooted
  /\ At("over")
  /\ UNCHANGED <<inst, pid, frame, view, polls>> /\ Supervising

\* The failure screen, and failure_menu where it returns by itself.
Failure ==
  /\ dash = "failure" /\ (session.failexit \/ ~ session.interactive)
  /\ At("over")
  /\ UNCHANGED <<inst, pid, frame, view, polls, rebooted>> /\ Supervising

\* The user leaves failure_menu for a shell, or reboots or powers off.
FailureMenu ==
  /\ dash = "failure" /\ session.interactive /\ ~ session.failexit
  /\ rebooted' \in {"no", "user"}
  /\ At("over")
  /\ UNCHANGED <<inst, pid, frame, view, polls>> /\ Supervising

-----------------------------------------------------------------------------
(* interrupt and stop_child                                                *)

\* INT or TERM: an installer whose pid is recorded is sent SIGTERM (Fail).
Interrupt ==
  /\ dash \notin {"over", "stop", "wait"}
  /\ At(IF pid THEN IF Ended THEN "wait" ELSE "stop" ELSE "over")
  /\ Forget
  /\ UNCHANGED <<inst, pid, polls, rebooted>> /\ Supervising

Poll ==
  /\ dash = "stop" /\ polls < MaxPolls
  /\ IF Ended THEN At("wait") /\ UNCHANGED polls ELSE polls' = polls + 1 /\ UNCHANGED dash
  /\ UNCHANGED <<inst, pid, frame, view, rebooted>> /\ Supervising

\* Seeded fault: nothing stronger follows SIGTERM.
KillNot ==
  /\ dash = "stop" /\ polls = MaxPolls
  /\ At("wait")
  /\ UNCHANGED <<inst, pid, frame, view, polls, rebooted>> /\ Supervising

\* SIGKILL if it is still there.
Kill ==
  /\ dash = "stop" /\ polls = MaxPolls
  /\ inst' = IF Ended THEN inst ELSE [inst EXCEPT !.killed = TRUE]
  /\ At("wait")
  /\ UNCHANGED <<pid, frame, view, polls, rebooted>> /\ Supervising

\* Seeded fault: the dashboard ends without having waited.
WaitNot ==
  /\ dash = "wait"
  /\ At("over")
  /\ UNCHANGED <<inst, pid, frame, view, polls, rebooted>> /\ Supervising

Wait ==
  /\ dash = "wait" /\ Ended
  /\ At("over")
  /\ UNCHANGED <<inst, pid, frame, view, polls, rebooted>> /\ Supervising

-----------------------------------------------------------------------------
Rest == dash = "over" /\ UNCHANGED vars

Installer ==
  Starting \/ BeginPhase \/ Unpack \/ Lift \/ PutBack \/ Complete \/ Exit \/ Fail

Supervisor ==
  \/ Launch \/ Record \/ Look \/ Draw \/ Reap \/ LastLook \/ LastDraw
  \/ Finish \/ Reboot \/ Failure
  \/ Poll \/ Kill \/ Wait

Next == Begin \/ Tick \/ Installer \/ Supervisor \/ RebootPrompt \/ FailureMenu \/ Interrupt \/ Rest

Spec == Init /\ [][Next]_vars

\* The dashboard runs, and the kernel ends what is killed; nothing says that the
\* installer ends by itself, obeys SIGTERM, or that anybody answers a prompt.
FairSpec == Spec /\ WF_vars(Supervisor) /\ WF_vars(Die)

-----------------------------------------------------------------------------
(* Properties                                                              *)

Lines == {"start", "launch", "poll", "draw", "last look", "last draw", "finish", "reboot",
          "failure", "stop", "wait", "over"}
Names == {"", "starting", "complete"} \cup {Phases[i] : i \in DOMAIN Phases}

\* Types, with the ranges the bar is drawn from: at most 100 per-mille are given
\* for waiting, and the position is on the bar.
TypeOK ==
  /\ session \in Sessions
  /\ attempt \in 0 .. MaxAttempts /\ clock \in 0 .. MaxClock
  /\ file \in [there : BOOLEAN, name : Names, index : -1 .. Len(Phases), finished : BOOLEAN]
  /\ inst.at \in {"none", "starting", "working", "written", "ok", "failed"}
  /\ inst.index \in 0 .. Len(Phases) /\ inst.whole \in BOOLEAN /\ inst.killed \in BOOLEAN
  /\ packages.count \in Nat /\ packages.done \in Nat /\ packages.moves \in 0 .. MaxMoves /\ packages.flying \in BOOLEAN
  /\ dash \in Lines /\ pid \in BOOLEAN
  /\ frame \in [read : BOOLEAN, now : 0 .. MaxClock, name : Names, index : -1 .. Len(Phases), finished : BOOLEAN]
  /\ view.pos \in 10 .. 1000 /\ view.name \in Names
  /\ {view.t0, view.change} \subseteq 0 .. MaxClock
  /\ view.base \in Nat \cup {-1} /\ view.seen \in Nat /\ view.bonus \in 0 .. 100
  /\ polls \in 0 .. MaxPolls
  /\ rebooted \in {"no", "dashboard", "user"}

\* Where the last phase that was begun ends on the bar.
Reached ==
  Max({Bands.starting[2]} \cup {Band(Phases[i], i - 1)[2] : i \in 1 .. inst.index})

\* The bar is about this attempt: it stays inside the bands of the phases its
\* installer has begun, however wrong the medium's package total is and whatever
\* an earlier attempt has left, and is full only when all of them are done.
BarNeverAhead ==
  IF view.pos = 1000 THEN inst.whole ELSE view.pos < Reached

\* Progress is credited for packages that were installed, not for those the
\* target held before or for one that was moved while it was reinstalled.
HonestCount == view.seen <= packages.done

\* The dashboard reboots by itself only what was installed completely and left
\* by an installer that exited with 0, and where it was not told not to.
RebootEarned ==
  rebooted = "dashboard" => inst.at = "ok" /\ inst.whole /\ session.autoreboot

\* An interrupted dashboard does not leave its installer behind (unless the
\* signal came before its pid was recorded).
StoppedGone == dash = "over" /\ pid => Ended

\* Nothing waits for somebody who is not there: without a keyboard the dashboard
\* ends once the installer has, and a stop comes to an end in any case.
DashboardEnds ==
  (Exited /\ ~ session.interactive) \/ dash = "stop" ~> dash = "over"
=============================================================================
