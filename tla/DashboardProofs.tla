--------------------------- MODULE DashboardProofs ---------------------------
(***************************************************************************)
(* Dashboard's safety properties, for every medium, environment and bound. *)
(***************************************************************************)
EXTENDS Dashboard, TLAPS

-----------------------------------------------------------------------------
(* The bar                                                                 *)

\* The larger of two integers.
LEMMA MaxOfTwo ==
  ASSUME NEW a \in Int, NEW b \in Int
  PROVE  Max({a, b}) = IF a >= b THEN a ELSE b
BY DEF Max

\* The smaller of two integers.
LEMMA MinOfTwo ==
  ASSUME NEW a \in Int, NEW b \in Int
  PROVE  Min({a, b}) = IF a <= b THEN a ELSE b
BY DEF Min

\* A quotient is an integer, however large what is divided.
LEMMA QuotientInt ==
  ASSUME NEW a \in Int, NEW b \in Nat \ {0}
  PROVE  a \div b \in Int
OBVIOUS

\* A band is two positions of the bar, the second below its end, and a tau.
IsBand(band) ==
  /\ band[1] \in Int /\ band[2] \in Int /\ band[3] \in Nat \ {0}
  /\ band[2] <= 1000

\* Every phase the installer publishes has a band.
LEMMA BandType ==
  /\ IsBand(Band("starting", 0))
  /\ \A i \in 1 .. 14 : IsBand(Band(Phases[i], i - 1))
<1>1. IsBand(Band("starting", 0))
  BY DEF IsBand, Band, Bands
<1>2. ASSUME NEW i \in 1 .. 14
      PROVE  IsBand(Band(Phases[i], i - 1))
  <2>1. CASE i \in {10, 11}
    BY <2>1 DEF IsBand, Band, Bands, Phases
  <2>2. CASE i \notin {10, 11}
    BY <2>2 DEF IsBand, Band, Bands, Phases
  <2>3. QED BY <2>1, <2>2
<1>3. QED BY <1>1, <1>2

\* Where the bands of the first n phases end.
Ends(n) == {Bands.starting[2]} \cup {Band(Phases[i], i - 1)[2] : i \in 1 .. n}

HasMax(S) == \E m \in S : \A y \in S : m >= y

\* Reached is the largest of these ends.
LEMMA EndsMax ==
  ASSUME NEW n \in 0 .. 14
  PROVE  /\ Max(Ends(n)) \in Ends(n)
         /\ \A y \in Ends(n) : y \in Int /\ Max(Ends(n)) >= y
<1> DEFINE P(k) == HasMax(Ends(k))
<1>1. Bands.starting[2] = 25
  BY DEF Bands
<1>2. \A k \in 0 .. 14 : Ends(k) \subseteq Int
  BY <1>1, BandType DEF Ends, IsBand
<1>3. P(0)
  BY <1>1 DEF Ends, HasMax
<1>4. \A k \in 0 .. 13 : P(k) => P(k + 1)
  <2> SUFFICES ASSUME NEW k \in 0 .. 13, P(k)
               PROVE  P(k + 1)
    OBVIOUS
  <2> DEFINE e == Band(Phases[k + 1], k)[2]
  <2>1. 1 .. k + 1 = (1 .. k) \cup {k + 1}
    OBVIOUS
  <2>2. Ends(k + 1) = Ends(k) \cup {e}
    BY <2>1 DEF Ends
  <2>3. PICK m \in Ends(k) : \A y \in Ends(k) : m >= y
    BY DEF HasMax
  <2>4. e \in Int /\ m \in Int
    BY <1>2, <2>2
  <2>5. CASE e >= m
    BY <1>2, <2>2, <2>3, <2>4, <2>5 DEF HasMax
  <2>6. CASE e < m
    BY <1>2, <2>2, <2>3, <2>4, <2>6 DEF HasMax
  <2>7. QED BY <2>4, <2>5, <2>6
<1>5. P(n)
  <2> HIDE DEF P
  <2>1. P(1) /\ P(2) /\ P(3) /\ P(4)  BY <1>3, <1>4
  <2>2. P(5) /\ P(6) /\ P(7) /\ P(8)  BY <2>1, <1>4
  <2>3. P(9) /\ P(10) /\ P(11) /\ P(12)  BY <2>2, <1>4
  <2>4. P(13) /\ P(14)  BY <2>3, <1>4
  <2>5. QED BY <1>3, <2>1, <2>2, <2>3, <2>4
<1>6. QED BY <1>2, <1>5 DEF HasMax, Max

\* More phases never end earlier.
LEMMA EndsGrow ==
  ASSUME NEW n \in 0 .. 13
  PROVE  Max(Ends(n)) <= Max(Ends(n + 1))
<1>1. Ends(n) \subseteq Ends(n + 1)
  BY DEF Ends
<1>2. QED BY <1>1, EndsMax

\* The bar is drawn inside 10 to 25 per-mille before the first phase.
LEMMA EndsStart ==
  ASSUME NEW n \in 0 .. 14
  PROVE  25 <= Max(Ends(n))
BY EndsMax DEF Ends, Bands

-----------------------------------------------------------------------------
(* Types                                                                   *)

Instants == 0 .. MaxClock
Views == [pos : 10 .. 1000, name : Names, t0 : Instants, base : Nat \cup {-1},
          seen : Nat, bonus : 0 .. 100, change : Instants]

\* TypeOK, variable by variable, with all that the records hold.
ScriptOK == session \in Sessions /\ attempt \in 0 .. MaxAttempts /\ clock \in Instants
FileOK == file \in [there : BOOLEAN, name : Names, index : -1 .. 14, finished : BOOLEAN]
InstOK == inst \in [at : {"none", "starting", "working", "written", "ok", "failed"},
                    index : 0 .. 14, whole : BOOLEAN, killed : BOOLEAN]
PackagesOK == packages \in [count : Nat, done : Nat, moves : 0 .. MaxMoves, flying : BOOLEAN]
DashOK == dash \in Lines /\ pid \in BOOLEAN /\ polls \in 0 .. MaxPolls
FrameOK == frame \in [read : BOOLEAN, now : Instants, name : Names, index : -1 .. 14, finished : BOOLEAN]
ViewOK == view \in Views
RebootedOK == rebooted \in {"no", "dashboard", "user"}

\* What the arithmetic of a frame rests on: what was seen of the phase is not younger
\* than the frame.
TimesOK ==
  /\ frame.now <= clock /\ view.t0 <= clock /\ view.change <= clock
  /\ frame.read => view.t0 <= frame.now /\ view.change <= frame.now

Types ==
  /\ ScriptOK /\ FileOK /\ InstOK /\ PackagesOK /\ DashOK /\ FrameOK /\ ViewOK /\ RebootedOK
  /\ TimesOK

\* What state.json and a frame may say: that the installer begins, that a phase it
\* has begun runs, or that it has done them all.
Honest(said) ==
  IF said.finished THEN inst.whole
  ELSE \/ said.name = "starting" /\ said.index = 0
       \/ \E i \in 1 .. inst.index : said.name = Phases[i] /\ said.index = i - 1

FileHonest == file.there => Honest(file)
FrameHonest == frame.read => Honest(frame)

\* The clock and the bounds are natural numbers, and so is what a session brings.
LEMMA InstantsType ==
  /\ Instants \subseteq Nat
  /\ MaxClock \in Nat /\ MaxAttempts \in Nat /\ MaxMoves \in Nat /\ MaxPolls \in Nat
  /\ \A s \in Sessions : s.expected \in Nat /\ s.held \in Nat
BY DashboardAssumption DEF DashboardAssumption, Instants

\* There are 14 phases, and their names are among those that can be shown.
LEMMA PhasesType ==
  /\ Len(Phases) = 14
  /\ \A i \in 1 .. 14 : Phases[i] \in Names
  /\ "" \in Names /\ "starting" \in Names /\ "complete" \in Names
<1>1. Len(Phases) = 14 /\ DOMAIN Phases = 1 .. 14
  BY DEF Phases
<1>2. QED BY <1>1 DEF Names

\* Types says no less than TypeOK.
LEMMA TypesImply == Types => TypeOK
<1> SUFFICES ASSUME Types PROVE TypeOK
  OBVIOUS
<1>1. Len(Phases) = 14
  BY PhasesType
<1>2. file \in [there : BOOLEAN, name : Names, index : -1 .. Len(Phases), finished : BOOLEAN]
  BY <1>1 DEF Types, FileOK
<1>3. frame \in [read : BOOLEAN, now : 0 .. MaxClock, name : Names, index : -1 .. Len(Phases), finished : BOOLEAN]
  BY <1>1 DEF Types, FrameOK, Instants
<1>4. /\ view.pos \in 10 .. 1000 /\ view.name \in Names
      /\ {view.t0, view.change} \subseteq 0 .. MaxClock
      /\ view.base \in Nat \cup {-1} /\ view.seen \in Nat /\ view.bonus \in 0 .. 100
  BY DEF Types, ViewOK, Views, Instants
<1>5. /\ inst.at \in {"none", "starting", "working", "written", "ok", "failed"}
      /\ inst.index \in 0 .. Len(Phases) /\ inst.whole \in BOOLEAN /\ inst.killed \in BOOLEAN
  BY <1>1 DEF Types, InstOK
<1>6. /\ packages.count \in Nat /\ packages.done \in Nat
      /\ packages.moves \in 0 .. MaxMoves /\ packages.flying \in BOOLEAN
  BY DEF Types, PackagesOK
<1>7. /\ session \in Sessions /\ attempt \in 0 .. MaxAttempts /\ clock \in 0 .. MaxClock
      /\ dash \in Lines /\ pid \in BOOLEAN /\ polls \in 0 .. MaxPolls
      /\ rebooted \in {"no", "dashboard", "user"}
  BY DEF Types, ScriptOK, Instants, DashOK, RebootedOK
<1>8. QED BY <1>2, <1>3, <1>4, <1>5, <1>6, <1>7, Zenon DEF TypeOK

\* A memory of the progress, after the fields that a frame changes were changed.
Changed(v, base, seen, change, bonus) ==
  [v EXCEPT !.base = base, !.seen = seen, !.change = change, !.bonus = bonus]

IsChange(w, v, base, seen, change) ==
  /\ w \in Views
  /\ w.pos = v.pos /\ w.t0 = v.t0
  /\ w.base = base /\ w.seen = seen /\ w.change = change

\* An update of the four counts of a view changes nothing else of it.
LEMMA ViewChanged ==
  ASSUME NEW v \in Views, NEW base \in Nat \cup {-1}, NEW seen \in Nat, NEW change \in Instants,
         NEW bonus \in 0 .. 100
  PROVE  IsChange(Changed(v, base, seen, change, bonus), v, base, seen, change)
<1> DEFINE a == [v EXCEPT !.base = base]
           b == [a EXCEPT !.seen = seen]
           c == [b EXCEPT !.change = change]
<1>1. a \in Views /\ a.pos = v.pos /\ a.t0 = v.t0 /\ a.base = base
  BY DEF Views
<1> HIDE DEF a
<1>2. b \in Views /\ b.pos = v.pos /\ b.t0 = v.t0 /\ b.base = base /\ b.seen = seen
  BY <1>1 DEF Views
<1> HIDE DEF b
<1>3. c \in Views /\ c.pos = v.pos /\ c.t0 = v.t0 /\ c.base = base /\ c.seen = seen /\ c.change = change
  BY <1>2 DEF Views
<1>4. Changed(v, base, seen, change, bonus) = [c EXCEPT !.bonus = bonus]
  BY DEF Changed, a, b, c
<1> HIDE DEF c
<1>5. QED BY <1>3, <1>4 DEF Views, IsChange

\* What is seen of the phase, before the packages are counted.
LEMMA EnteredType ==
  ASSUME Types, frame.read
  PROVE  /\ Entered(view) \in Views
         /\ Entered(view).pos = view.pos
         /\ Entered(view).t0 <= frame.now /\ Entered(view).change <= frame.now
         /\ \/ Entered(view) = view
            \/ Entered(view).base = -1 /\ Entered(view).seen = 0
<1>1. CASE frame.name = view.name
  BY <1>1 DEF Entered, Types, ScriptOK, PackagesOK, FrameOK, ViewOK, TimesOK
<1>2. CASE frame.name # view.name
  <2> DEFINE a == [view EXCEPT !.name = frame.name, !.t0 = frame.now]
             b == Changed(a, -1, 0, frame.now, 0)
  <2>1. frame.name \in Names /\ frame.now \in Instants /\ view \in Views
    BY DEF Types, ScriptOK, PackagesOK, FrameOK, ViewOK, TimesOK, Instants
  <2>2. a \in Views /\ a.pos = view.pos /\ a.t0 = frame.now
    <3> DEFINE w == [view EXCEPT !.name = frame.name]
    <3>1. w \in Views /\ w.pos = view.pos
      BY <2>1 DEF Views
    <3>2. a = [w EXCEPT !.t0 = frame.now]
      OBVIOUS
    <3> HIDE DEF w, a
    <3>3. QED BY <2>1, <3>1, <3>2 DEF Views
  <2>3. Entered(view) = [view EXCEPT !.name = frame.name, !.t0 = frame.now, !.base = -1, !.seen = 0,
                                     !.bonus = 0, !.change = frame.now]
    BY <1>2 DEF Entered
  <2>4. Entered(view) = b
    BY <2>1, <2>3, Zenon DEF Views, a, b, Changed
  <2> HIDE DEF a
  <2> DEFINE none == -1
             zero == 0
  <2>5. none \in Nat \cup {-1} /\ zero \in Nat /\ zero \in 0 .. 100 /\ frame.now \in Instants /\ a \in Views
    BY <2>1, <2>2
  <2>6. /\ b \in Views /\ b.pos = a.pos /\ b.t0 = a.t0
        /\ b.base = -1 /\ b.seen = 0 /\ b.change = frame.now
    <3>1. b = Changed(a, none, zero, frame.now, zero)
      OBVIOUS
    <3> HIDE DEF none, zero, b
    <3>2. IsChange(b, a, none, zero, frame.now)
      BY <2>5, <3>1, ViewChanged, Zenon
    <3>3. QED BY <3>2 DEF none, zero, IsChange
  <2>7. frame.now <= frame.now
    <3>1. frame.now \in Nat
      BY <2>1, InstantsType
    <3>2. QED BY <3>1
  <2>8. QED BY <2>2, <2>4, <2>6, <2>7
<1>3. QED BY <1>1, <1>2

\* What is seen of the packages.
LEMMA CountedType ==
  ASSUME Types, NEW v \in Views, v.t0 <= frame.now, v.change <= frame.now
  PROVE  /\ Counted(v) \in Views
         /\ Counted(v).pos = v.pos
         /\ Counted(v).t0 = v.t0 /\ Counted(v).change <= frame.now
         /\ Counted(v).base = IF v.base < 0 THEN packages.count ELSE v.base
         /\ Counted(v).seen = IF v.seen >= packages.count - Counted(v).base THEN v.seen
                              ELSE packages.count - Counted(v).base
<1> DEFINE base == IF v.base < 0 THEN packages.count ELSE v.base
           seen == Max({v.seen, packages.count - base})
           change == IF seen > v.seen THEN frame.now ELSE v.change
           waited == frame.now - change
           given == Min({waited, 100})
           bonus == Max({v.bonus, given})
<1>1. base \in Nat /\ packages.count \in Nat /\ v.seen \in Nat
  BY DEF Types, ScriptOK, PackagesOK, FrameOK, ViewOK, TimesOK, Views
<1>2. seen = IF v.seen >= packages.count - base THEN v.seen ELSE packages.count - base
  <2> HIDE DEF base
  <2>1. QED BY <1>1, MaxOfTwo
<1>3. seen \in Nat
  <2> HIDE DEF base, seen
  <2>1. QED BY <1>1, <1>2
<1>4. frame.now \in Instants /\ v.change \in Instants /\ Instants \subseteq Nat
  BY InstantsType DEF Types, ScriptOK, PackagesOK, FrameOK, ViewOK, TimesOK, Instants, Views
<1> HIDE DEF seen
<1>5. change \in Instants /\ change <= frame.now
  BY <1>4 DEF Instants
<1> HIDE DEF change
<1>6. waited \in Nat /\ waited \in Int /\ 100 \in Int
  <2>1. frame.now \in Nat /\ change \in Nat
    BY <1>4, <1>5
  <2>2. QED BY <1>5, <2>1
<1> HIDE DEF waited
<1>7. given \in 0 .. 100
  <2>1. given = IF waited <= 100 THEN waited ELSE 100
    BY <1>6, MinOfTwo
  <2>2. QED BY <1>6, <2>1
<1> HIDE DEF given
<1>8. bonus \in 0 .. 100
  <2>1. v.bonus \in 0 .. 100
    BY DEF Views
  <2>2. v.bonus \in Int /\ given \in Int
    BY <1>7, <2>1
  <2>3. bonus = IF v.bonus >= given THEN v.bonus ELSE given
    BY <2>2, MaxOfTwo, Zenon
  <2>4. QED BY <1>7, <2>1, <2>3
<1> HIDE DEF bonus, base
<1>9. Counted(v) = Changed(v, base, seen, change, bonus)
  BY DEF Counted, Changed, base, seen, change, waited, given, bonus
<1>10. base \in Nat \cup {-1}
  BY <1>1
<1>11. IsChange(Changed(v, base, seen, change, bonus), v, base, seen, change)
  <2>1. change \in Instants
    BY <1>5
  <2>2. QED BY <1>3, <1>8, <1>10, <2>1, ViewChanged, Zenon
<1>12. QED BY <1>2, <1>5, <1>9, <1>11 DEF base, IsChange

\* A frame moves the bar at most to the end of the band of what it shows, or to its
\* own end if the installation is said to be finished.
LEMMA Drawn ==
  ASSUME Types, FrameHonest
  PROVE  /\ InstallProgress \in Views
         /\ InstallProgress.t0 <= clock /\ InstallProgress.change <= clock
         /\ \/ InstallProgress.pos = view.pos
            \/ frame.read /\ frame.finished /\ InstallProgress.pos = 1000
            \/ /\ frame.read /\ ~ frame.finished
               /\ InstallProgress.pos < Band(frame.name, frame.index)[2]
         /\ ~ frame.read \/ frame.finished =>
              InstallProgress.base = view.base /\ InstallProgress.seen = view.seen
         /\ frame.read /\ ~ frame.finished =>
              \/ /\ InstallProgress.base = Entered(view).base
                 /\ InstallProgress.seen = Entered(view).seen
              \/ /\ InstallProgress.base = Counted(Entered(view)).base
                 /\ InstallProgress.seen = Counted(Entered(view)).seen
<1>1. CASE ~ frame.read
  BY <1>1 DEF InstallProgress, Types, ScriptOK, PackagesOK, FrameOK, ViewOK, TimesOK
<1>2. CASE frame.read /\ frame.finished
  BY <1>2 DEF InstallProgress, Views, Types, ScriptOK, PackagesOK, FrameOK, ViewOK, TimesOK
<1>3. CASE frame.read /\ ~ frame.finished
  <2> DEFINE band == Band(frame.name, frame.index)
             entered == Entered(view)
             t == frame.now - entered.t0
             v == IF Signal(frame.name) THEN Counted(entered) ELSE entered
             pos == IF Signal(frame.name) THEN Max({Floor(band, 900, t), Work(band, v)})
                    ELSE Floor(band, band[3], t)
             next == Max({view.pos, Min({pos, band[2] - 1})})
  <2>1. IsBand(band)
    BY <1>3, BandType DEF FrameHonest, Honest, InstOK, Types
  <2>2. v \in Views /\ v.pos = view.pos
        /\ v.t0 <= frame.now /\ v.change <= frame.now
    BY <1>3, EnteredType, CountedType
  <2>3. t \in Nat
    <3>1. frame.now \in Nat /\ entered.t0 \in Nat /\ entered.t0 <= frame.now
      BY <1>3, EnteredType, InstantsType DEF Types, ScriptOK, PackagesOK, FrameOK, ViewOK, TimesOK, Views, Instants
    <3>2. QED BY <3>1
  <2>4. Span(band) \in Int
    <3> DEFINE width == band[2] - band[1]
    <3>1. width \in Int
      BY <2>1 DEF IsBand
    <3>2. Span(band) = Max({width, 2})
      BY DEF Span
    <3> HIDE DEF width
    <3>3. QED BY <3>1, <3>2, MaxOfTwo
  <2>5. \A tau \in Nat \ {0} : Floor(band, tau, t) \in Int
    <3> SUFFICES ASSUME NEW tau \in Nat \ {0} PROVE Floor(band, tau, t) \in Int
      OBVIOUS
    <3> HIDE DEF t, band
    <3>1. (Span(band) - 1) * t \in Int /\ t + tau \in Nat \ {0}
      BY <2>3, <2>4
    <3>2. ((Span(band) - 1) * t) \div (t + tau) \in Int
      BY <3>1, QuotientInt
    <3>3. QED BY <2>1, <3>2 DEF Floor, IsBand
  <2>6. ASSUME Signal(frame.name)
        PROVE  Work(band, v) \in Int
    <3>1. Expected \in Nat \ {0}
      BY <2>6, InstantsType DEF Signal, Expected, Types, ScriptOK, PackagesOK, FrameOK, ViewOK, TimesOK
    <3>2. v.seen \in Int /\ v.bonus \in Int
      BY <2>2 DEF Views
    <3> HIDE DEF v, band
    <3>3. (Span(band) - 1 - 40) * v.seen \in Int
      BY <2>4, <3>2
    <3>4. ((Span(band) - 1 - 40) * v.seen) \div Expected \in Int
      BY <3>1, <3>3, QuotientInt
    <3>5. QED BY <2>1, <3>2, <3>4 DEF Work, IsBand
  <2>7. pos \in Int
    <3> HIDE DEF v, t, band
    <3>1. CASE Signal(frame.name)
      BY <2>5, <2>6, <3>1, MaxOfTwo
    <3>2. CASE ~ Signal(frame.name)
      BY <2>1, <2>5, <3>2 DEF IsBand
    <3>3. QED BY <3>1, <3>2
  <2>8. view.pos \in 10 .. 1000
    BY DEF Views, Types, ScriptOK, PackagesOK, FrameOK, ViewOK, TimesOK
  <2>9. /\ next \in 10 .. 1000
        /\ next = view.pos \/ next < band[2]
    <3> HIDE DEF pos, band
    <3> DEFINE last == band[2] - 1
               drawn == Min({pos, last})
    <3>1. last \in Int /\ last < band[2] /\ last <= 999
      BY <2>1 DEF IsBand
    <3> HIDE DEF last
    <3>2. drawn \in Int /\ drawn <= last
      BY <2>7, <3>1, MinOfTwo
    <3>3. next = Max({view.pos, drawn})
      BY DEF next, drawn, last
    <3> HIDE DEF drawn, next
    <3>4. next = IF view.pos >= drawn THEN view.pos ELSE drawn
      <4>1. view.pos \in Int
        BY <2>8
      <4>2. QED BY <3>2, <3>3, <4>1, MaxOfTwo, Zenon
    <3>5. QED BY <2>1, <2>8, <3>1, <3>2, <3>4 DEF IsBand
  <2> HIDE DEF pos, next
  <2>10. InstallProgress = [v EXCEPT !.pos = next]
    <3>1. v.pos = view.pos
      BY <2>2
    <3>2. InstallProgress = [v EXCEPT !.pos = Max({v.pos, Min({pos, band[2] - 1})})]
      BY <1>3 DEF InstallProgress, pos
    <3>3. QED BY <3>1, <3>2 DEF next
  <2> HIDE DEF v
  <2>11. /\ InstallProgress.pos = next /\ InstallProgress.t0 = v.t0 /\ InstallProgress.base = v.base
         /\ InstallProgress.seen = v.seen /\ InstallProgress.change = v.change
         /\ InstallProgress \in Views
    BY <2>2, <2>9, <2>10 DEF Views
  <2>12. v.t0 <= clock /\ v.change <= clock
    <3>1. /\ v.t0 \in Nat /\ v.change \in Nat /\ frame.now \in Nat /\ clock \in Nat
          /\ frame.now <= clock
      BY <2>2, InstantsType DEF Types, ScriptOK, PackagesOK, FrameOK, ViewOK, TimesOK, Views, Instants
    <3>2. QED BY <2>2, <3>1
  <2>13. v = entered \/ v = Counted(entered)
    BY DEF v
  <2>14. QED BY <1>3, <2>9, <2>11, <2>12, <2>13
<1>4. QED BY <1>1, <1>2, <1>3

-----------------------------------------------------------------------------
(* The invariant                                                           *)

\* HonestCount, with what the packages are counted from: since the first sight of
\* the phase the database has grown by no more than was installed.
Grown ==
  /\ view.base >= 0 => packages.count - packages.done <= view.base
  /\ view.seen <= packages.done

\* RebootEarned, with the way to a reboot: only an installer that exited with 0
\* is drawn finished, and it had done every phase.
Earned ==
  /\ inst.at \in {"written", "ok"} => inst.whole
  /\ dash \in {"last look", "last draw", "finish", "reboot"} => inst.at = "ok"
  /\ rebooted # "no" => dash = "over"
  /\ RebootEarned

\* StoppedGone, with the lines at which a pid is held.
Held ==
  /\ pid => dash \in {"poll", "draw", "stop", "wait", "over"}
  /\ StoppedGone

DInv == Types /\ FileHonest /\ FrameHonest /\ BarNeverAhead /\ Grown /\ Earned /\ Held

\* A dashboard begins with a view.
LEMMA BeginView ==
  ASSUME clock \in Instants
  PROVE  NewView \in Views
<1> DEFINE none == -1
           n == ""
<1>1. n \in Names
  BY PhasesType
<1>2. none \in Nat \cup {-1} /\ 10 \in 10 .. 1000 /\ 0 \in Nat /\ 0 \in 0 .. 100
  OBVIOUS
<1>3. NewView = [pos |-> 10, name |-> n, t0 |-> clock, base |-> none, seen |-> 0, bonus |-> 0, change |-> clock]
  BY DEF NewView
<1> HIDE DEF none, n
<1>4. QED BY <1>1, <1>2, <1>3 DEF Views

\* What changes one variable at most leaves the types of the others.
LEMMA Kept ==
  /\ UNCHANGED <<session, attempt, clock>> /\ ScriptOK => ScriptOK'
  /\ UNCHANGED file /\ FileOK => FileOK'
  /\ UNCHANGED inst /\ InstOK => InstOK'
  /\ UNCHANGED packages /\ PackagesOK => PackagesOK'
  /\ UNCHANGED <<dash, pid, polls>> /\ DashOK => DashOK'
  /\ UNCHANGED frame /\ FrameOK => FrameOK'
  /\ UNCHANGED view /\ ViewOK => ViewOK'
  /\ UNCHANGED rebooted /\ RebootedOK => RebootedOK'
  /\ UNCHANGED <<clock, frame, view>> /\ TimesOK => TimesOK'
BY DEF ScriptOK, FileOK, InstOK, PackagesOK, DashOK, FrameOK, ViewOK, RebootedOK, TimesOK

\* What the state and the frame are while there are none.
LEMMA NothingType ==
  /\ NoFrame \in [read : BOOLEAN, now : Instants, name : Names, index : -1 .. 14, finished : BOOLEAN]
  /\ Absent \in [there : BOOLEAN, name : Names, index : -1 .. 14, finished : BOOLEAN]
<1>1. 0 \in Instants
  BY DashboardAssumption DEF DashboardAssumption, Instants
<1>2. -1 \in -1 .. 14
  OBVIOUS
<1>3. "" \in Names
  BY PhasesType
<1>4. QED BY <1>1, <1>2, <1>3 DEF NoFrame, Absent

\* Nothing is drawn any more, or not yet.
LEMMA Forgotten ==
  ASSUME ScriptOK, UNCHANGED clock, view' = NewView, frame' = NoFrame
  PROVE  FrameOK' /\ ViewOK' /\ TimesOK'
<1>1. clock \in Instants /\ clock \in Nat
  BY InstantsType DEF ScriptOK
<1>2. ViewOK'
  BY <1>1, BeginView DEF ViewOK
<1>3. FrameOK'
  BY NothingType DEF FrameOK
<1>4. TimesOK'
  <2>1. frame'.now = 0 /\ frame'.read = FALSE
    BY DEF NoFrame
  <2>2. view'.t0 = clock /\ view'.change = clock /\ clock' = clock
    BY DEF NewView
  <2>3. QED BY <1>1, <2>1, <2>2 DEF TimesOK
<1>5. QED BY <1>2, <1>3, <1>4

\* Nothing was drawn, counted or held before the session.
LEMMA InitInv == Init => DInv
<1> SUFFICES ASSUME Init PROVE DInv
  OBVIOUS
<1>1. ScriptOK
  BY InstantsType DEF Init, ScriptOK, Instants
<1>2. FileOK
  BY NothingType DEF Init, FileOK
<1>3. InstOK /\ PackagesOK
  BY InstantsType DEF Init, InstOK, PackagesOK, NoInstaller
<1>4. DashOK /\ RebootedOK
  <2>1. 0 \in 0 .. MaxPolls
    BY InstantsType
  <2>2. QED BY <2>1 DEF Init, DashOK, RebootedOK, Lines
<1>5. clock \in Instants /\ clock \in Nat
  BY <1>1, InstantsType DEF ScriptOK
<1>6. ViewOK
  BY <1>5, BeginView DEF Init, ViewOK
<1>7. FrameOK
  BY NothingType DEF Init, FrameOK
<1>8. TimesOK
  <2>1. frame.now = 0 /\ frame.read = FALSE
    BY DEF Init, NoFrame
  <2>2. view.t0 = clock /\ view.change = clock
    BY DEF Init, NewView
  <2>3. QED BY <1>5, <2>1, <2>2 DEF TimesOK
<1>9. FileHonest /\ FrameHonest
  BY DEF Init, FileHonest, FrameHonest, Absent, NoFrame
<1>10. BarNeverAhead
  <2>1. inst.index = 0 /\ view.pos = 10
    BY DEF Init, NoInstaller, NewView
  <2>2. Reached = Max(Ends(0))
    BY <2>1 DEF Reached, Ends
  <2>3. Max(Ends(0)) \in Int /\ Max(Ends(0)) >= 25
    BY EndsMax, EndsStart
  <2>4. QED BY <2>1, <2>2, <2>3 DEF BarNeverAhead
<1>11. Grown
  <2>1. view.base = -1 /\ view.seen = 0 /\ packages.done = 0
    BY DEF Init, NewView
  <2>2. QED BY <2>1 DEF Grown
<1>12. Earned /\ Held
  BY DEF Init, Earned, Held, NoInstaller, RebootEarned, StoppedGone
<1>13. QED
  BY <1>1, <1>2, <1>3, <1>4, <1>6, <1>7, <1>8, <1>9, <1>10, <1>11, <1>12 DEF DInv, Types

\* The types are kept, by each action.
LEMMA TypesNext == DInv /\ [Next]_vars => Types'
<1> SUFFICES ASSUME DInv, [Next]_vars PROVE Types'
  OBVIOUS
<1>t. Types
  BY DEF DInv
<1>a. /\ ScriptOK /\ FileOK /\ InstOK /\ PackagesOK /\ DashOK /\ FrameOK /\ ViewOK /\ RebootedOK
      /\ TimesOK
  BY <1>t DEF Types
<1>1. CASE Begin
  <2>1. FrameOK' /\ ViewOK' /\ TimesOK'
    BY <1>a, <1>1, Forgotten DEF Begin
  <2>2. ScriptOK' /\ DashOK'
    <3>1. 0 \in 0 .. MaxPolls
      BY InstantsType
    <3>2. DashOK'
      BY <1>1, <3>1 DEF Begin, DashOK, Lines
    <3>3. ScriptOK'
      BY <1>a, <1>1, InstantsType DEF Begin, ScriptOK
    <3>4. QED BY <3>2, <3>3
  <2>3. FileOK'
    BY <1>1, NothingType DEF Begin, FileOK
  <2>4. InstOK' /\ PackagesOK'
    BY <1>a, <1>1, InstantsType DEF Begin, ScriptOK, InstOK, PackagesOK, NoInstaller
  <2>5. QED BY <1>a, <1>1, <2>1, <2>2, <2>3, <2>4, Kept DEF Begin, Types
<1>2. CASE Tick
  <2>1. ScriptOK' /\ clock' >= clock /\ clock \in Nat /\ clock' \in Nat
    BY <1>a, <1>2, DashboardAssumption DEF Tick, ScriptOK, Instants, DashboardAssumption
  <2>2. frame.now \in Nat /\ view.t0 \in Nat /\ view.change \in Nat
    BY <1>a, InstantsType DEF FrameOK, ViewOK, Views
  <2>3. TimesOK'
    BY <1>a, <1>2, <2>1, <2>2 DEF Tick, TimesOK, dashboard
  <2>4. QED BY <1>a, <1>2, <2>1, <2>3, Kept DEF Tick, Types, installer, dashboard
<1>3. CASE Starting
  <2>1. FileOK'
    <3>1. file' = [there |-> TRUE, name |-> "starting", index |-> 0, finished |-> FALSE]
      BY <1>3 DEF Starting, Publish
    <3>2. "starting" \in Names
      BY PhasesType
    <3>3. QED BY <3>1, <3>2 DEF FileOK
  <2>2. InstOK'
    BY <1>a, <1>3 DEF Starting, InstOK
  <2>3. QED BY <1>a, <1>3, <2>1, <2>2, Kept DEF Starting, Working, dashboard, Types
<1>4. CASE BeginPhase
  <2>1. inst.index \in 0 .. 13
    <3>1. Len(Phases) = 14
      BY PhasesType
    <3>2. inst.index < 14
      BY <1>4, <3>1, Zenon DEF BeginPhase
    <3>3. QED BY <1>a, <3>2 DEF InstOK
  <2>2. FileOK'
    <3>1. file' = [there |-> TRUE, name |-> Phases[inst.index + 1], index |-> inst.index, finished |-> FALSE]
      BY <1>4 DEF BeginPhase, Publish
    <3>2. Phases[inst.index + 1] \in Names
      <4>1. inst.index + 1 \in 1 .. 14
        BY <2>1
      <4>2. QED BY <4>1, PhasesType
    <3>3. QED BY <2>1, <3>1, <3>2 DEF FileOK
  <2>3. InstOK'
    BY <1>a, <1>4, <2>1 DEF BeginPhase, InstOK
  <2>4. QED BY <1>a, <1>4, <2>2, <2>3, Kept DEF BeginPhase, Working, dashboard, Types
<1>5. CASE Unpack
  <2>1. Batches \subseteq Nat
    BY DashboardAssumption DEF DashboardAssumption
  <2>2. PackagesOK'
    <3>1. PICK n \in Nat : packages' = [packages EXCEPT !.count = @ + n, !.done = @ + n]
      BY <1>5, <2>1 DEF Unpack
    <3>2. packages.count \in Nat /\ packages.done \in Nat
      BY <1>a DEF PackagesOK
    <3>3. packages.count + n \in Nat /\ packages.done + n \in Nat
      BY <3>2
    <3>4. QED BY <1>a, <3>1, <3>3 DEF PackagesOK
  <2>3. QED BY <1>a, <1>5, <2>2, Kept DEF Unpack, Working, dashboard, Types
<1>6. CASE Lift
  <2>1. PackagesOK'
    <3>1. packages' = [packages EXCEPT !.count = @ - 1, !.moves = @ + 1, !.flying = TRUE]
      BY <1>6 DEF Lift
    <3>2. packages.count - 1 \in Nat /\ packages.moves + 1 \in 0 .. MaxMoves
      BY <1>a, <1>6, InstantsType DEF Lift, PackagesOK
    <3>3. QED BY <1>a, <3>1, <3>2 DEF PackagesOK
  <2>2. QED BY <1>a, <1>6, <2>1, Kept DEF Lift, Working, dashboard, Types
<1>7. CASE PutBack
  <2>1. PackagesOK'
    <3>1. packages' = [packages EXCEPT !.count = @ + 1, !.done = @ + 1, !.flying = FALSE]
      BY <1>7 DEF PutBack
    <3>2. packages.count + 1 \in Nat /\ packages.done + 1 \in Nat
      BY <1>a DEF PackagesOK
    <3>3. QED BY <1>a, <3>1, <3>2 DEF PackagesOK
  <2>2. QED BY <1>a, <1>7, <2>1, Kept DEF PutBack, Working, dashboard, Types
<1>8. CASE Complete
  <2>1. FileOK'
    <3>1. Len(Phases) = 14 /\ "complete" \in Names
      BY PhasesType
    <3>2. Len(Phases) - 1 \in -1 .. 14
      BY <3>1
    <3>3. QED BY <1>8, <3>1, <3>2 DEF Complete, Publish, FileOK
  <2>2. InstOK'
    BY <1>a, <1>8 DEF Complete, InstOK
  <2>3. QED BY <1>a, <1>8, <2>1, <2>2, Kept DEF Complete, Working, dashboard, Types
<1>9. CASE Exit
  <2>1. InstOK'
    BY <1>a, <1>9 DEF Exit, InstOK
  <2>2. QED BY <1>a, <1>9, <2>1, Kept DEF Exit, Working, dashboard, Types
<1>10. CASE Fail
  <2>1. InstOK'
    BY <1>a, <1>10 DEF Fail, InstOK
  <2>2. QED BY <1>a, <1>10, <2>1, Kept DEF Fail, Working, dashboard, Types
<1>11. CASE Launch
  <2>1. InstOK'
    BY <1>a, <1>11 DEF Launch, InstOK
  <2>2. DashOK'
    BY <1>a, <1>11 DEF Launch, At, DashOK, Lines
  <2>3. QED BY <1>a, <1>11, <2>1, <2>2, Kept DEF Launch, Supervising, Types
<1>12. CASE Record
  <2>1. DashOK'
    BY <1>a, <1>12 DEF Record, At, DashOK, Lines
  <2>2. QED BY <1>a, <1>12, <2>1, Kept DEF Record, Supervising, Types
<1>13. ASSUME Read, DashOK', UNCHANGED <<session, attempt, clock, file, inst, packages, view, rebooted>>
       PROVE  Types'
  <2>1. clock \in Instants /\ 0 \in Instants /\ clock \in Nat
    BY <1>a, InstantsType DEF ScriptOK, Instants
  <2>2. \/ frame' = NoFrame
        \/ frame' = [read |-> TRUE, now |-> clock, name |-> file.name, index |-> file.index, finished |-> file.finished]
    BY <1>13 DEF Read
  <2>3. CASE frame' = NoFrame
    <3>1. FrameOK'
      BY <2>3, NothingType DEF FrameOK
    <3>2. TimesOK'
      <4>1. frame'.now = 0 /\ frame'.read = FALSE
        BY <2>3 DEF NoFrame
      <4>2. QED BY <1>a, <1>13, <2>1, <4>1 DEF TimesOK
    <3>3. QED BY <1>a, <1>13, <3>1, <3>2, Kept DEF Types
  <2>4. CASE frame' = [read |-> TRUE, now |-> clock, name |-> file.name, index |-> file.index, finished |-> file.finished]
    <3>1. FrameOK'
      BY <1>a, <2>1, <2>4 DEF FrameOK, FileOK
    <3>2. TimesOK'
      BY <1>a, <1>13, <2>1, <2>4 DEF TimesOK
    <3>3. QED BY <1>a, <1>13, <3>1, <3>2, Kept DEF Types
  <2>5. QED BY <2>2, <2>3, <2>4
<1>14. CASE Look
  <2>1. DashOK'
    BY <1>a, <1>14 DEF Look, At, DashOK, Lines
  <2>2. QED BY <1>13, <1>14, <2>1 DEF Look, Supervising
<1>15. ASSUME view' = InstallProgress, frame' = NoFrame, DashOK',
              UNCHANGED <<session, attempt, clock, file, inst, packages, rebooted>>
       PROVE  Types'
  <2>1. view' \in Views /\ view'.t0 <= clock /\ view'.change <= clock
    BY <1>t, <1>15, Drawn DEF DInv
  <2>2. clock \in Nat /\ 0 \in Instants
    BY <1>a, InstantsType DEF ScriptOK, Instants
  <2>3. FrameOK'
    BY <1>15, NothingType DEF FrameOK
  <2>4. TimesOK'
    <3>1. frame'.now = 0 /\ frame'.read = FALSE
      BY <1>15 DEF NoFrame
    <3>2. QED BY <1>15, <2>1, <2>2, <3>1 DEF TimesOK
  <2>5. QED BY <1>a, <1>15, <2>1, <2>3, <2>4, Kept DEF Types, ViewOK
<1>16. CASE Draw
  <2>1. DashOK'
    BY <1>a, <1>16 DEF Draw, At, DashOK, Lines
  <2>2. QED BY <1>15, <1>16, <2>1 DEF Draw, Supervising
<1>17. ASSUME Forget, DashOK', UNCHANGED <<session, attempt, clock, file, inst, packages, rebooted>>
       PROVE  Types'
  BY <1>a, <1>17, Forgotten, Kept DEF Forget, Types
<1>18. ASSUME DashOK', RebootedOK', UNCHANGED <<session, attempt, clock, file, inst, packages, frame, view>>
       PROVE  Types'
  BY <1>a, <1>18, Kept DEF Types
<1>19. CASE Reap
  <2>1. DashOK'
    BY <1>a, <1>19 DEF Reap, At, DashOK, Lines
  <2>2. QED BY <1>a, <1>17, <1>18, <1>19, <2>1, Kept DEF Reap, Supervising
<1>20. CASE LastLook
  <2>1. DashOK'
    BY <1>a, <1>20 DEF LastLook, At, DashOK, Lines
  <2>2. QED BY <1>13, <1>20, <2>1 DEF LastLook, Supervising
<1>21. CASE LastDraw
  <2>1. DashOK'
    BY <1>a, <1>21 DEF LastDraw, At, DashOK, Lines
  <2>2. QED BY <1>15, <1>21, <2>1 DEF LastDraw, Supervising
<1>22. CASE Finish \/ RebootPrompt \/ Failure \/ Wait
  <2>1. DashOK'
    BY <1>a, <1>22 DEF Finish, RebootPrompt, Failure, Wait, At, DashOK, Lines
  <2>2. QED BY <1>a, <1>18, <1>22, <2>1, Kept DEF Finish, RebootPrompt, Failure, Wait, Supervising
<1>23. CASE Reboot \/ FailureMenu
  <2>1. DashOK'
    BY <1>a, <1>23 DEF Reboot, FailureMenu, At, DashOK, Lines
  <2>2. RebootedOK'
    BY <1>a, <1>23 DEF Reboot, FailureMenu, RebootedOK
  <2>3. QED BY <1>18, <1>23, <2>1, <2>2 DEF Reboot, FailureMenu, Supervising
<1>24. CASE Interrupt
  <2>1. DashOK'
    BY <1>a, <1>24 DEF Interrupt, At, DashOK, Lines
  <2>2. QED BY <1>17, <1>24, <2>1 DEF Interrupt, Supervising
<1>25. CASE Poll
  <2>1. DashOK'
    <3>1. MaxPolls \in Nat
      BY InstantsType
    <3>2. polls' \in 0 .. MaxPolls
      BY <1>a, <1>25, <3>1 DEF Poll, DashOK
    <3>3. dash' \in Lines /\ pid' \in BOOLEAN
      BY <1>a, <1>25 DEF Poll, At, DashOK, Lines
    <3>4. QED BY <3>2, <3>3 DEF DashOK
  <2>2. QED BY <1>a, <1>18, <1>25, <2>1, Kept DEF Poll, Supervising
<1>26. CASE Kill
  <2>1. DashOK'
    BY <1>a, <1>26 DEF Kill, At, DashOK, Lines
  <2>2. InstOK'
    BY <1>a, <1>26 DEF Kill, InstOK
  <2>3. QED BY <1>a, <1>26, <2>1, <2>2, Kept DEF Kill, Supervising, Types
<1>27. CASE UNCHANGED vars
  BY <1>a, <1>27, Kept DEF vars, installer, dashboard, Types
<1>28. QED
  BY <1>1, <1>2, <1>3, <1>4, <1>5, <1>6, <1>7, <1>8, <1>9, <1>10, <1>11, <1>12, <1>14, <1>16, <1>19,
     <1>20, <1>21, <1>22, <1>23, <1>24, <1>25, <1>26, <1>27
  DEF Next, Installer, Supervisor, Rest

-----------------------------------------------------------------------------
(* What is read and what is drawn                                          *)

\* Within an attempt the installer only gets further, and the packages that were
\* installed account for the growth of the database.
Further ==
  /\ inst'.index \in {inst.index, inst.index + 1}
  /\ inst.whole => inst'.whole
  /\ packages'.count - packages'.done <= packages.count - packages.done
  /\ packages.done <= packages'.done

Draws == view' = InstallProgress /\ frame' = NoFrame /\ UNCHANGED <<file, inst, packages>>
Reads == Read /\ UNCHANGED <<view, file, inst, packages>>
Forgets == Forget /\ UNCHANGED <<file, inst, packages>>
\* The installer works, or neither of them touches what the other sees.
Works == Further /\ FileHonest' /\ UNCHANGED <<frame, view>>

\* What is honest stays so.
LEMMA HonestStays ==
  ASSUME NEW said, Types, inst'.index \in {inst.index, inst.index + 1}, inst.whole => inst'.whole, Honest(said)
  PROVE  IF said.finished THEN inst'.whole
         ELSE \/ said.name = "starting" /\ said.index = 0
              \/ \E i \in 1 .. inst'.index : said.name = Phases[i] /\ said.index = i - 1
<1>1. inst.index \in Nat
  BY DEF Types, InstOK
<1>2. 1 .. inst.index \subseteq 1 .. inst'.index
  BY <1>1
<1>3. QED BY <1>2 DEF Honest

\* Every step but a new attempt's is one of these.
LEMMA Moves == DInv /\ [Next]_vars => Begin \/ Draws \/ Reads \/ Forgets \/ Works
<1> SUFFICES ASSUME DInv, [Next]_vars
             PROVE  Begin \/ Draws \/ Reads \/ Forgets \/ Works
  OBVIOUS
<1>t. Types /\ FileHonest
  BY DEF DInv
<1>i. /\ inst \in [at : {"none", "starting", "working", "written", "ok", "failed"},
                   index : 0 .. 14, whole : BOOLEAN, killed : BOOLEAN]
      /\ packages \in [count : Nat, done : Nat, moves : 0 .. MaxMoves, flying : BOOLEAN]
      /\ packages.count \in Nat /\ packages.done \in Nat /\ inst.index \in 0 .. 14
  BY <1>t DEF Types, InstOK, PackagesOK
<1>p. UNCHANGED packages => packages'.count - packages'.done <= packages.count - packages.done
                            /\ packages.done <= packages'.done
  BY <1>i
<1>1. ASSUME UNCHANGED <<file, packages, frame, view>>, inst'.index = inst.index, inst'.whole = inst.whole
      PROVE  Works
  <2>1. Further
    BY <1>p, <1>1 DEF Further
  <2>2. FileHonest'
    BY <1>t, <1>1, HonestStays DEF FileHonest, Honest
  <2>3. QED BY <1>1, <2>1, <2>2 DEF Works
<1>2. ASSUME UNCHANGED <<file, inst, packages, frame, view>>
      PROVE  Works
  BY <1>1, <1>2
<1>3. CASE Tick
  BY <1>2, <1>3 DEF Tick, installer, dashboard
<1>4. CASE Starting
  <2>1. /\ file'.name = "starting" /\ file'.index = 0 /\ ~ file'.finished
        /\ inst'.index = inst.index /\ inst'.whole = inst.whole /\ UNCHANGED packages
    BY <1>i, <1>4 DEF Starting, Publish
  <2>2. FileHonest'
    BY <2>1 DEF FileHonest, Honest
  <2>3. QED BY <1>p, <1>4, <2>1, <2>2 DEF Works, Further, Starting, Working, dashboard
<1>5. CASE BeginPhase
  <2>1. /\ file'.name = Phases[inst.index + 1] /\ file'.index = inst.index /\ ~ file'.finished
        /\ inst'.index = inst.index + 1 /\ inst'.whole = inst.whole /\ UNCHANGED packages
    BY <1>i, <1>5 DEF BeginPhase, Publish
  <2>2. inst'.index \in 1 .. inst'.index /\ file'.index = inst'.index - 1
    BY <1>i, <2>1
  <2>3. FileHonest'
    BY <2>1, <2>2 DEF FileHonest, Honest
  <2>4. QED BY <1>p, <1>5, <2>1, <2>3 DEF Works, Further, BeginPhase, Working, dashboard
<1>6. ASSUME UNCHANGED <<file, inst, frame, view>>,
             packages'.count - packages'.done <= packages.count - packages.done,
             packages.done <= packages'.done
      PROVE  Works
  <2>1. Further
    BY <1>6 DEF Further
  <2>2. FileHonest'
    BY <1>t, <1>6 DEF FileHonest, Honest
  <2>3. QED BY <1>6, <2>1, <2>2 DEF Works
<1>7. CASE Unpack
  <2>1. Batches \subseteq Nat
    BY DashboardAssumption DEF DashboardAssumption
  <2>2. PICK n \in Nat : packages' = [packages EXCEPT !.count = @ + n, !.done = @ + n]
    BY <1>7, <2>1 DEF Unpack
  <2>3. packages'.count = packages.count + n /\ packages'.done = packages.done + n
    BY <1>i, <2>2
  <2>4. QED BY <1>i, <1>6, <1>7, <2>3 DEF Unpack, Working, dashboard
<1>8. CASE Lift
  <2>1. packages'.count = packages.count - 1 /\ packages'.done = packages.done
    BY <1>i, <1>8 DEF Lift
  <2>2. QED BY <1>i, <1>6, <1>8, <2>1 DEF Lift, Working, dashboard
<1>9. CASE PutBack
  <2>1. packages'.count = packages.count + 1 /\ packages'.done = packages.done + 1
    BY <1>i, <1>9 DEF PutBack
  <2>2. QED BY <1>i, <1>6, <1>9, <2>1 DEF PutBack, Working, dashboard
<1>10. CASE Complete
  <2>1. file'.finished /\ inst'.whole /\ inst'.index = inst.index /\ UNCHANGED packages
    BY <1>i, <1>10 DEF Complete, Publish
  <2>2. FileHonest'
    BY <2>1 DEF FileHonest, Honest
  <2>3. QED BY <1>p, <1>10, <2>1, <2>2 DEF Works, Further, Complete, Working, dashboard
<1>11. CASE Exit
  BY <1>i, <1>1, <1>11 DEF Exit, Working, dashboard
<1>12. CASE Fail
  BY <1>i, <1>1, <1>12 DEF Fail, Working, dashboard
<1>13. CASE Launch
  BY <1>i, <1>1, <1>2, <1>13 DEF Launch, Supervising
<1>14. CASE Record
  BY <1>2, <1>14 DEF Record, Supervising
<1>15. CASE Look \/ LastLook
  BY <1>15 DEF Look, LastLook, Supervising, Reads
<1>16. CASE Draw \/ LastDraw
  BY <1>16 DEF Draw, LastDraw, Supervising, Draws
<1>17. CASE Reap
  BY <1>2, <1>17 DEF Reap, Supervising, Forgets
<1>18. CASE Finish \/ RebootPrompt \/ Reboot \/ Failure \/ FailureMenu \/ Wait \/ Poll
  BY <1>2, <1>18 DEF Finish, RebootPrompt, Reboot, Failure, FailureMenu, Wait, Poll, Supervising
<1>19. CASE Interrupt
  BY <1>19 DEF Interrupt, Supervising, Forgets
<1>20. CASE Kill
  BY <1>i, <1>1, <1>20 DEF Kill, Supervising
<1>21. CASE UNCHANGED vars
  BY <1>2, <1>21 DEF vars, installer, dashboard
<1>22. QED
  BY <1>3, <1>4, <1>5, <1>7, <1>8, <1>9, <1>10, <1>11, <1>12, <1>13, <1>14, <1>15, <1>16, <1>17, <1>18,
     <1>19, <1>20, <1>21
  DEF Next, Installer, Supervisor, Rest

\* What the bar shows is what was done.
LEMMA HonestNext == DInv /\ [Next]_vars /\ Types' => (FileHonest /\ FrameHonest /\ BarNeverAhead /\ Grown)'
<1> SUFFICES ASSUME DInv, [Next]_vars, Types'
             PROVE  (FileHonest /\ FrameHonest /\ BarNeverAhead /\ Grown)'
  OBVIOUS
<1>t. Types /\ FileHonest /\ FrameHonest /\ BarNeverAhead /\ Grown
  BY DEF DInv
<1>i. /\ inst.index \in 0 .. 14 /\ inst'.index \in 0 .. 14
      /\ packages.count \in Nat /\ packages.done \in Nat /\ packages'.done \in Nat /\ packages'.count \in Nat
      /\ view.pos \in 10 .. 1000 /\ view.seen \in Nat /\ view.base \in Nat \cup {-1}
  BY <1>t DEF Types, InstOK, PackagesOK, ViewOK, Views
<1>r. Reached = Max(Ends(inst.index)) /\ Reached' = Max(Ends(inst'.index))
  BY DEF Reached, Ends
<1>m. /\ Reached \in Int /\ Reached' \in Int /\ 25 <= Reached /\ 25 <= Reached'
      /\ \A y \in Ends(inst.index) : y \in Int /\ y <= Reached
  BY <1>i, <1>r, EndsMax, EndsStart
<1>1. ASSUME view' = NewView
      PROVE  (BarNeverAhead /\ Grown)'
  <2>1. view'.pos = 10 /\ view'.base = -1 /\ view'.seen = 0
    BY <1>1 DEF NewView
  <2>2. QED BY <1>i, <1>m, <2>1 DEF BarNeverAhead, Grown
<1>2. CASE Begin
  <2>1. FileHonest' /\ FrameHonest'
    BY <1>2 DEF Begin, FileHonest, FrameHonest, Absent, NoFrame
  <2>2. QED BY <1>1, <1>2, <2>1 DEF Begin
<1>3. CASE Forgets
  <2>1. FileHonest' /\ FrameHonest'
    BY <1>t, <1>3 DEF Forgets, Forget, FileHonest, FrameHonest, NoFrame, Honest
  <2>2. QED BY <1>1, <1>3, <2>1 DEF Forgets, Forget
<1>4. CASE Reads
  <2>1. FileHonest'
    BY <1>t, <1>4 DEF Reads, FileHonest, Honest
  <2>2. FrameHonest'
    <3>1. CASE frame' = NoFrame
      BY <3>1 DEF FrameHonest, NoFrame
    <3>2. CASE file.there /\ frame' = [read |-> TRUE, now |-> clock, name |-> file.name, index |-> file.index,
                                       finished |-> file.finished]
      <4>1. /\ frame'.name = file.name /\ frame'.index = file.index /\ frame'.finished = file.finished
            /\ inst' = inst /\ Honest(file)
        BY <1>t, <1>4, <3>2 DEF Reads, FileHonest
      <4>2. QED BY <4>1 DEF FrameHonest, Honest
    <3>3. QED BY <1>4, <3>1, <3>2 DEF Reads, Read
  <2>3. QED BY <1>t, <1>4, <2>1, <2>2 DEF Reads, BarNeverAhead, Reached, Grown
<1>5. CASE Works
  <2>1. FileHonest'
    BY <1>5 DEF Works
  <2>2. FrameHonest'
    BY <1>t, <1>5, HonestStays DEF Works, Further, FrameHonest, Honest
  <2>3. Reached <= Reached'
    <3>1. CASE inst'.index = inst.index
      BY <1>r, <1>m, <3>1
    <3>2. CASE inst'.index = inst.index + 1
      <4>1. inst.index \in 0 .. 13
        BY <1>i, <3>2
      <4>2. QED BY <1>r, <3>2, <4>1, EndsGrow
    <3>3. QED BY <1>5, <3>1, <3>2 DEF Works, Further
  <2>4. BarNeverAhead'
    BY <1>t, <1>i, <1>m, <1>5, <2>3 DEF Works, Further, BarNeverAhead
  <2>5. Grown'
    BY <1>t, <1>i, <1>5 DEF Works, Further, Grown
  <2>6. QED BY <2>1, <2>2, <2>4, <2>5
<1>6. CASE Draws
  <2> DEFINE next == InstallProgress
  <2>1. FileHonest' /\ FrameHonest'
    BY <1>t, <1>6 DEF Draws, FileHonest, FrameHonest, NoFrame, Honest
  <2>2. view' = next /\ next \in Views
    BY <1>t, <1>6, Drawn DEF Draws
  <2>3. Reached' = Reached /\ inst' = inst /\ packages' = packages
    BY <1>6 DEF Draws, Reached
  <2>4. \/ next.pos = view.pos
        \/ frame.read /\ frame.finished /\ next.pos = 1000
        \/ frame.read /\ ~ frame.finished /\ next.pos < Band(frame.name, frame.index)[2]
    BY <1>t, Drawn
  <2>5. ASSUME next.pos = view.pos
        PROVE  BarNeverAhead'
    BY <1>t, <2>2, <2>3, <2>5 DEF BarNeverAhead
  <2>6. ASSUME frame.read, frame.finished, next.pos = 1000
        PROVE  BarNeverAhead'
    <3>1. inst.whole
      BY <1>t, <2>6 DEF FrameHonest, Honest
    <3>2. QED BY <2>2, <2>3, <2>6, <3>1 DEF BarNeverAhead
  <2>7. ASSUME frame.read, ~ frame.finished, next.pos < Band(frame.name, frame.index)[2]
        PROVE  BarNeverAhead'
    <3> DEFINE band == Band(frame.name, frame.index)
    <3>1. band[2] \in Ends(inst.index)
      <4>1. CASE frame.name = "starting" /\ frame.index = 0
        BY <4>1 DEF Band, Bands, Ends
      <4>2. CASE \E i \in 1 .. inst.index : frame.name = Phases[i] /\ frame.index = i - 1
        BY <4>2 DEF Ends
      <4>3. QED BY <1>t, <2>7, <4>1, <4>2 DEF FrameHonest, Honest
    <3>2. IsBand(band)
      <4>1. CASE frame.name = "starting" /\ frame.index = 0
        BY <4>1, BandType
      <4>2. CASE \E i \in 1 .. inst.index : frame.name = Phases[i] /\ frame.index = i - 1
        BY <1>i, <4>2, BandType
      <4>3. QED BY <1>t, <2>7, <4>1, <4>2 DEF FrameHonest, Honest
    <3>3. next.pos \in Int /\ next.pos < band[2]
      BY <2>2, <2>7 DEF Views
    <3> HIDE DEF band, next
    <3>4. next.pos < Reached /\ next.pos # 1000
      BY <1>m, <3>1, <3>2, <3>3 DEF IsBand
    <3>5. view'.pos < Reached' /\ view'.pos # 1000
      BY <2>2, <2>3, <3>4
    <3>6. QED BY <3>5 DEF BarNeverAhead
  <2>8. BarNeverAhead'
    BY <2>4, <2>5, <2>6, <2>7
  <2>9. CASE ~ frame.read \/ frame.finished
    <3>1. next.base = view.base /\ next.seen = view.seen
      BY <1>t, <2>9, Drawn
    <3>2. Grown'
      BY <1>t, <2>2, <2>3, <3>1 DEF Grown
    <3>3. QED BY <2>1, <2>8, <3>2
  <2>10. CASE frame.read /\ ~ frame.finished
    <3> DEFINE e == Entered(view)
               c == Counted(e)
    <3>1. e \in Views /\ (e = view \/ (e.base = -1 /\ e.seen = 0)) /\ e.t0 <= frame.now /\ e.change <= frame.now
      BY <1>t, <2>10, EnteredType
    <3>2. e.base \in Nat \cup {-1} /\ e.seen \in Nat
      BY <3>1 DEF Views
    <3>3. (e.base >= 0 => packages.count - packages.done <= e.base) /\ e.seen <= packages.done
      BY <1>t, <1>i, <3>1 DEF Grown
    <3>4. /\ c.base = IF e.base < 0 THEN packages.count ELSE e.base
          /\ c.seen = IF e.seen >= packages.count - c.base THEN e.seen ELSE packages.count - c.base
      BY <1>t, <3>1, CountedType
    <3>5. \/ next.base = e.base /\ next.seen = e.seen
          \/ next.base = c.base /\ next.seen = c.seen
      BY <1>t, <2>10, Drawn
    <3> HIDE DEF e, c, next
    <3>6. packages.count - packages.done <= c.base /\ c.seen <= packages.done
      BY <1>i, <3>2, <3>3, <3>4
    <3>7. Grown'
      BY <2>2, <2>3, <3>3, <3>5, <3>6 DEF Grown
    <3>8. QED BY <2>1, <2>8, <3>7
  <2>11. QED BY <2>9, <2>10
<1>7. QED BY <1>2, <1>3, <1>4, <1>5, <1>6, Moves

-----------------------------------------------------------------------------
(* How it ends                                                             *)

\* Only a successful installer is drawn finished, and nothing changes it then.
LEMMA EarnedNext == DInv /\ [Next]_vars => Earned'
<1> SUFFICES ASSUME DInv, [Next]_vars PROVE Earned'
  OBVIOUS
<1>t. Types /\ Earned
  BY DEF DInv
<1>i. inst \in [at : {"none", "starting", "working", "written", "ok", "failed"},
                index : 0 .. 14, whole : BOOLEAN, killed : BOOLEAN]
  BY <1>t DEF Types, InstOK
<1>1. CASE Begin
  BY <1>t, <1>1 DEF Begin, Earned, RebootEarned, NoInstaller
<1>2. CASE Tick
  BY <1>t, <1>2 DEF Tick, Earned, RebootEarned, installer, dashboard
<1>3. CASE Installer
  <2>1. inst.at # "ok" /\ UNCHANGED <<dash, rebooted, session>>
    BY <1>3 DEF Installer, Starting, BeginPhase, Unpack, Lift, PutBack, InPackages, Complete, Exit, Fail, Ended, Exited,
       Working, dashboard
  <2>2. inst'.at \in {"written", "ok"} => inst'.whole
    BY <1>t, <1>i, <1>3 DEF Installer, Starting, BeginPhase, Unpack, Lift, PutBack, Complete, Exit, Fail, Earned
  <2>3. QED BY <1>t, <2>1, <2>2 DEF Earned, RebootEarned
<1>4. CASE Launch
  BY <1>t, <1>i, <1>4 DEF Launch, At, Supervising, Earned, RebootEarned
<1>5. CASE Kill
  BY <1>t, <1>i, <1>5 DEF Kill, At, Supervising, Earned, RebootEarned
<1>6. CASE Record \/ Look \/ Draw
  BY <1>t, <1>6 DEF Record, Look, Draw, At, Supervising, Earned, RebootEarned
<1>7. CASE Reap
  BY <1>t, <1>7 DEF Reap, At, Supervising, Earned, RebootEarned
<1>8. CASE LastLook \/ LastDraw
  BY <1>t, <1>8 DEF LastLook, LastDraw, At, Supervising, Earned, RebootEarned
<1>9. CASE Finish \/ RebootPrompt
  BY <1>t, <1>9 DEF Finish, RebootPrompt, At, Supervising, Earned, RebootEarned
<1>10. CASE Reboot
  BY <1>t, <1>10 DEF Reboot, At, Supervising, Earned, RebootEarned
<1>11. CASE Failure \/ FailureMenu
  BY <1>t, <1>11 DEF Failure, FailureMenu, At, Supervising, Earned, RebootEarned
<1>12. CASE Interrupt \/ Poll \/ Wait
  BY <1>t, <1>12 DEF Interrupt, Poll, Wait, At, Supervising, Earned, RebootEarned
<1>13. CASE UNCHANGED vars
  BY <1>t, <1>13 DEF vars, installer, dashboard, Earned, RebootEarned
<1>14. QED
  BY <1>1, <1>2, <1>3, <1>4, <1>5, <1>6, <1>7, <1>8, <1>9, <1>10, <1>11, <1>12, <1>13 DEF Next, Supervisor, Rest

\* A recorded pid is given up only when its process has ended.
LEMMA HeldNext == DInv /\ [Next]_vars => Held'
<1> SUFFICES ASSUME DInv, [Next]_vars PROVE Held'
  OBVIOUS
<1>t. Types /\ Held
  BY DEF DInv
<1>i. inst \in [at : {"none", "starting", "working", "written", "ok", "failed"},
                index : 0 .. 14, whole : BOOLEAN, killed : BOOLEAN]
  BY <1>t DEF Types, InstOK
<1>1. CASE Begin
  BY <1>1 DEF Begin, Held, StoppedGone
<1>2. CASE Tick
  BY <1>t, <1>2 DEF Tick, Held, StoppedGone, Ended, Exited, installer, dashboard
<1>3. CASE Installer
  <2>1. ~ Ended \/ UNCHANGED inst
    BY <1>3 DEF Installer, Starting, BeginPhase, Unpack, Lift, PutBack, Complete, Exit, Fail, Ended, Exited
  <2>2. UNCHANGED <<dash, pid>>
    BY <1>3 DEF Installer, Starting, BeginPhase, Unpack, Lift, PutBack, Complete, Exit, Fail, Working, dashboard
  <2>3. QED BY <1>t, <2>1, <2>2 DEF Held, StoppedGone, Ended, Exited
<1>4. CASE Launch
  BY <1>t, <1>4 DEF Launch, At, Held, StoppedGone
<1>5. CASE Kill
  BY <1>t, <1>5 DEF Kill, At, Held, StoppedGone
<1>6. CASE Record \/ Look \/ Draw \/ Reap \/ LastLook \/ LastDraw
  <2>1. CASE Record
    BY <1>t, <2>1 DEF Record, At, Held, StoppedGone
  <2>2. CASE Look \/ Draw
    BY <1>t, <2>2 DEF Look, Draw, At, Held, StoppedGone
  <2>3. CASE Reap
    BY <2>3 DEF Reap, At, Held, StoppedGone
  <2>4. CASE LastLook \/ LastDraw
    <3>1. ~ pid /\ UNCHANGED pid
      BY <1>t, <2>4 DEF LastLook, LastDraw, Held
    <3>2. QED BY <3>1 DEF Held, StoppedGone
  <2>5. QED BY <1>6, <2>1, <2>2, <2>3, <2>4
<1>7. CASE Finish \/ RebootPrompt \/ Reboot \/ Failure \/ FailureMenu
  BY <1>t, <1>7 DEF Finish, RebootPrompt, Reboot, Failure, FailureMenu, At, Supervising, Held, StoppedGone
<1>8. CASE Interrupt
  BY <1>t, <1>8 DEF Interrupt, At, Supervising, Held, StoppedGone
<1>9. CASE Poll
  BY <1>t, <1>9 DEF Poll, At, Supervising, Held, StoppedGone
<1>10. CASE Wait
  BY <1>t, <1>10 DEF Wait, At, Supervising, Held, StoppedGone, Ended, Exited
<1>11. CASE UNCHANGED vars
  BY <1>t, <1>11 DEF vars, installer, dashboard, Held, StoppedGone, Ended, Exited
<1>12. QED
  BY <1>1, <1>2, <1>3, <1>4, <1>5, <1>6, <1>7, <1>8, <1>9, <1>10, <1>11 DEF Next, Supervisor, Rest

-----------------------------------------------------------------------------
(* Theorems                                                                *)

\* The dashboard's invariant holds in every state.
THEOREM DashboardInvariant == Spec => []DInv
<1>1. DInv /\ [Next]_vars => DInv'
  <2> SUFFICES ASSUME DInv, [Next]_vars PROVE DInv'
    OBVIOUS
  <2>1. Types'
    BY TypesNext
  <2>2. (FileHonest /\ FrameHonest /\ BarNeverAhead /\ Grown)'
    BY <2>1, HonestNext
  <2>3. QED BY <2>1, <2>2, EarnedNext, HeldNext DEF DInv
<1>2. QED BY InitInv, <1>1, PTL DEF Spec

\* The dashboard's values are what they are read as.
THEOREM DashboardTypes == Spec => []TypeOK
<1>1. DInv => TypeOK
  BY TypesImply DEF DInv
<1>2. QED BY <1>1, DashboardInvariant, PTL

\* install_progress never shows a phase that was not begun, nor a full bar before
\* all of them are done, whatever the total, the delays and the reinstalled packages.
THEOREM BarIsHonest == Spec => []BarNeverAhead
<1>1. DInv => BarNeverAhead
  BY DEF DInv
<1>2. QED BY <1>1, DashboardInvariant, PTL

\* The packages that are counted were installed by this installer.
THEOREM CountIsHonest == Spec => []HonestCount
<1>1. DInv => HonestCount
  BY DEF DInv, Grown, HonestCount
<1>2. QED BY <1>1, DashboardInvariant, PTL

\* An automatic reboot follows a complete installation.
THEOREM RebootIsEarned == Spec => []RebootEarned
<1>1. DInv => RebootEarned
  BY DEF DInv, Earned
<1>2. QED BY <1>1, DashboardInvariant, PTL

\* interrupt waits for the installer whose pid is recorded.
THEOREM InstallerStopped == Spec => []StoppedGone
<1>1. DInv => StoppedGone
  BY DEF DInv, Held
<1>2. QED BY <1>1, DashboardInvariant, PTL
=============================================================================
