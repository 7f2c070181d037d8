---------------------------- MODULE ClockProofs ----------------------------
(***************************************************************************)
(* The scheduler keeps simulated time in order, for any number of domains, *)
(* any periods and any number of components.                               *)
(***************************************************************************)
EXTENDS Clock, WellFoundedInduction, TLAPS

(* A product with a positive integer is at least the other factor. *)
LEMMA Multiple ==
  ASSUME NEW m \in Int, m >= 1
  PROVE  m * SEC >= SEC
<1>1. SEC \in Nat /\ m - 1 \in Nat
  BY ClockAssumption
<1>2. (m - 1) * SEC \in Nat
  BY <1>1
<1>3. m * SEC = (m - 1) * SEC + SEC
  BY <1>1
<1> QED
  BY <1>1, <1>2, <1>3

(* lt_time of clock_domain.c compares seconds first; on normalised times   *)
(* that is the order of the elapsed femtoseconds.                          *)
LEMMA LtTimeIsElapsed ==
  ASSUME NEW a \in ClockTime, NEW b \in ClockTime
  PROVE  lt_time(a, b) <=> Elapsed(a) < Elapsed(b)
<1> DEFINE d == b.s - a.s
<1>1. /\ a.s \in Nat /\ b.s \in Nat /\ a.fs \in Nat /\ b.fs \in Nat
      /\ SEC \in Nat /\ a.fs < SEC /\ b.fs < SEC
  BY ClockAssumption DEF ClockTime
<1>2. b.s * SEC - a.s * SEC = d * SEC
  BY <1>1
<1>3. a.s * SEC \in Nat /\ b.s * SEC \in Nat
  BY <1>1
<1>4. CASE a.s = b.s
  BY <1>1, <1>3, <1>4 DEF lt_time, Elapsed
<1>5. CASE a.s < b.s
  <2>1. d * SEC >= SEC
    BY <1>1, <1>5, Multiple
  <2> QED
    BY <2>1, <1>1, <1>2, <1>3, <1>5 DEF lt_time, Elapsed
<1>6. CASE b.s < a.s
  <2>1. (0 - d) * SEC >= SEC
    BY <1>1, <1>6, Multiple
  <2>2. (0 - d) * SEC = a.s * SEC - b.s * SEC
    BY <1>1
  <2> QED
    BY <2>1, <2>2, <1>1, <1>3, <1>6 DEF lt_time, Elapsed
<1> QED
  BY <1>1, <1>4, <1>5, <1>6

(* Dividing with remainder, for a divisor the provers know only by name.   *)
LEMMA Division ==
  ASSUME NEW x \in Nat, NEW w \in Nat \ {0}
  PROVE  /\ x \div w \in Nat
         /\ (x % w) \in 0 .. w - 1
         /\ x = (x \div w) * w + (x % w)
<1> DEFINE q == x \div w
<1>1. q \in Int /\ (x % w) \in 0 .. w - 1 /\ x = w * q + (x % w)
  OBVIOUS
<1>2. CASE q >= 0
  BY <1>1, <1>2
<1>3. CASE q <= -1
  <2>1. w * q = w * (q + 1) - w
    BY <1>1
  <2>2. w * (q + 1) <= 0
    BY <1>1, <1>3
  <2> QED
    BY <1>1, <2>1, <2>2
<1> QED
  BY <1>1, <1>2, <1>3

(* A sum that fits its word is not changed by the word's width. *)
LEMMA NoWrap ==
  ASSUME NEW x \in Nat, NEW w \in Nat, x < w
  PROVE  x % w = x
<1> DEFINE q == x \div w
           r == x % w
<1>1. q \in Nat /\ r \in 0 .. w - 1 /\ x = q * w + r
  <2>1. w \in Nat \ {0}
    OBVIOUS
  <2> QED
    BY <2>1, Division
<1> HIDE DEF q
<1>2. CASE q = 0
  BY <1>1, <1>2
<1>3. CASE q >= 1
  <2>1. q * w = w + (q - 1) * w
    BY <1>1
  <2>2. (q - 1) * w >= 0
    BY <1>1, <1>3
  <2> QED
    BY <1>1, <2>1, <2>2
<1> QED
  BY <1>1, <1>2, <1>3

(* advance_clock yields a normalised time exactly one period later: the    *)
(* uint64_t addition does not wrap and the carry loses nothing.            *)
LEMMA AdvanceAddsPeriod ==
  ASSUME NEW t \in ClockTime, NEW p \in Nat, p + SEC <= WORD
  PROVE  /\ advance_clock(t, p) \in ClockTime
         /\ Elapsed(advance_clock(t, p)) = Elapsed(t) + p
<1> DEFINE x == t.fs + p
           q == x \div SEC
           m == x % SEC
<1>1. /\ t.s \in Nat /\ t.fs \in Nat /\ x \in Nat
      /\ SEC \in Nat \ {0} /\ WORD \in Nat /\ x < WORD
  BY ClockAssumption DEF ClockTime
<1>2. x % WORD = x
  BY <1>1, NoWrap
<1>3. q \in Nat /\ m \in 0 .. SEC - 1 /\ x = q * SEC + m
  BY <1>1, Division
<1>4. advance_clock(t, p) = [s |-> t.s + q, fs |-> m]
  BY <1>2 DEF advance_clock
<1> HIDE DEF q, m
<1>5. advance_clock(t, p) \in ClockTime
  BY <1>1, <1>3, <1>4 DEF ClockTime
<1>6. Elapsed(advance_clock(t, p)) = (t.s + q) * SEC + m
  BY <1>4 DEF Elapsed
<1>7. (t.s + q) * SEC = t.s * SEC + q * SEC
  BY <1>1, <1>3
<1>8. t.s * SEC \in Nat /\ q * SEC \in Nat
  BY <1>1, <1>3
<1> QED
  BY <1>1, <1>3, <1>5, <1>6, <1>7, <1>8 DEF Elapsed

(* Normalised times are totally ordered by lt_time. *)
LEMMA Trichotomy ==
  ASSUME NEW a \in ClockTime, NEW b \in ClockTime, ~ lt_time(b, a), a # b
  PROVE  lt_time(a, b)
BY ClockAssumption DEF ClockTime, lt_time

(* Times in femtoseconds are natural numbers.                              *)
LEMMA ElapsedIsNat ==
  ASSUME NEW t \in ClockTime
  PROVE  Elapsed(t) \in Nat
<1>1. t.s \in Nat /\ t.fs \in Nat /\ SEC \in Nat
  BY ClockAssumption DEF ClockTime
<1>2. t.s * SEC \in Nat
  BY <1>1
<1> QED
  BY <1>1, <1>2 DEF Elapsed

(* The time at which a run starts is normalised.                           *)
LEMMA ZeroIsTime == Zero \in ClockTime
BY ClockAssumption DEF Zero, ClockTime

(* A nonempty set of positions in a sequence has a last one. *)
LEMMA LastPosition ==
  ASSUME NEW n \in Nat, NEW T \in SUBSET (1 .. n), T # {}
  PROVE  \E k \in T : \A l \in T : l <= k
<1> DEFINE U == {n - k : k \in T}
<1>1. U \subseteq Nat /\ U # {}
  <2>1. \A k \in T : k \in Int /\ n - k \in Nat
    OBVIOUS
  <2>2. U \subseteq Nat
    BY <2>1
  <2>3. PICK k \in T : TRUE
    OBVIOUS
  <2>4. n - k \in U
    BY <2>3
  <2> QED
    BY <2>2, <2>4
<1>2. PICK u \in U : \A v \in U : ~ (<<v, u>> \in OpToRel(<, Nat))
  BY <1>1, NatLessThanWellFounded, WFMin
<1>3. \A v \in U : ~ (v < u)
  BY <1>1, <1>2 DEF OpToRel
<1>4. PICK k \in T : u = n - k
  OBVIOUS
<1>5. \A l \in T : n - l \in U
  OBVIOUS
<1>6. \A l \in T : ~ (n - l < n - k)
  BY <1>3, <1>4, <1>5
<1>7. \A l \in T : l \in Int
  OBVIOUS
<1>8. \A l \in T : l <= k
  BY <1>4, <1>6, <1>7
<1> QED
  BY <1>4, <1>8

(* What the domain root_run picks tells about the others: none is behind it. *)
LEMMA PickedIsBehind ==
  ASSUME TypeOK, NEW i \in DOMAIN domains, most_delayed_domain(i)
  PROVE  /\ domains[i] \in Clk
         /\ \A d \in Registered :
              Elapsed(time[domains[i]]) <= Elapsed(time[d])
<1> DEFINE c == domains[i]
<1>1. /\ i \in Nat
      /\ \A j \in DOMAIN domains :
           /\ j \in Nat /\ domains[j] \in Clk
           /\ time[domains[j]] \in ClockTime
           /\ Elapsed(time[domains[j]]) \in Nat
  BY ElapsedIsNat DEF TypeOK
<1>2. \A j \in DOMAIN domains : Elapsed(time[c]) <= Elapsed(time[domains[j]])
  <2> TAKE j \in DOMAIN domains
  <2>1. CASE j < i
    <3>1. lt_time(time[c], time[domains[j]])
      BY <2>1 DEF most_delayed_domain
    <3> QED
      BY <3>1, <1>1, LtTimeIsElapsed
  <2>2. CASE ~ (j < i)
    <3>1. ~ lt_time(time[domains[j]], time[c])
      BY <2>2 DEF most_delayed_domain
    <3> QED
      BY <3>1, <1>1, LtTimeIsElapsed
  <2> QED
    BY <2>1, <2>2
<1> QED
  BY <1>1, <1>2 DEF Registered

(* What one tick does to the clocks, in plain femtoseconds: the picked     *)
(* domain gains a period and every other one keeps its time.               *)
LEMMA TickMovesOneClock ==
  ASSUME TypeOK, Tick
  PROVE  \E c \in Registered :
           /\ c \in Clk
           /\ now' = time[c]
           /\ time' \in [Clk -> ClockTime]
           /\ Elapsed(time'[c]) = Elapsed(time[c]) + Period[c]
           /\ \A d \in Clk \ {c} : time'[d] = time[d]
           /\ \A d \in Registered : Elapsed(time[c]) <= Elapsed(time[d])
<1>1. PICK i \in DOMAIN domains :
        /\ most_delayed_domain(i)
        /\ \E stats \in [1 .. comps[domains[i]] -> Stat] :
             clock_domain_tick(domains[i], stats)
  BY DEF Tick
<1> DEFINE c == domains[i]
<1>2. c \in Clk /\ \A d \in Registered : Elapsed(time[c]) <= Elapsed(time[d])
  BY <1>1, PickedIsBehind
<1>3. /\ time' = [time EXCEPT ![c] = advance_clock(@, Period[c])]
      /\ now' = time[c]
  BY <1>1 DEF clock_domain_tick
<1>4. /\ time \in [Clk -> ClockTime] /\ time[c] \in ClockTime
      /\ Period[c] \in Nat /\ Period[c] + SEC <= WORD
  BY <1>2, ClockAssumption DEF TypeOK
<1>5. /\ advance_clock(time[c], Period[c]) \in ClockTime
      /\ Elapsed(advance_clock(time[c], Period[c]))
           = Elapsed(time[c]) + Period[c]
  BY <1>4, AdvanceAddsPeriod
<1>6. c \in Registered
  BY DEF Registered
<1> QED
  BY <1>2, <1>3, <1>4, <1>5, <1>6

(* LastReport is the last stat other than OK, if there is one. *)
LEMMA LastReportIsLast ==
  ASSUME NEW c \in Clk, NEW n \in Nat, NEW stats \in [1 .. n -> Stat]
  PROVE  LET bad == {k \in DOMAIN stats : stats[k] # "OK"}
         IN  /\ bad = {} => LastReport(c, stats) = ret[c]
             /\ bad # {} => \E k \in bad :
                  /\ \A l \in bad : l <= k
                  /\ LastReport(c, stats) = stats[k]
<1> DEFINE bad == {k \in DOMAIN stats : stats[k] # "OK"}
           Last(k) == \A l \in bad : l <= k
<1>1. CASE bad = {}
  BY <1>1 DEF LastReport
<1>2. CASE bad # {}
  <2>1. bad \in SUBSET (1 .. n)
    OBVIOUS
  <2>2. \E k \in bad : Last(k)
    BY <1>2, <2>1, LastPosition
  <2>3. (CHOOSE k \in bad : Last(k)) \in bad /\ Last(CHOOSE k \in bad : Last(k))
    BY <2>2
  <2>4. LastReport(c, stats) = stats[CHOOSE k \in bad : Last(k)]
    BY <1>2 DEF LastReport
  <2> QED
    BY <1>2, <2>3, <2>4
<1> QED
  BY <1>1, <1>2

(* The part of the invariant that is about reports, across a tick. *)
LEMMA TickReports ==
  ASSUME ClockInv, Tick
  PROVE  /\ ret' \in [Clk -> Stat] /\ result' \in Stat
         /\ reported' \in Seq(Stat) /\ phase' \in {"run", "stop"}
         /\ NoReportYet' /\ LastReportWins'
<1>1. PICK i \in DOMAIN domains :
        /\ \E stats \in [1 .. comps[domains[i]] -> Stat] :
             clock_domain_tick(domains[i], stats)
        /\ IF ret'[domains[i]] = "OK"
           THEN UNCHANGED <<phase, result>>
           ELSE /\ phase' = "stop"
                /\ result' = IF ret'[domains[i]] = "DONE"
                             THEN "OK" ELSE ret'[domains[i]]
  BY DEF Tick
<1> DEFINE c == domains[i]
<1>2. /\ phase = "run" /\ c \in Clk /\ comps[c] \in Nat
      /\ ret = [d \in Clk |-> "OK"] /\ result \in Stat
  BY DEF ClockInv, TypeOK, NoReportYet, Tick
<1>3. PICK stats \in [1 .. comps[c] -> Stat] : clock_domain_tick(c, stats)
  BY <1>1
<1> DEFINE bad == {k \in DOMAIN stats : stats[k] # "OK"}
<1>4. ret' = [ret EXCEPT ![c] = LastReport(c, stats)] /\ reported' = stats
  BY <1>3 DEF clock_domain_tick
<1>5. /\ bad = {} => LastReport(c, stats) = "OK"
      /\ bad # {} => \E k \in bad : /\ \A l \in bad : l <= k
                                    /\ LastReport(c, stats) = stats[k]
  BY <1>2, LastReportIsLast
<1>6. LastReport(c, stats) \in Stat
  BY <1>5 DEF Stat
<1>7. ret' \in [Clk -> Stat] /\ ret'[c] = LastReport(c, stats)
  BY <1>2, <1>4, <1>6 DEF Stat
<1>8. result' \in Stat /\ phase' \in {"run", "stop"} /\ reported' \in Seq(Stat)
  <2>1. result' \in Stat /\ phase' \in {"run", "stop"}
    BY <1>1, <1>2, <1>7 DEF Stat
  <2>2. stats \in Seq(Stat)
    BY <1>2
  <2> QED
    BY <2>1, <2>2, <1>4
<1>9. NoReportYet'
  BY <1>1, <1>2, <1>4, <1>7 DEF NoReportYet
<1>10. LastReportWins'
  <2>1. phase' = "run" => bad = {}
    <3>1. bad # {} => LastReport(c, stats) # "OK"
      BY <1>5
    <3> QED
      BY <3>1, <1>1, <1>7
  <2>2. ASSUME phase' = "stop", bad # {}
        PROVE  \E k \in bad :
                 /\ \A l \in bad : l <= k
                 /\ result' = IF stats[k] = "DONE" THEN "OK" ELSE stats[k]
    <3>1. PICK k \in bad : /\ \A l \in bad : l <= k
                           /\ LastReport(c, stats) = stats[k]
      BY <1>5, <2>2
    <3>2. ret'[c] # "OK"
      BY <3>1, <1>7
    <3> QED
      BY <1>1, <3>1, <3>2, <1>7
  <2> QED
    BY <2>1, <2>2, <1>4 DEF LastReportWins
<1> QED
  BY <1>7, <1>8, <1>9, <1>10

(* The invariant holds before the first domain is added.                   *)
LEMMA InitClockInv == Init => ClockInv
<1> SUFFICES ASSUME Init
             PROVE  ClockInv
  OBVIOUS
<1>1. TypeOK
  BY ZeroIsTime DEF Init, TypeOK, Stat
<1>2. Registered = {}
  BY DEF Init, Registered
<1>3. SetupAtZero /\ NoReportYet /\ LastReportWins
  BY DEF Init, SetupAtZero, NoReportYet, LastReportWins
<1> QED
  BY <1>1, <1>2, <1>3 DEF ClockInv, NoPast, BoundedSkew

(* Before root_run the clocks stand at zero, so that adding components and *)
(* domains, or starting, keeps every part of the invariant.                *)
LEMMA SetupClockInv ==
  ASSUME ClockInv,
         \/ \E c \in Clk : clock_domain_add(c) \/ root_add_clock(c)
         \/ root_run
  PROVE  ClockInv'
<1>1. /\ phase = "setup" /\ UNCHANGED <<time, ret, now, reported, result>>
      /\ phase' \in {"setup", "run", "stop"}
  BY DEF clock_domain_add, root_add_clock, root_run
<1>2. /\ now = Zero /\ time = [c \in Clk |-> Zero] /\ reported = << >>
      /\ ret = [c \in Clk |-> "OK"]
  BY <1>1 DEF ClockInv, SetupAtZero, NoReportYet
<1>3. domains' \in Seq(Clk) /\ comps' \in [Clk -> Nat]
  <2>1. domains \in Seq(Clk) /\ comps \in [Clk -> Nat]
    BY DEF ClockInv, TypeOK
  <2>2. CASE root_run
    BY <2>1, <2>2 DEF root_run
  <2>3. ASSUME NEW c \in Clk, clock_domain_add(c)
        PROVE  domains' \in Seq(Clk) /\ comps' \in [Clk -> Nat]
    BY <2>1, <2>3 DEF clock_domain_add
  <2>4. ASSUME NEW c \in Clk, root_add_clock(c)
        PROVE  domains' \in Seq(Clk) /\ comps' \in [Clk -> Nat]
    BY <2>1, <2>4 DEF root_add_clock
  <2> QED
    BY <2>2, <2>3, <2>4
<1>4. TypeOK'
  BY <1>1, <1>3 DEF ClockInv, TypeOK
<1>5. Registered' \in SUBSET Clk
  BY <1>3 DEF Registered
<1>6. \A c \in Clk : time'[c] = Zero /\ Period[c] \in Nat
  BY <1>1, <1>2, ClockAssumption
<1>7. SetupAtZero' /\ NoReportYet' /\ LastReportWins'
  BY <1>1, <1>2 DEF SetupAtZero, NoReportYet, LastReportWins
<1>8. NoPast'
  BY <1>1, <1>2, <1>5, <1>6, ZeroIsTime, ElapsedIsNat, LtTimeIsElapsed
  DEF NoPast
<1>9. BoundedSkew'
  BY <1>5, <1>6, ZeroIsTime, ElapsedIsNat DEF BoundedSkew
<1> QED
  BY <1>4, <1>7, <1>8, <1>9 DEF ClockInv

(* The invariant survives a tick of the domain that was chosen.            *)
LEMMA TickClockInv ==
  ASSUME ClockInv, Tick
  PROVE  ClockInv'
<1>1. PICK c \in Registered :
        /\ c \in Clk
        /\ now' = time[c]
        /\ time' \in [Clk -> ClockTime]
        /\ Elapsed(time'[c]) = Elapsed(time[c]) + Period[c]
        /\ \A d \in Clk \ {c} : time'[d] = time[d]
        /\ \A d \in Registered : Elapsed(time[c]) <= Elapsed(time[d])
  BY TickMovesOneClock DEF ClockInv
<1>2. Registered' = Registered /\ Registered \subseteq Clk
  BY DEF Tick, Registered, ClockInv, TypeOK
<1>3. \A d \in Clk : /\ time[d] \in ClockTime /\ time'[d] \in ClockTime
                     /\ Elapsed(time[d]) \in Nat /\ Period[d] \in Nat
  BY <1>1, ElapsedIsNat, ClockAssumption DEF ClockInv, TypeOK
<1>4. /\ ret' \in [Clk -> Stat] /\ result' \in Stat
      /\ reported' \in Seq(Stat) /\ phase' \in {"run", "stop"}
      /\ NoReportYet' /\ LastReportWins'
  BY TickReports
<1>5. TypeOK'
  BY <1>1, <1>3, <1>4 DEF ClockInv, TypeOK, Tick
<1>6. SetupAtZero'
  BY <1>4 DEF SetupAtZero
<1>7. NoPast'
  <2> SUFFICES ASSUME NEW d \in Registered
               PROVE  ~ lt_time(time'[d], now')
    BY <1>2 DEF NoPast
  <2>1. Elapsed(time[c]) <= Elapsed(time'[d])
    <3>1. CASE d = c
      BY <3>1, <1>1, <1>3
    <3>2. CASE d # c
      BY <3>2, <1>1, <1>2
    <3> QED
      BY <3>1, <3>2
  <2>2. Elapsed(time'[d]) \in Nat
    BY <1>2, <1>3, ElapsedIsNat
  <2> QED
    BY <2>1, <2>2, <1>1, <1>2, <1>3, LtTimeIsElapsed
<1>8. BoundedSkew'
  <2> SUFFICES ASSUME NEW a \in Registered, NEW b \in Registered
               PROVE  Elapsed(time'[a]) <= Elapsed(time'[b]) + Period[a]
    BY <1>2 DEF BoundedSkew
  <2>1. /\ a \in Clk /\ b \in Clk
        /\ Elapsed(time[a]) <= Elapsed(time[b]) + Period[a]
    BY <1>2 DEF ClockInv, BoundedSkew
  <2>2. CASE a = c /\ b = c
    BY <2>1, <2>2, <1>1, <1>3
  <2>3. CASE a = c /\ b # c
    BY <2>1, <2>3, <1>1, <1>3
  <2>4. CASE a # c /\ b = c
    BY <2>1, <2>4, <1>1, <1>3
  <2>5. CASE a # c /\ b # c
    BY <2>1, <2>5, <1>1, <1>3
  <2> QED
    BY <2>2, <2>3, <2>4, <2>5
<1> QED
  BY <1>4, <1>5, <1>6, <1>7, <1>8 DEF ClockInv

(* The scheduler's invariant: for every set of domains, every choice of    *)
(* periods and any number of components, whatever the components report.   *)
THEOREM ClockCorrect == Spec => []ClockInv
<1>1. Init => ClockInv
  BY InitClockInv
<1>2. ClockInv /\ [Next]_vars => ClockInv'
  <2> SUFFICES ASSUME ClockInv, [Next]_vars
               PROVE  ClockInv'
    OBVIOUS
  <2>1. CASE \/ \E c \in Clk : clock_domain_add(c) \/ root_add_clock(c)
             \/ root_run
    BY <2>1, SetupClockInv
  <2>2. CASE Tick
    BY <2>2, TickClockInv
  <2>3. CASE UNCHANGED vars
    BY <2>3 DEF vars, ClockInv, TypeOK, SetupAtZero, NoReportYet, NoPast,
                BoundedSkew, LastReportWins, Registered
  <2> QED
    BY <2>1, <2>2, <2>3 DEF Next
<1> QED
  BY <1>1, <1>2, PTL DEF Spec

(* The values of root_run and clock_domain_tick keep their types: local    *)
(* times stay normalised (fs below one second) for ever.                   *)
THEOREM TypeCorrect == Spec => []TypeOK
<1>1. ClockInv => TypeOK
  BY DEF ClockInv
<1> QED
  BY <1>1, ClockCorrect, PTL

(* No domain is ever more than one period of its own ahead of another. *)
THEOREM SkewIsBounded == Spec => []BoundedSkew
<1>1. ClockInv => BoundedSkew
  BY DEF ClockInv
<1> QED
  BY <1>1, ClockCorrect, PTL

(* A run stops on the first tick with a report and returns its last one. *)
THEOREM ReportsStopTheRun == Spec => []LastReportWins
<1>1. ClockInv => LastReportWins
  BY DEF ClockInv
<1> QED
  BY <1>1, ClockCorrect, PTL

(* Ticks are made in time order. *)
THEOREM TicksAreChronological == Spec => Chronological
<1>1. ClockInv /\ [Next]_vars => [now' # now => lt_time(now, now')]_vars
  <2> SUFFICES ASSUME ClockInv, Next, now' # now
               PROVE  lt_time(now, now')
    BY DEF vars
  <2>1. Tick
    BY DEF Next, clock_domain_add, root_add_clock, root_run
  <2>2. PICK c \in Registered : c \in Clk /\ now' = time[c]
    BY <2>1, TickMovesOneClock DEF ClockInv
  <2> QED
    BY <2>2, Trichotomy DEF ClockInv, NoPast, TypeOK
<1> QED
  BY <1>1, ClockCorrect, PTL DEF Spec, Chronological
============================================================================
