------------------------------- MODULE Clock -------------------------------
(***************************************************************************)
(* The discrete-event scheduler: src/src/root.c picks the most delayed     *)
(* clock domain, src/src/clock_domain.c clocks every component of it and   *)
(* moves its local time forward by one period.                             *)
(*                                                                         *)
(* A component is represented by the stat its clock callback returns: any  *)
(* of Stat, chosen anew at every tick.  What the callbacks do to registers *)
(* and packets is the subject of the other modules.                        *)
(***************************************************************************)
EXTENDS Integers, Sequences

CONSTANTS
  Clk,         \* the clock domains a simulation creates
  Period,      \* Period[c]: the period of domain c, in femtoseconds
  SEC,         \* femtoseconds in a second
  WORD,        \* number of values of the uint64_t the femtoseconds live in
  MAX_DOMAINS, \* slots of the root's domain array
  MaxComps,    \* bound: components added to one domain
  MaxSec       \* bound: a domain whose time reached MaxSec is not ticked

(* A period of zero or one that overflows fs + period is accepted by the   *)
(* code; no caller passes one, and time could not advance with them.       *)
ASSUME ClockAssumption ==
  /\ SEC \in Nat \ {0}
  /\ WORD \in Nat
  /\ Period \in [Clk -> Nat \ {0}]
  /\ \A c \in Clk : Period[c] + SEC <= WORD
  /\ MAX_DOMAINS \in Nat
  /\ MaxComps \in Nat
  /\ MaxSec \in Nat

(* The stats clock callbacks return: simple_riscv64 stops the simulation   *)
(* with DONE and reports ENOSUCH, ideal_alloc reports EMEM.                *)
Stat == {"OK", "DONE", "ENOSUCH", "EMEM"}

VARIABLES
  domains,  \* the root's domains, in the order they were added
  comps,    \* comps[c]: how many components domain c clocks
  time,     \* time[c]: local time of c, [s |-> seconds, fs |-> femtoseconds]
  ret,      \* ret[c]: last stat other than OK reported in c
  phase,    \* "setup" before root_run, "run" inside it, "stop" after it
  result,   \* what root_run returned, meaningful when phase = "stop"
  now,      \* history: local time at which the latest tick took place
  reported  \* history: what the components returned in the latest tick

vars == <<domains, comps, time, ret, phase, result, now, reported>>

ClockTime == [s : Nat, fs : 0 .. SEC - 1]
Zero == [s |-> 0, fs |-> 0]

(* Faulty variant, for BoundedSkew: the seconds are not compared. *)
LtByFemtoseconds(a, b) == a.fs < b.fs

lt_time(a, b) == IF a.s = b.s THEN a.fs < b.fs ELSE a.s < b.s

(* fs + period in a uint64_t, then as many whole seconds as fit carried.   *)
advance_clock(t, period) ==
  LET fs == (t.fs + period) % WORD
  IN  [s |-> t.s + fs \div SEC, fs |-> fs % SEC]

----------------------------------------------------------------------------
Init ==
  /\ domains = << >>
  /\ comps = [c \in Clk |-> 0]
  /\ time = [c \in Clk |-> Zero]
  /\ ret = [c \in Clk |-> "OK"]
  /\ phase = "setup"
  /\ result = "OK"
  /\ now = Zero
  /\ reported = << >>

clock_domain_add(c) ==
  /\ phase = "setup"
  /\ comps[c] < MaxComps
  /\ comps' = [comps EXCEPT ![c] = @ + 1]
  /\ UNCHANGED <<domains, time, ret, phase, result, now, reported>>

(* A full array refuses the domain (ESIZE) and leaves the root as it was.  *)
root_add_clock(c) ==
  /\ phase = "setup"
  /\ \A i \in DOMAIN domains : domains[i] # c
  /\ Len(domains) < MAX_DOMAINS
  /\ domains' = Append(domains, c)
  /\ UNCHANGED <<comps, time, ret, phase, result, now, reported>>

root_run ==
  /\ phase = "setup"
  /\ phase' = IF domains = << >> THEN "stop" ELSE "run"
  /\ UNCHANGED <<domains, comps, time, ret, result, now, reported>>

(* Faulty variants, for EveryDomainAdvances: the first domain is never     *)
(* replaced; for Chronological: domains of the same second count as tied.  *)
FirstDomain(i) == i = 1

MostDelayedSecond(i) ==
  \A j \in DOMAIN domains :
     IF j < i THEN time[domains[i]].s < time[domains[j]].s
              ELSE time[domains[i]].s <= time[domains[j]].s

(* The scan keeps the first domain unless a later one is strictly behind.  *)
most_delayed_domain(i) ==
  \A j \in DOMAIN domains :
     IF j < i THEN lt_time(time[domains[i]], time[domains[j]])
              ELSE ~ lt_time(time[domains[j]], time[domains[i]])

(* Faulty variant, for LastReportWins: the first report of a tick stays.   *)
FirstReport(c, stats) ==
  LET bad == {k \in DOMAIN stats : stats[k] # "OK"}
  IN  IF bad = {} THEN ret[c]
      ELSE stats[CHOOSE k \in bad : \A l \in bad : l >= k]

(* Every component is clocked whatever the ones before it returned, and a  *)
(* later stat replaces an earlier one.                                     *)
LastReport(c, stats) ==
  LET bad == {k \in DOMAIN stats : stats[k] # "OK"}
  IN  IF bad = {} THEN ret[c]
      ELSE stats[CHOOSE k \in bad : \A l \in bad : l <= k]

clock_domain_tick(c, stats) ==
  /\ ret' = [ret EXCEPT ![c] = LastReport(c, stats)]
  /\ time' = [time EXCEPT ![c] = advance_clock(@, Period[c])]
  /\ now' = time[c]
  /\ reported' = stats

(* One round of root_run's loop; DONE ends a run that succeeded.           *)
Tick ==
  /\ phase = "run"
  /\ \E i \in DOMAIN domains :
       LET c == domains[i]
       IN  /\ most_delayed_domain(i)
           /\ time[c].s < MaxSec
           /\ \E stats \in [1 .. comps[c] -> Stat] :
                clock_domain_tick(c, stats)
           /\ IF ret'[c] = "OK"
              THEN UNCHANGED <<phase, result>>
              ELSE /\ phase' = "stop"
                   /\ result' = IF ret'[c] = "DONE" THEN "OK" ELSE ret'[c]
  /\ UNCHANGED <<domains, comps>>

Next ==
  \/ \E c \in Clk : clock_domain_add(c) \/ root_add_clock(c)
  \/ root_run
  \/ Tick

(* root_run is a plain loop: once inside, it goes on ticking.              *)
Spec == Init /\ [][Next]_vars /\ WF_vars(Tick)

----------------------------------------------------------------------------
TypeOK ==
  /\ domains \in Seq(Clk)
  /\ comps \in [Clk -> Nat]
  /\ time \in [Clk -> ClockTime]
  /\ ret \in [Clk -> Stat]
  /\ phase \in {"setup", "run", "stop"}
  /\ result \in Stat
  /\ now \in ClockTime
  /\ reported \in Seq(Stat)

Registered == {domains[i] : i \in DOMAIN domains}

(* A clock_time as a plain number of femtoseconds. *)
Elapsed(t) == t.s * SEC + t.fs

(* No domain runs ahead of another by more than one period of its own: the *)
(* lexicographic comparison and the carry of advance_clock together keep   *)
(* the scheduler from letting a domain run while another waits.            *)
BoundedSkew ==
  \A c, d \in Registered : Elapsed(time[c]) <= Elapsed(time[d]) + Period[c]

(* Ticks happen in time order: the domain picked next is never at a local  *)
(* time before that of a tick already made, so no component is clocked in  *)
(* the past of what another one has already done.                          *)
Chronological == [][now' # now => lt_time(now, now')]_vars

(* A run ends in the very tick in which a component reports something, and *)
(* its result is what the last reporting component of that tick said: an   *)
(* error is only ever replaced by a report from later in the same tick.    *)
LastReportWins ==
  LET bad == {k \in DOMAIN reported : reported[k] # "OK"}
  IN  /\ phase = "run" => bad = {}
      /\ phase = "stop" /\ bad # {} =>
           \E k \in bad : /\ \A l \in bad : l <= k
                          /\ result = IF reported[k] = "DONE"
                                      THEN "OK" ELSE reported[k]

(* No domain starves: in a run no component ends, every domain of the root *)
(* gets to the end of the simulated time, fast or slow.                    *)
EveryDomainAdvances ==
  \A c \in Clk :
    phase = "run" /\ c \in Registered
      ~> phase = "stop" \/ time[c].s >= MaxSec

----------------------------------------------------------------------------
(* What makes the properties above inductive: nothing has happened before  *)
(* root_run, no domain is behind the latest tick, and a run that goes on   *)
(* has seen no report.                                                     *)
SetupAtZero ==
  phase = "setup" => /\ now = Zero
                     /\ time = [c \in Clk |-> Zero]
                     /\ reported = << >>

NoPast == \A c \in Registered : ~ lt_time(time[c], now)

NoReportYet == phase # "stop" => ret = [c \in Clk |-> "OK"]

ClockInv ==
  /\ TypeOK
  /\ SetupAtZero
  /\ NoReportYet
  /\ NoPast
  /\ BoundedSkew
  /\ LastReportWins
============================================================================
