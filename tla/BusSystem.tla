----------------------------- MODULE BusSystem -----------------------------
(***************************************************************************)
(* The bus with its region table: a program maps devices and processors    *)
(* with simple_bus_add and then runs; every transfer names an address, and *)
(* the table decides which component it is for.                            *)
(***************************************************************************)
EXTENDS SimpleBus, BusRegions

CONSTANTS
  Slot,    \* Slot[i]: the component that the i-th region is added for
  Layouts  \* bound: the tables that the system is run with

ASSUME SystemAssumption ==
  /\ Slot \in Seq(Component) /\ Len(Slot) >= MaxRegions
  /\ \A i, j \in DOMAIN Slot : Slot[i] = Slot[j] => i = j

systemVars == <<vars, regions>>

SystemInit == Init /\ NoRegions

(* The component of the region that find_bus_region returns. *)
owner(addr) ==
  IF find_bus_region(addr) = 0 THEN Nowhere ELSE Slot[find_bus_region(addr)]

Running == \E m \in Master : pkt[m] # None

(* Components are mapped before the simulation runs. *)
MapComponent == ~ Running /\ AddRegion /\ UNCHANGED vars

StartAt(m, addr, bytes) ==
  /\ ~ aborted
  /\ regions \in Layouts
  /\ start_transfer(m, owner(addr), bytes)
  /\ UNCHANGED regions

SystemNext ==
  \/ MapComponent
  \/ \E m \in Master, addr \in Address, b \in {1, 8} : StartAt(m, addr, b)
  \/ \E m \in Master :
       (Retry(m) \/ Finish(m) \/ Answer(m)) /\ UNCHANGED regions
  \/ BusClock /\ UNCHANGED regions
  \/ \E d \in Device : DeviceClock(d) /\ UNCHANGED regions

(* As in SimpleBus: everything that is clocked is clocked for ever. *)
SystemFairness ==
  /\ WF_systemVars(BusClock /\ UNCHANGED regions)
  /\ \A m \in Master :
       /\ WF_systemVars(Retry(m) /\ UNCHANGED regions)
       /\ WF_systemVars(Finish(m) /\ UNCHANGED regions)
       /\ WF_systemVars(Answer(m) /\ UNCHANGED regions)
  /\ \A d \in Device : WF_systemVars(DeviceClock(d) /\ UNCHANGED regions)

SystemSpec == SystemInit /\ [][SystemNext]_systemVars /\ SystemFairness
============================================================================
