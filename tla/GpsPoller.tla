----------------------------- MODULE GpsPoller -----------------------------
(***************************************************************************)
(* The position: the GPS singleton of boards/rpi/rpi_gps_info.cpp, whose   *)
(* thread asks the module every three seconds, and the module's receiver,  *)
(* which that thread switches on (enableGnss) and nothing switches off.    *)
(* The receiver is also off after the module has restarted.                *)
(***************************************************************************)
EXTENDS Naturals

CONSTANTS
  EnableEvery,  \* failures before GNSS is switched on again (20 in the code)
  MaxFaults     \* bound: commands lost and restarts of the module

ASSUME GpsAssumption == EnableEvery \in Nat \ {0} /\ MaxFaults \in Nat

VARIABLES
  atUp,       \* m_atClient.is_connected()
  gnss,       \* is the module's receiver on?
  gps,        \* where the polling thread is
  everFixed,
  failCount,  \* modulo EnableEvery
  position,   \* gData.valid
  faults

gpsVars == <<gnss, gps, everFixed, failCount, position, faults>>

GpsTypeOK ==
  /\ atUp \in BOOLEAN
  /\ gnss \in BOOLEAN
  /\ gps \in {"off", "enable", "poll"}
  /\ everFixed \in BOOLEAN
  /\ failCount \in 0..(EnableEvery - 1)
  /\ position \in BOOLEAN
  /\ faults \in 0..MaxFaults

\* The thread and its data in a new process.
GpsFresh ==
  /\ gps' = "off"
  /\ everFixed' = FALSE
  /\ failCount' = 0
  /\ position' = FALSE

GpsInit ==
  /\ gnss \in BOOLEAN
  /\ gps = "off"
  /\ everFixed = FALSE
  /\ failCount = 0
  /\ position = FALSE
  /\ faults = 0

----------------------------------------------------------------------------
\* AT+QGPS=1; the answer is an error when GNSS is on already.
EnableGnss ==
  \/ /\ gnss' = (gnss \/ atUp)
     /\ UNCHANGED faults
  \/ /\ atUp /\ faults < MaxFaults
     /\ faults' = faults + 1
     /\ UNCHANGED gnss

\* GPS::init and GPS::start.
GpsStart ==
  /\ gps' = "enable"
  /\ position' = FALSE
  /\ UNCHANGED <<gnss, everFixed, failCount, faults>>

FirstEnable ==
  /\ gps = "enable"
  /\ EnableGnss
  /\ gps' = "poll"
  /\ UNCHANGED <<everFixed, failCount, position>>

Fix ==
  /\ gps = "poll"
  /\ atUp /\ gnss
  /\ position' = TRUE
  /\ everFixed' = TRUE
  /\ failCount' = 0
  /\ UNCHANGED <<gnss, gps, faults>>

\* GNSS is switched on once, when the thread starts.
BugNoFix ==
  /\ gps = "poll"
  /\ position' = FALSE
  /\ failCount' = (failCount + 1) % EnableEvery
  /\ UNCHANGED <<gnss, faults, gps, everFixed>>

\* The last position stays until there is a new one.
BugNoFixKeeps ==
  /\ gps = "poll"
  /\ failCount' = (failCount + 1) % EnableEvery
  /\ IF ~everFixed /\ failCount' = 0
     THEN EnableGnss ELSE UNCHANGED <<gnss, faults>>
  /\ UNCHANGED <<gps, everFixed, position>>

\* No answer, or no fix in it.
NoFix ==
  /\ gps = "poll"
  /\ position' = FALSE
  /\ failCount' = (failCount + 1) % EnableEvery
  /\ IF ~everFixed /\ failCount' = 0
     THEN EnableGnss ELSE UNCHANGED <<gnss, faults>>
  /\ UNCHANGED <<gps, everFixed>>

ModuleRestart ==
  /\ faults < MaxFaults
  /\ faults' = faults + 1
  /\ gnss' = FALSE
  /\ UNCHANGED <<gps, everFixed, failCount, position>>

Poll == FirstEnable \/ Fix \/ NoFix
=============================================================================
