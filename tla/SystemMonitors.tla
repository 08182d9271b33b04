--------------------------- MODULE SystemMonitors ---------------------------
(***************************************************************************)
(* The monitors of the system, that share no state: a behaviour is about   *)
(* one of them, and the others rest.                                       *)
(***************************************************************************)
EXTENDS CpuMonitor, GpuMonitor, GpuProcesses, TemperatureMonitor, MemoryMonitor, TLC

VARIABLE about \* the monitor that is watched

systemVars == <<about, cpuVars, gpuVars, drmVars, tempVars, memory>>

SystemInit ==
    /\ about \in {"cpu", "gpu", "processes", "temperature", "memory"}
    /\ CpuInit /\ (about # "cpu" => online = Cores)
    /\ GpuInit /\ (about # "gpu" => counts)
    /\ DrmInit /\ TempInit /\ MemoryInit

SystemNext ==
    \/ about = "cpu" /\ CpuNext /\ UNCHANGED <<about, gpuVars, drmVars, tempVars, memory>>
    \/ about = "gpu" /\ GpuNext /\ UNCHANGED <<about, cpuVars, drmVars, tempVars, memory>>
    \/ about = "processes" /\ DrmNext /\ UNCHANGED <<about, cpuVars, gpuVars, tempVars, memory>>
    \/ about = "temperature" /\ TempNext /\ UNCHANGED <<about, cpuVars, gpuVars, drmVars, memory>>
    \/ about = "memory" /\ MemoryNext /\ UNCHANGED <<about, cpuVars, gpuVars, drmVars, tempVars>>

SystemSpec == SystemInit /\ [][SystemNext]_systemVars

\* Neither processes nor clients are told apart.
Alike == Permutations(DrmPids) \cup Permutations(DrmClients)
=============================================================================
