------------------------- MODULE TemperatureMonitor -------------------------
(***************************************************************************)
(* TemperatureMonitor: the sensors found under /sys/class/hwmon, by path,  *)
(* with what the name and the label beside each said then, while drivers   *)
(* come and go and hand the same paths to other devices.                   *)
(***************************************************************************)
EXTENDS Integers, FiniteSets, FiniteSetsExt

CONSTANTS
    TempPaths, \* temp*_input paths, numbered in the order of the directory
    Drivers,   \* what "name" may say
    Labels,    \* the word of "temp*_label" that classify knows, or ""
    Readings   \* what a path may hold, in degrees

ASSUME TemperatureAssumption ==
    TempPaths \subseteq Nat /\ IsFiniteSet(TempPaths) /\ Readings \subseteq Nat

NoReading == -1

\* A device: nothing but the temperature ever changes.  A file that is there
\* may be unreadable (EIO, EAGAIN of a sleeping device).
Devices == [driver : Drivers, label : Labels, temp : Readings \cup {NoReading}]

VARIABLES
    hwmon,   \* the device behind each path that there is
    sensors, \* sensors_: type and temp_celsius by path
    sampled, \* history: has sample run since the sensors were discovered?
    read     \* history: what it read of each path

tempVars == <<hwmon, sensors, sampled, read>>

NoPaths == [p \in {} |-> NoReading]

classify(driver, label) ==
    CASE driver \in {"coretemp", "k10temp", "k8temp"} ->
            IF label = "Core" THEN "CpuCore" ELSE "CpuPackage"
      [] driver \in {"i915", "xe"} -> "Gpu"
      [] OTHER -> "Ambient"

discover_sensors ==
    [p \in DOMAIN hwmon |-> [type |-> classify(hwmon[p].driver, hwmon[p].label), temp |-> 0]]

TempInit ==
    /\ hwmon = NoPaths /\ sensors = NoPaths \* the constructor discovers what there is
    /\ sampled = FALSE /\ read = NoPaths

----------------------------------------------------------------------------
(* The kernel *)

DriverComes(p, device) ==
    /\ p \notin DOMAIN hwmon
    /\ hwmon' = [q \in DOMAIN hwmon \cup {p} |-> IF q = p THEN device ELSE hwmon[q]]
    /\ UNCHANGED <<sensors, sampled, read>>

DriverGoes(p) ==
    /\ p \in DOMAIN hwmon
    /\ hwmon' = [q \in DOMAIN hwmon \ {p} |-> hwmon[q]]
    /\ UNCHANGED <<sensors, sampled, read>>

Warms(p, temp) ==
    /\ p \in DOMAIN hwmon /\ temp # hwmon[p].temp
    /\ hwmon' = [hwmon EXCEPT ![p].temp = temp]
    /\ UNCHANGED <<sensors, sampled, read>>

----------------------------------------------------------------------------
(* The monitor *)

TempDiscovered ==
    /\ sensors' = discover_sensors
    /\ sampled' = FALSE /\ read' = NoPaths
    /\ UNCHANGED hwmon

\* read_millideg_celsius through a path found earlier.
Reading(p) == IF p \in DOMAIN hwmon THEN hwmon[p].temp ELSE NoReading

\* Mutant: a failed read leaves temp_celsius as it was.
RefreshedOrKept(p, s) == [s EXCEPT !.temp = IF Reading(p) = NoReading THEN s.temp ELSE Reading(p)]

Refreshed(p, s) == [s EXCEPT !.temp = Reading(p)]

\* Only a monitor that has no sensors looks for them again.
TempSampled ==
    LET found == IF sensors = NoPaths THEN discover_sensors ELSE sensors
    IN  /\ sensors' = [p \in DOMAIN found |-> Refreshed(p, found[p])]
        /\ read' = [p \in DOMAIN found |-> Reading(p)]
        /\ sampled' = TRUE
        /\ UNCHANGED hwmon

TempNext ==
    \/ \E p \in TempPaths :
          DriverGoes(p) \/ (\E device \in Devices : DriverComes(p, device))
            \/ \E temp \in Readings \cup {NoReading} : Warms(p, temp)
    \/ TempDiscovered \/ TempSampled

TempSpec == TempInit /\ [][TempNext]_tempVars

\* The sensors of a type, and the first of those that are above zero.
OfType(type) == {p \in DOMAIN sensors : sensors[p].type = type}
Above0(type) == {p \in OfType(type) : sensors[p].temp > 0}
First(paths) == sensors[Min(paths)].temp

get_cpu_package_temp ==
    IF Above0("CpuPackage") # {} THEN First(Above0("CpuPackage"))
    ELSE Max({NoReading} \cup {sensors[p].temp : p \in OfType("CpuCore")})

get_gpu_temp == IF Above0("Gpu") # {} THEN First(Above0("Gpu")) ELSE NoReading

----------------------------------------------------------------------------
\* What is given out as a temperature is what the last sample read of a sensor
\* of that type: a sensor that can no longer be read falls silent, however
\* drivers went and came back on its path.
NoStaleReading == sampled =>
    /\ get_cpu_package_temp \in {NoReading} \cup {read[p] : p \in OfType("CpuPackage") \cup OfType("CpuCore")}
    /\ get_gpu_temp \in {NoReading} \cup {read[p] : p \in OfType("Gpu")}

\* Before the first sample there is no temperature to give out.
SilentUntilSampled == ~sampled => get_cpu_package_temp = NoReading

\* "Returns -1.0 if no CPU package sensor was found" (temperature.hpp).
OnlyPackages == OfType("CpuPackage") = {} => get_cpu_package_temp = NoReading

\* The type of a sensor is that of the device behind its path.
TypesHold == \A p \in DOMAIN sensors \cap DOMAIN hwmon :
    sensors[p].type = classify(hwmon[p].driver, hwmon[p].label)
=============================================================================
