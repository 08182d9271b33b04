--------------------------- MODULE MemoryMonitor ---------------------------
(***************************************************************************)
(* MemoryMonitor: the figures of /proc/meminfo.  The file may lack lines   *)
(* (older kernels have no MemAvailable, a container may hide the rest) and *)
(* its figures may contradict each other.  Percentages are rounded down.   *)
(***************************************************************************)
EXTENDS Integers

CONSTANTS
    MaxKib, \* bound: a figure of the file
    KibMod  \* 2^w for the w bits of a figure

ASSUME MemoryAssumption == MaxKib \in Nat /\ KibMod \in Nat /\ MaxKib < KibMod

VARIABLE memory \* metrics_

MemoryFields == {"total", "available", "swap_total", "swap_free"}

MemoryInit == memory = [total |-> 0, available |-> 0, swap_total |-> 0, swap_free |-> 0,
                        ram_used_percent |-> 0, swap_used_percent |-> 0]

Minus(m, n) == (m - n) % KibMod

\* Mutant: available is not capped.
CappedNever(m, n) == m

Capped(m, n) == IF m > n THEN n ELSE m

\* data: what was parsed, a line that is missing leaving a zero.  Without a
\* total the sample fails and the figures stay; so they do without the file.
MemorySampled(data) ==
    LET available == Capped(data.available, data.total)
        swap_free == IF data.swap_total > 0 THEN Capped(data.swap_free, data.swap_total) ELSE data.swap_free
    IN  /\ data.total # 0
        /\ memory' = [total |-> data.total, available |-> available,
                      swap_total |-> data.swap_total, swap_free |-> swap_free,
                      ram_used_percent  |-> (100 * Minus(data.total, available)) \div data.total,
                      swap_used_percent |->
                        IF data.swap_total = 0 THEN 0
                        ELSE (100 * Minus(data.swap_total, swap_free)) \div data.swap_total]

MemoryNext == \E data \in [MemoryFields -> 0..MaxKib] : MemorySampled(data)

MemorySpec == MemoryInit /\ [][MemoryNext]_memory

get_used_ram_kib == IF memory.total > memory.available THEN memory.total - memory.available ELSE 0
get_used_swap_kib == IF memory.swap_total > memory.swap_free THEN memory.swap_total - memory.swap_free ELSE 0

----------------------------------------------------------------------------
\* The percentages sample computes from what it parsed and the amounts the
\* header computes from what sample left say the same, and no share is above
\* 100, whatever the file says.
MemoryFiguresAgree ==
    /\ memory.total > 0 => memory.ram_used_percent = (100 * get_used_ram_kib) \div memory.total
    /\ memory.swap_total > 0 => memory.swap_used_percent = (100 * get_used_swap_kib) \div memory.swap_total
    /\ memory.ram_used_percent \in 0..100 /\ memory.swap_used_percent \in 0..100
=============================================================================
