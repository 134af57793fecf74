------------------------------- MODULE Memory ------------------------------
(***************************************************************************)
(* The memory monitor (memory.rs): from the memory that is in use and a    *)
(* limit it tells the indexes whether they may allocate.  Its state is     *)
(* refreshed by a timer; the limit is only computed at the start and when  *)
(* it changes in the configuration.                                        *)
(***************************************************************************)
EXTENDS Naturals

CONSTANTS
    Available,          \* the memory of the machine or of the cgroup
    BufferRatio,        \* one part in so many is kept free, MEMORY_SAFETY_BUFFER_RATIO
    BUFFER_MIN,         \* and at least this much, MEMORY_SAFETY_BUFFER_MIN
    Limits,             \* limits the configuration may set; NoLimit for none
    MaxUsed, MaxMemoryChanges   \* bounds

VARIABLES
    used,               \* the memory in use
    limitConfig,        \* the limit in the configuration that was published
    ownConfig,          \* the limit in the configuration of the monitor
    memoryLimit,
    allocate,           \* "can" or "cannot", as the indexes see it
    memoryChanges
memoryVars == <<used, limitConfig, ownConfig, memoryLimit, allocate, memoryChanges>>

NoLimit == MaxUsed + 1000

Larger(x, y) == IF x > y THEN x ELSE y
Smaller(x, y) == IF x < y THEN x ELSE y

CalculateMemoryLimit(available, c) ==
    LET buffer == Larger(available \div BufferRatio, BUFFER_MIN)
        system == IF buffer > available THEN 0 ELSE available - buffer
    IN  IF c = NoLimit THEN system ELSE Smaller(c, system)

CanAllocate == IF used < memoryLimit THEN "can" ELSE "cannot"

\* Bug: a limit that is raised is not taken over.
MemoryConfigChangedLower ==
    /\ ownConfig # limitConfig
    /\ ownConfig' = limitConfig
    /\ memoryLimit' = Smaller(memoryLimit, CalculateMemoryLimit(Available, limitConfig))
    /\ UNCHANGED <<used, limitConfig, allocate, memoryChanges>>

MemoryConfigChanged ==
    /\ ownConfig # limitConfig
    /\ ownConfig' = limitConfig
    /\ memoryLimit' = CalculateMemoryLimit(Available, limitConfig)
    /\ UNCHANGED <<used, limitConfig, allocate, memoryChanges>>

MemoryTick ==
    /\ allocate' = CanAllocate
    /\ UNCHANGED <<used, limitConfig, ownConfig, memoryLimit, memoryChanges>>

\* The indexes allocate only while they may; other memory comes and goes.
UsedChanges(n) ==
    /\ memoryChanges < MaxMemoryChanges /\ n # used
    /\ memoryChanges' = memoryChanges + 1
    /\ used' = n
    /\ UNCHANGED <<limitConfig, ownConfig, memoryLimit, allocate>>

PublishLimit(c) ==
    /\ memoryChanges < MaxMemoryChanges /\ c # limitConfig
    /\ memoryChanges' = memoryChanges + 1
    /\ limitConfig' = c
    /\ UNCHANGED <<used, ownConfig, memoryLimit, allocate>>

-----------------------------------------------------------------------------
MemoryInit ==
    /\ used \in 0..MaxUsed /\ limitConfig \in Limits \cup {NoLimit}
    /\ ownConfig = limitConfig
    /\ memoryLimit = CalculateMemoryLimit(Available, limitConfig)
    /\ allocate = CanAllocate
    /\ memoryChanges = 0

MemoryNext ==
    \/ MemoryConfigChanged \/ MemoryTick
    \/ \E n \in 0..MaxUsed : UsedChanges(n)
    \/ \E c \in Limits \cup {NoLimit} : PublishLimit(c)

MemoryFairness == WF_memoryVars(MemoryConfigChanged) /\ WF_memoryVars(MemoryTick)

-----------------------------------------------------------------------------
(* Properties                                                               *)

(* The indexes come to know whether the memory in use is below the limit of *)
(* the configuration, also when both change at the same time.               *)
AllocateFollows ==
    <>[](allocate = "can" <=> used < CalculateMemoryLimit(Available, limitConfig))
=============================================================================
