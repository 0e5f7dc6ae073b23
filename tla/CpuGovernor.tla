---------------------------- MODULE CpuGovernor ----------------------------
(***************************************************************************)
(* The CPU frequency governor handler of the power module                  *)
(* (src/system/power/cpu_handler.go).  Each CPU has a sysfs                *)
(* scaling_governor file that accepts the governors its cpufreq policy     *)
(* supports.  CpuHandlers.SetGovernor writes a governor to every CPU in    *)
(* turn and stops at the first failing write; tryWriteGovernor probes      *)
(* cpu0 with every governor of the kernel's list, one write at a time, and *)
(* writes the governor it read first back at the end.  One call runs at a  *)
(* time; the daemon is not restarted between two writes.                  *)
(***************************************************************************)
EXTENDS Naturals, Sequences, SequencesExt, FiniteSets

CONSTANTS
    Cpus,           \* 1..n, in the order of ioutil.ReadDir; cpu0 is 1
    Accepts,        \* Accepts[c]: governors the kernel takes for CPU c
    Available       \* Available[c]: contents of scaling_available_governors

\* _scalingAvailableGovernors and _scalingBalanceAvailableGovernors
ScalingAvailableGovernors ==
    <<"performance", "powersave", "userspace", "ondemand", "conservative",
      "schedutil">>
ScalingBalanceAvailableGovernors ==
    <<"ondemand", "conservative", "schedutil", "performance">>
Governors == ToSet(ScalingAvailableGovernors)

NCpus == Cardinality(Cpus)
Cpu0 == 1

ASSUME /\ Cpus = 1..NCpus /\ NCpus >= 1
       /\ Accepts \in [Cpus -> SUBSET Governors]
       /\ \A c \in Cpus : Available[c] \subseteq Accepts[c]

VARIABLES
    gov,        \* contents of each CPU's scaling_governor file
    boost,      \* contents of /sys/devices/system/cpu/cpufreq/boost
    support,    \* _supportGovernors
    op,         \* the running call: "idle", SetGovernor or tryWriteGovernor
    expected    \* the governor every CPU should have, or None

vars == <<gov, boost, support, op, expected>>

None == "none"
Idle == [pc |-> "idle", target |-> None, i |-> 1, old |-> None, lines |-> {}]

-----------------------------------------------------------------------------
(***************************************************************************)
(* Pure parts of the handler.                                              *)
(***************************************************************************)

\* CpuHandlers.GetGovernor: cpu0's governor if every CPU has the same one.
GetGovernor(g) ==
    IF \A c \in Cpus : g[c] = g[Cpu0]
    THEN [ok |-> TRUE, governor |-> g[Cpu0]]
    ELSE [ok |-> FALSE, governor |-> ""]

\* CpuHandlers.getAvailableGovernors: the file of cpu0, an error when a
\* later CPU's file differs.
GetAvailableGovernors ==
    IF \A c \in Cpus : Available[c] = Available[Cpu0]
    THEN [ok |-> TRUE, lines |-> Available[Cpu0]]
    ELSE [ok |-> FALSE, lines |-> {}]

\* Faulty variant: the fallback loop without its break keeps the last
\* supported balance governor instead of the first.
TrySetBalanceCpuGovernorNoBreak(sup, balance) ==
    IF balance = "" THEN [ok |-> TRUE, governor |-> ""]
    ELSE IF balance \notin ToSet(ScalingBalanceAvailableGovernors)
    THEN [ok |-> FALSE, governor |-> ""]
    ELSE IF balance \in sup THEN [ok |-> TRUE, governor |-> balance]
    ELSE LET k == SelectLastInSeq(ScalingBalanceAvailableGovernors,
                                  LAMBDA g : g \in sup)
         IN  [ok |-> TRUE,
              governor |-> IF k = 0 THEN balance
                           ELSE ScalingBalanceAvailableGovernors[k]]

\* trySetBalanceCpuGovernor: the dconfig balance governor, replaced by the
\* first supported one in product priority order when it is unsupported.
TrySetBalanceCpuGovernor(sup, balance) ==
    IF balance = "" THEN [ok |-> TRUE, governor |-> ""]
    ELSE IF balance \notin ToSet(ScalingBalanceAvailableGovernors)
    THEN [ok |-> FALSE, governor |-> ""]
    ELSE IF balance \in sup THEN [ok |-> TRUE, governor |-> balance]
    ELSE LET k == SelectInSeq(ScalingBalanceAvailableGovernors,
                              LAMBDA g : g \in sup)
         IN  [ok |-> TRUE,
              governor |-> IF k = 0 THEN balance
                           ELSE ScalingBalanceAvailableGovernors[k]]

-----------------------------------------------------------------------------
TypeOK ==
    /\ gov \in [Cpus -> Governors]
    /\ boost \in {"0", "1"}
    /\ support \in SUBSET Governors
    /\ op.pc \in {"idle", "set", "probe"}
    /\ op.i \in 1..(IF op.pc = "set" THEN NCpus + 1
                    ELSE Len(ScalingAvailableGovernors) + 1)
    /\ op.lines \in SUBSET Governors
    /\ expected \in Governors \cup {None}

\* The kernel starts every policy on the same default governor.
Init ==
    /\ \E g \in Governors :
          /\ \A c \in Cpus : g \in Accepts[c]
          /\ gov = [c \in Cpus |-> g]
          /\ expected = g
    /\ boost \in {"0", "1"}
    /\ support = {}
    /\ op = Idle

-----------------------------------------------------------------------------
(***************************************************************************)
(* CpuHandlers.SetGovernor: one action per loop iteration.                 *)
(***************************************************************************)
StartSetGovernor(g) ==
    /\ op.pc = "idle"
    /\ op' = [Idle EXCEPT !.pc = "set", !.target = g]
    /\ UNCHANGED <<gov, boost, support, expected>>

\* Faulty variant: the loop runs one index past the last CPU.
SetGovernorStepPastEnd ==
    /\ op.pc = "set"
    /\ op.i <= NCpus + 1
    /\ IF op.i \notin Cpus \/ op.target \in Accepts[op.i]
       THEN /\ gov' = [gov EXCEPT ![op.i] = op.target]
            /\ op' = [op EXCEPT !.i = @ + 1]
            /\ UNCHANGED expected
       ELSE /\ op' = Idle
            /\ expected' = None
            /\ UNCHANGED gov
    /\ UNCHANGED <<boost, support>>

\* CpuHandler.SetGovernor on the next CPU; a failed write ends the loop
\* with the CPUs before it already switched.
SetGovernorStep ==
    /\ op.pc = "set"
    /\ op.i <= NCpus
    /\ IF op.target \in Accepts[op.i]
       THEN /\ gov' = [gov EXCEPT ![op.i] = op.target]
            /\ op' = [op EXCEPT !.i = @ + 1]
            /\ UNCHANGED expected
       ELSE /\ op' = Idle
            /\ expected' = None
            /\ UNCHANGED gov
    /\ UNCHANGED <<boost, support>>

SetGovernorDone ==
    /\ op.pc = "set"
    /\ op.i = NCpus + 1
    /\ op' = Idle
    /\ expected' = op.target
    /\ UNCHANGED <<gov, boost, support>>

-----------------------------------------------------------------------------
(***************************************************************************)
(* The probe: getAvailableGovernors, then tryWriteGovernor on cpu0, whose  *)
(* result becomes _supportGovernors.                                       *)
(***************************************************************************)
StartProbe ==
    /\ op.pc = "idle"
    /\ GetAvailableGovernors.ok
    /\ op' = [Idle EXCEPT !.pc = "probe", !.old = gov[Cpu0],
                          !.lines = GetAvailableGovernors.lines]
    /\ UNCHANGED <<gov, boost, support, expected>>

\* tryWriteGovernor's early returns: getCpuGovernorPath finds no
\* scaling_governor file for cpu0 (nil), or reading the old governor
\* fails (lines as given); nothing is written.
ProbeEarlyReturn(noPath) ==
    /\ op.pc = "idle"
    /\ GetAvailableGovernors.ok
    /\ support' = IF noPath THEN {} ELSE GetAvailableGovernors.lines
    /\ UNCHANGED <<gov, boost, op, expected>>

\* Faulty variant: the loop stops one short of the last governor.
ProbeStepSkippingLast ==
    /\ op.pc = "probe"
    /\ op.i <= Len(ScalingAvailableGovernors)
    /\ LET value == ScalingAvailableGovernors[op.i]
       IN  IF value \notin op.lines /\ op.i < Len(ScalingAvailableGovernors)
                                    /\ value \in Accepts[Cpu0]
           THEN /\ gov' = [gov EXCEPT ![Cpu0] = value]
                /\ op' = [op EXCEPT !.i = @ + 1, !.lines = @ \cup {value}]
           ELSE /\ op' = [op EXCEPT !.i = @ + 1]
                /\ UNCHANGED gov
    /\ UNCHANGED <<boost, support, expected>>

\* One iteration of the loop over _scalingAvailableGovernors: a governor
\* not in lines is written to cpu0 and kept when the write succeeds.
ProbeStep ==
    /\ op.pc = "probe"
    /\ op.i <= Len(ScalingAvailableGovernors)
    /\ LET value == ScalingAvailableGovernors[op.i]
       IN  IF value \notin op.lines /\ value \in Accepts[Cpu0]
           THEN /\ gov' = [gov EXCEPT ![Cpu0] = value]
                /\ op' = [op EXCEPT !.i = @ + 1, !.lines = @ \cup {value}]
           ELSE /\ op' = [op EXCEPT !.i = @ + 1]
                /\ UNCHANGED gov
    /\ UNCHANGED <<boost, support, expected>>

\* Faulty variant: the result is stored but the old governor is not
\* written back.
ProbeRestoreMissing ==
    /\ op.pc = "probe"
    /\ op.i = Len(ScalingAvailableGovernors) + 1
    /\ support' = op.lines
    /\ op' = Idle
    /\ UNCHANGED <<gov, boost, expected>>

\* The old governor is written back and the caller stores the result with
\* setSupportGovernors.  sysfs rejects a write to scaling_governor only
\* for a governor the policy does not accept; the old one was read from
\* that file, so the write-back succeeds.
ProbeRestore ==
    /\ op.pc = "probe"
    /\ op.i = Len(ScalingAvailableGovernors) + 1
    /\ gov' = [gov EXCEPT ![Cpu0] = op.old]
    /\ support' = op.lines
    /\ op' = Idle
    /\ UNCHANGED <<boost, expected>>

-----------------------------------------------------------------------------
\* CpuHandlers.SetBoostEnabled
SetBoostEnabled(enabled) ==
    /\ boost' = IF enabled THEN "1" ELSE "0"
    /\ UNCHANGED <<gov, support, op, expected>>

Next ==
    \/ \E g \in Governors : StartSetGovernor(g)
    \/ SetGovernorStep
    \/ SetGovernorDone
    \/ StartProbe
    \/ \E b \in BOOLEAN : ProbeEarlyReturn(b)
    \/ ProbeStep
    \/ ProbeRestore
    \/ \E b \in BOOLEAN : SetBoostEnabled(b)

Spec == Init /\ [][Next]_vars

-----------------------------------------------------------------------------
(* Properties.                                                             *)

\* Between calls, every CPU runs the governor of the last SetGovernor that
\* succeeded: a failed SetGovernor is the only way the CPUs may disagree,
\* and tryWriteGovernor's test writes to cpu0 are always undone.
IdleGovernorsAgree ==
    (op.pc = "idle" /\ expected # None) =>
        /\ \A c \in Cpus : gov[c] = expected
        /\ GetGovernor(gov) = [ok |-> TRUE, governor |-> expected]

\* After a probe, _supportGovernors holds exactly the available governors
\* and every other governor of the kernel's list that cpu0 accepts, or,
\* when tryWriteGovernor could not read cpu0's governor, the available ones
\* alone: never a governor cpu0 rejects, never part of the probe.
ProbeFindsAccepted ==
    support # {} =>
        support \in {Available[Cpu0],
                     Available[Cpu0] \cup (Governors \cap Accepts[Cpu0])}

\* trySetBalanceCpuGovernor picks, for an unsupported balance governor, the
\* first supported one in the order ondemand > conservative > schedutil >
\* performance, and keeps it when none is supported.
BalancePickIsFirstSupported ==
    \A b \in ToSet(ScalingBalanceAvailableGovernors) :
        LET r == TrySetBalanceCpuGovernor(support, b)
            better(g) == \E k \in 1..Len(ScalingBalanceAvailableGovernors) :
                            /\ ScalingBalanceAvailableGovernors[k] = g
                            /\ \A j \in 1..(k - 1) :
                                 ScalingBalanceAvailableGovernors[j] \notin support
        IN  /\ r.ok
            /\ b \in support => r.governor = b
            /\ b \notin support =>
                 IF support \cap ToSet(ScalingBalanceAvailableGovernors) = {}
                 THEN r.governor = b
                 ELSE r.governor \in support /\ better(r.governor)
=============================================================================
