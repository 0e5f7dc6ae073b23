--------------------------- MODULE MCCpuGovernor ---------------------------
(***************************************************************************)
(* Two CPUs: cpu0's kernel lacks ondemand, cpu1's policy lacks userspace,   *)
(* and both list performance and powersave as available.  The probe then   *)
(* has four governors to try, one of them failing; the balance fallback    *)
(* has to skip ondemand; SetGovernor("userspace") fails on the second CPU  *)
(* and SetGovernor("ondemand") on the first.                               *)
(***************************************************************************)
EXTENDS CpuGovernor

MCCpus == 1..2

MCAccepts ==
    [c \in MCCpus |-> IF c = 1 THEN Governors \ {"ondemand"}
                                ELSE Governors \ {"userspace"}]

MCAvailable == [c \in MCCpus |-> {"performance", "powersave"}]
=============================================================================
