--------------------------- MODULE MCReentrantLock ---------------------------
(***************************************************************************)
(* Two cores, each with a nested interrupt context, and recursion counts   *)
(* up to two, so that the count reaches its limit.                         *)
(***************************************************************************)
EXTENDS ReentrantLock

MCContexts == {"bsp", "bsp_irq", "ap", "ap_irq"}
MCCpuOf == [t \in MCContexts |-> IF t \in {"bsp", "bsp_irq"} THEN 0 ELSE 1]
=============================================================================
