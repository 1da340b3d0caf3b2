------------------------------ MODULE MCMachine ------------------------------
(***************************************************************************)
(* What the processes of a machine hand to each other in files and over    *)
(* wires, for TLC: the frames of the doorbell (WsFrames), the wake-ups it  *)
(* ends in (WakeBudgets), who read and closed a letter (LetterMarks), the  *)
(* tenant keys (TenantKeys), and the records of resolved addresses         *)
(* (ResolveCache).  They share no state; a behaviour picks one of them.    *)
(***************************************************************************)
EXTENDS WsFrames, WakeBudgets, LetterMarks, TenantKeys, ResolveCache

VARIABLE part

machineVars == <<framesVars, budgetVars, marksVars, keysVars, cacheVars, part>>

MachineInit ==
  /\ part \in {"frames", "wakes", "marks", "keys", "cache"}
  /\ FramesInit
  /\ BudgetsInit /\ (part # "wakes" => payer = "plugin" /\ session = NoSession)
  /\ MarksInit /\ (part # "marks" => native /\ oldMark = NoMark /\ oldIsNewer)
  /\ KeysInit /\ (part # "keys" => /\ keyFile = [n \in KeyNames |-> Keyless] /\ envKey = Keyless
                                   /\ ~orgBound /\ serverPods = {})
  /\ CacheInit /\ (part # "cache" => exists = {})

MachineNext ==
  \/ part = "frames" /\ FramesNext /\ UNCHANGED <<budgetVars, marksVars, keysVars, cacheVars, part>>
  \/ part = "wakes" /\ BudgetsNext /\ UNCHANGED <<framesVars, marksVars, keysVars, cacheVars, part>>
  \/ part = "marks" /\ MarksNext /\ UNCHANGED <<framesVars, budgetVars, keysVars, cacheVars, part>>
  \/ part = "keys" /\ KeysNext /\ UNCHANGED <<framesVars, budgetVars, marksVars, cacheVars, part>>
  \/ part = "cache" /\ CacheNext /\ UNCHANGED <<framesVars, budgetVars, marksVars, keysVars, part>>
MachineSpec == MachineInit /\ [][MachineNext]_machineVars
=============================================================================
