--------------------------- MODULE PluginLifecycle ---------------------------
(***************************************************************************)
(* The life of the plugin inside the AstrBot process: the instance that is *)
(* running, how far its shutdown has got, and the faults met so far.  All  *)
(* other modules of the violation pipeline share this state.               *)
(***************************************************************************)
EXTENDS Naturals, FiniteSets

CONSTANTS
    MaxInstance,   \* bound: plugin instances created without leaving the process
    MaxFaults      \* bound: database errors, restarts and reloads in one behaviour

ASSUME LifecycleAssumption == /\ MaxInstance \in Nat \ {0}
                              /\ MaxFaults \in Nat

VARIABLES
    cur,           \* the plugin instance AstrBot currently holds
    phase,         \* how far that instance's shutdown() has got
    faults,        \* database errors, restarts and reloads so far
    overlap        \* a reload happened while a database thread was still running

lifecycleVars == <<cur, phase, faults, overlap>>

Instance == 1 .. MaxInstance

(* open: accepting; draining: waiting in wait_for(queue.join()); raised: the
   timeout left shutdown() as an exception; stopped: shutdown() returned.   *)
Phase == {"open", "draining", "raised", "stopped"}

(* ViolationJobQueue._closed and ViolationIngressWriter._closed: both are set
   in the same step, before shutdown() awaits anything.                     *)
closed == phase # "open"

(* One more fault of the environment, as long as the bound allows it. *)
Fault == faults < MaxFaults /\ faults' = faults + 1

LifecycleTypeOK == /\ cur \in Instance
                   /\ phase \in Phase
                   /\ faults \in 0 .. MaxFaults
                   /\ overlap \in BOOLEAN

LifecycleInit == /\ cur = 1
                 /\ phase = "open"
                 /\ faults = 0
                 /\ overlap = FALSE
=============================================================================
