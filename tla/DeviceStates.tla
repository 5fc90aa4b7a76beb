---------------------------- MODULE DeviceStates ----------------------------
(***************************************************************************)
(* The valves and compressors of internal/network as far as their states   *)
(* go.  Module Topology has where they are.                                *)
(***************************************************************************)
CONSTANTS
  Valves,
  Compressors

ASSUME KindsDisjoint == Valves \cap Compressors = {}

VARIABLE
  devices      \* devices[d]: the state of d; "none" before the first upsert

-----------------------------------------------------------------------------
ValveState == {"open", "closed", "throttling", "fault"}
CompressorState == {"running", "stopped", "maintenance", "faulted"}
DeviceState == ValveState \cup CompressorState

StatesOf(d) == IF d \in Valves THEN ValveState ELSE CompressorState

DeviceTransitions ==
  [ open        |-> {"closed", "throttling", "fault"},
    closed      |-> {"open", "fault"},
    throttling  |-> {"open", "closed", "fault"},
    fault       |-> {"open", "closed"},
    running     |-> {"stopped", "maintenance", "faulted"},
    stopped     |-> {"running", "maintenance", "faulted"},
    maintenance |-> {"stopped", "faulted"},
    faulted     |-> {"maintenance", "stopped"} ]

(* transition(table, src, dst): the two tables share no state. *)
DeviceMove(src, dst) == src \in DeviceState /\ dst \in DeviceTransitions[src]

DeviceExists(d) == devices[d] # "none"

DeviceInit == devices = [d \in Valves \cup Compressors |-> "none"]

(* PutCompressor, PutValve (of an upsert, in any state) and the Updates.   *)
WriteDevice(d, s) == devices' = [devices EXCEPT ![d] = s]
=============================================================================
