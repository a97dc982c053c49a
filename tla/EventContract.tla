--------------------------- MODULE EventContract ---------------------------
(***************************************************************************)
(* ut_event_contract_registry_t: an immutable table that says for an event *)
(* id which payload sizes an event may have. The assumption is what        *)
(* ut_event_contract_registry_init() checked before the registry is used.  *)
(***************************************************************************)
EXTENDS Naturals, Sequences

CONSTANTS
  Contracts,    \* the table: event_id, payload_min_size, payload_max_size
                \* and ownership
  RefSize       \* sizeof(ut_event_buffer_ref_t)

(* That the id is not UT_EVENT_ID_ANY is left to the module's user.        *)
contract_is_valid(c) ==
  /\ c.ownership \in {"NONE", "BORROWED", "BUFFER_REF"}
  /\ c.payload_min_size <= c.payload_max_size
  /\ c.ownership = "NONE" => c.payload_max_size = 0
  /\ c.ownership = "BUFFER_REF" =>
       c.payload_min_size = RefSize /\ c.payload_max_size = RefSize

RegistryInit ==
  /\ Contracts # << >>
  /\ \A i \in DOMAIN Contracts :
       /\ contract_is_valid(Contracts[i])
       /\ \A j \in DOMAIN Contracts :
            i # j => Contracts[i].event_id # Contracts[j].event_id

ASSUME RegistryAssumption == RegistryInit

(* ut_event_contract_validate(), find included. An event has an id, and a  *)
(* payload that is NULL or not, of some size.                              *)
Conforms(e) ==
  /\ e.payload <=> e.payload_size # 0
  /\ \E i \in DOMAIN Contracts :
       /\ Contracts[i].event_id = e.id
       /\ e.payload_size \in Contracts[i].payload_min_size .. Contracts[i].payload_max_size
=============================================================================
