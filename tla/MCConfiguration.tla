--------------------------- MODULE MCConfiguration ---------------------------
EXTENDS Configuration

CONSTANTS i1, i2

(* Two that can be used; one with a wrong bootstrap; one of no known sort. *)
MCEndpoint ==
    { [protocol |-> "TCP", binding |-> "valid", bootstrap |-> "valid"],
      [protocol |-> "LoRa", binding |-> "valid", bootstrap |-> "none"],
      [protocol |-> "TCP", binding |-> "valid", bootstrap |-> "invalid"],
      [protocol |-> "other", binding |-> "valid", bootstrap |-> "none"] }

===============================================================================
