--------------------------- MODULE MCPeerPersistor ---------------------------
EXTENDS PeerPersistor, TLC

CONSTANTS tcp, lora, first, second, third, radio

MCProtocol == {tcp, lora}
MCAddress == {first, second, third, radio}
MCProtocolOf == (radio :> lora) @@ [a \in {first, second, third} |-> tcp]

(* One protocol with a configured bootstrap.                               *)
MCDefault == tcp :> {first}

===============================================================================
