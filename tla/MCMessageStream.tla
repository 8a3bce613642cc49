---------------------------- MODULE MCMessageStream ----------------------------
EXTENDS MessageStream

Source == <<98, 114>>
Other == <<114, 121, 48>>
Time == <<0, 0, 1, 2, 3, 4, 5, 6>>
None == <<>>
Bound == <<1, 137, 171, 205, 239>>

NetworkMessage(type, payload) == NetworkBuilder(Source, Other, type, payload)
ApplicationMessage(to, destination, payload, tracker) ==
    ApplicationBuilder(Source, to, destination, 3, 1, payload, Time, tracker)

(* A heartbeat; a handshake with a block of ones; an aligned request, one  *)
(* that is not, and one to the cluster without a tracker.                  *)
MCMessage ==
    { NetworkMessage(2, None),
      NetworkMessage(1, <<7, 255, 255, 255, 255, 255, 255, 255>>),
      ApplicationMessage(ToNode, Other, <<5>>, Bound),
      ApplicationMessage(ToNode, Other, <<5, 5>>, Bound),
      ApplicationMessage(ToCluster, None, <<1, 1, 1>>, NoTracker) }

(* Of any sort; with the number of an extension first, that reads as a     *)
(* tracker and that does not; and with a block of ones.                    *)
MCSignature ==
    { <<9, 0, 8, 1, 7, 7, 7, 7>>,
      <<1, 0, 8, 1, 7, 7, 7, 7>>,
      <<1, 200, 8, 77, 7, 7, 7, 7>>,
      <<255, 255, 255, 255, 0, 0, 0, 0>> }

===============================================================================
