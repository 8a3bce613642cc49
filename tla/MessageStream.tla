----------------------------- MODULE MessageStream -----------------------------
(***************************************************************************)
(* The messages of one TCP session in one direction: they are packed,      *)
(* queued, and written to a stream of blocks that the other side cuts into *)
(* messages again by the size that each of them announces.                 *)
(***************************************************************************)
EXTENDS MessageLayout

CONSTANTS
    Message,        \* what the program sends
    Signature,      \* the signatures that a message may come to have
    Capacity,       \* blocks that the connection holds: a write waits for room
    MaxSent         \* bound: messages sent over the session

ASSUME StreamAssumption ==
    /\ \A signature \in Signature : signature \in Seq(Byte) /\ Len(signature) = SignatureSize
    /\ Capacity \in Nat \ {0}
    /\ MaxSent \in Nat

(* What the program hands to the builders: a destination that is absent or *)
(* an identifier; of a network message only what NetworkBuilder takes; and *)
(* no pack whose size is out of the 32 bits of the header, which every     *)
(* GetPackSize asserts.                                                    *)
ASSUME MessageAssumption ==
    \A m \in Message :
       /\ m \in [ protocol : {Network, Application}, source : Seq(Byte), to : Destinations,
                  destination : Seq(Byte), kind : Commands \cup NetworkTypes, phase : Byte,
                  payload : Seq(Byte), timestamp : Seq(Byte), tracker : {NoTracker} \cup Seq(Byte) ]
       /\ Len(m.destination) \in {0} \cup MinimumLength..MaximumLength
       /\ m.protocol = Network =>
             m = NetworkBuilder(m.source, m.destination, m.kind, m.payload) /\ m.kind \in NetworkTypes
       /\ m.protocol = Application =>
             /\ m.kind \in Commands
             /\ Len(m.timestamp) = 8
             /\ m.tracker # NoTracker => Len(m.tracker) = 5 /\ m.tracker[1] \in Bindings
       /\ GetPackSize(m) \div 256^3 < 256

VARIABLES
    outgoing,   \* m_outgoing of the sender
    written,    \* blocks of its front that are written
    wire,       \* blocks that are written and not yet read
    connected,  \* neither side has closed the connection
    phase,      \* what the Receiver waits for, or why it has ended
    buffer,     \* the blocks it has read of the current message
    message,    \* the bytes it has decoded of it
    sent,       \* history: the messages and their signatures
    received    \* history: the messages that were unpacked

vars == <<outgoing, written, wire, connected, phase, buffer, message, sent, received>>

Init ==
    /\ outgoing = <<>>
    /\ written = 0
    /\ wire = <<>>
    /\ connected = TRUE
    /\ phase = "header"
    /\ buffer = <<>>
    /\ message = <<>>
    /\ sent = <<>>
    /\ received = <<>>

ScheduleSend(m, signature) ==
    /\ connected
    /\ Len(sent) < MaxSent
    /\ Valid(m)
    /\ outgoing' = Append(outgoing, GetPack(m, signature))
    /\ sent' = Append(sent, [message |-> m, signature |-> signature])
    /\ UNCHANGED <<written, wire, connected, phase, buffer, message, received>>

(* A message stays at the front of the queue until all of it is written.   *)
Dispatch ==
    /\ connected
    /\ outgoing # <<>>
    /\ Len(wire) < Capacity
    /\ wire' = Append(wire, Head(outgoing)[written + 1])
    /\ IF written + 1 = Len(Head(outgoing))
       THEN outgoing' = Tail(outgoing) /\ written' = 0
       ELSE outgoing' = outgoing /\ written' = written + 1
    /\ UNCHANGED <<connected, phase, buffer, message, sent, received>>

(* The connection breaks, and some of what was written never arrives.      *)
Disconnect ==
    /\ connected
    /\ connected' = FALSE
    /\ \E n \in 0..Len(wire) : wire' = SubSeq(wire, 1, n)
    /\ UNCHANGED <<outgoing, written, phase, buffer, message, sent, received>>

-------------------------------------------------------------------------------
(***************************************************************************)
(* The Receiver reads as many blocks as it expects, and then goes on.      *)
(***************************************************************************)
HeaderBlocks == EncodedSize(8) \div EncodedBlockSize        \* MessageHeader::PeekableEncodedSize

Filled ==
    IF phase = "header" THEN Len(buffer) = HeaderBlocks
    ELSE EncodedBlockSize * Len(buffer) >= PeekSize(message)

Read ==
    /\ phase \in {"header", "message"}
    /\ ~Filled
    /\ wire # <<>>
    /\ buffer' = Append(buffer, Head(wire))
    /\ wire' = Tail(wire)
    /\ UNCHANGED <<outgoing, written, connected, phase, message, sent, received>>

ReceiveFixedHeaderData ==
    /\ phase = "header"
    /\ Filled
    /\ CanDecode(buffer)
    /\ message' = Decode(buffer)
    /\ phase' = "message"
    /\ UNCHANGED <<outgoing, written, wire, connected, buffer, sent, received>>

Rest == SubSeq(buffer, HeaderBlocks + 1, Len(buffer))

ReceiveMessage ==
    /\ phase = "message"
    /\ Filled
    /\ CanDecode(Rest)
    /\ message' = message \o Decode(Rest)
    /\ buffer' = <<>>
    /\ phase' = "decoded"
    /\ UNCHANGED <<outgoing, written, wire, connected, sent, received>>

(* Both sides have the same keys here.                                     *)
Verify ==
    message[1] = Application =>
        \E k \in DOMAIN sent : message = PackedBytes(sent[k].message, sent[k].signature)

(* What FromDecodedPack and ValidatedBuild make of it: one message or none.*)
ValidatedBuild ==
    IF /\ PeekSource(message)
       /\ Verify
       /\ ParseBuffer(message).parsed
       /\ ParseBuffer(message).next <= Len(message)
    THEN {m \in {Unpack(message)} : Valid(m)} ELSE {}

OnMessageReceived ==
    /\ phase = "decoded"
    /\ \E m \in ValidatedBuild : received' = Append(received, m)
    /\ message' = <<>>
    /\ phase' = "header"
    /\ UNCHANGED <<outgoing, written, wire, connected, buffer, sent>>

(* A block does not decode, or the message is too short or not acceptable. *)
Receivable ==
    CASE phase = "header" -> CanDecode(buffer)
      [] phase = "message" -> /\ PeekSize(message) >= EncodedBlockSize * HeaderBlocks
                              /\ CanDecode(Rest)
      [] phase = "decoded" -> ValidatedBuild # {}

OnSessionError ==
    /\ phase \in {"header", "message", "decoded"}
    /\ Filled \/ phase = "decoded"
    /\ ~Receivable
    /\ phase' = "failed"
    /\ connected' = FALSE
    /\ UNCHANGED <<outgoing, written, wire, buffer, message, sent, received>>

EndOfStream ==
    /\ phase \in {"header", "message"}
    /\ ~Filled
    /\ wire = <<>>
    /\ ~connected
    /\ phase' = "ended"
    /\ UNCHANGED <<outgoing, written, wire, connected, buffer, message, sent, received>>

Receiver ==
    \/ Read
    \/ ReceiveFixedHeaderData
    \/ ReceiveMessage
    \/ OnMessageReceived
    \/ OnSessionError
    \/ EndOfStream

Next ==
    \/ \E m \in Message :
          \E signature \in IF m.protocol = Application THEN Signature ELSE {<<>>} :
             ScheduleSend(m, signature)
    \/ Dispatch
    \/ Disconnect
    \/ Receiver

Spec == Init /\ [][Next]_vars

(* Both coroutines are resumed whenever the socket is ready.               *)
FairSpec == Spec /\ WF_vars(Dispatch) /\ WF_vars(Receiver)

-------------------------------------------------------------------------------
Block == [1..EncodedBlockSize -> Digit]

TypeOK ==
    /\ \A k \in DOMAIN outgoing : outgoing[k] \in Seq(Block) /\ outgoing[k] # <<>>
    /\ written \in Nat
    /\ written > 0 => outgoing # <<>> /\ written < Len(Head(outgoing))
    /\ wire \in Seq(Block)
    /\ connected \in BOOLEAN
    /\ phase \in {"header", "message", "decoded", "failed", "ended"}
    /\ buffer \in Seq(Block)
    /\ message \in Seq(Byte)
    /\ \A k \in DOMAIN sent : sent[k].message \in Message
    /\ phase = "failed" => ~connected

(***************************************************************************)
(* What the session promises.                                              *)
(***************************************************************************)

(* Extensions are read past their count into the signature, if no padding  *)
(* is between.                                                             *)
Overrun(s) ==
    /\ s.message.protocol = Application
    /\ s.message.tracker # NoTracker
    /\ PaddingBytes(Len(PackFields(s.message))) = 0
    /\ s.signature[1] = AwaitTracker

(* Messages arrive in the order they were sent, each once and unchanged:   *)
(* but for the tracker of one whose signature is taken for an extension.   *)
ReceivedInOrder ==
    /\ Len(received) <= Len(sent)
    /\ \A k \in DOMAIN received :
          \/ received[k] = sent[k].message
          \/ /\ Overrun(sent[k])
             /\ [received[k] EXCEPT !.tracker = sent[k].message.tracker] = sent[k].message

Ones == [k \in 1..DecodedBlockSize |-> 255]

(* A session fails only at a message of which a block has all its bits     *)
(* set: the decoder's bound excludes the largest number.                   *)
FailsOnlyAtOnes ==
    phase = "failed" =>
        LET s == sent[Len(received) + 1]
            bytes == PackedBytes(s.message, s.signature)
        IN \E n \in 1..Len(bytes) \div DecodedBlockSize : SubSeq(bytes, 4 * n - 3, 4 * n) = Ones

(* What is sent is received, unless the connection is lost.                *)
SentIsReceived ==
    \A k \in 1..MaxSent : Len(sent) >= k ~> Len(received) >= k \/ ~connected

(* The tests expect of a message that was packed and unpacked the tracker  *)
(* that was bound to it.                                                   *)
TrackerSurvives ==
    \A k \in DOMAIN received : received[k].tracker = sent[k].message.tracker

===============================================================================
