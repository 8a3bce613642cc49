---------------------------- MODULE Synchronization ----------------------------
(***************************************************************************)
(* The synchronization of two PQNISTL3 strategies, message by message: the *)
(* initiator's request, the acceptor's response and the initiator's        *)
(* verification, over a network that loses, repeats, delays and damages    *)
(* them, and with either side starting again at any time.                  *)
(*                                                                         *)
(* Keys are named: an encapsulated secret by its number, and a session key *)
(* by the secret and its cordon, the part of the derived bytes it is cut   *)
(* from.  A signature or an encryption is what it was made of, and with.   *)
(***************************************************************************)
EXTENDS Naturals, Sequences

CONSTANTS
    ContentKeySize, SignatureKeySize,   \* bytes of the two kinds of keys
    MaxRequests,                        \* bound: requests of the initiator
    MaxSecrets,                         \* bound: secrets that are encapsulated
    MaxResets                           \* bound: preparations of the acceptor

ASSUME SizeAssumption == ContentKeySize \in Nat \ {0} /\ SignatureKeySize \in Nat \ {0}
ASSUME BoundAssumption == MaxRequests \in Nat /\ MaxSecrets \in Nat /\ MaxResets \in Nat

Role == {"Initiator", "Acceptor"}
NoSecret == 0
BaseExpansionSeed == 0
Garbled == MaxSecrets + 1               \* what a damaged encapsulation holds
Secret == 1..Garbled
VerificationKeySize == 32
PrincipalKeySize == 2 * ContentKeySize + 2 * SignatureKeySize

VARIABLES
    status,         \* m_status of both strategies
    stage,          \* m_stage
    transaction,    \* m_transaction: the messages it covers
    seed,           \* m_seed: the random data it was expanded with
    secret,         \* the secret that the session keys are derived from
    peerKeyed,      \* the acceptor has the initiator's public key
    network,        \* every message that was sent
    requests, secrets, resets,          \* numbers used so far
    granted         \* history: who has been ready, and with which secret

counts == <<requests, secrets, resets>>
synchronizationVars == <<status, stage, transaction, seed, secret, peerKeyed, network, counts, granted>>

-------------------------------------------------------------------------------
(***************************************************************************)
(* The cordons of the principal key.  Its sectors are fixed: the content   *)
(* keys of initiator and acceptor, then their signature keys.              *)
(***************************************************************************)
Cordon(offset, size) == [first |-> offset, last |-> offset + size - 1]

SetInitiatorKeyCordons ==
    [ content |-> Cordon(0, ContentKeySize),
      peerContent |-> Cordon(ContentKeySize, ContentKeySize),
      signature |-> Cordon(2 * ContentKeySize, SignatureKeySize),
      peerSignature |-> Cordon(2 * ContentKeySize + SignatureKeySize, SignatureKeySize) ]

OverlappingCordons ==                               \* mutant: the offset advances too little
    [ peerContent |-> Cordon(0, ContentKeySize),
      content |-> Cordon(ContentKeySize, ContentKeySize),
      peerSignature |-> Cordon(2 * ContentKeySize, SignatureKeySize),
      signature |-> Cordon(2 * ContentKeySize + SignatureKeySize - 1, SignatureKeySize) ]

SetAcceptorKeyCordons ==
    [ peerContent |-> Cordon(0, ContentKeySize),
      content |-> Cordon(ContentKeySize, ContentKeySize),
      peerSignature |-> Cordon(2 * ContentKeySize, SignatureKeySize),
      signature |-> Cordon(2 * ContentKeySize + SignatureKeySize, SignatureKeySize) ]

Cordons(role) ==
    IF role = "Initiator" THEN SetInitiatorKeyCordons ELSE SetAcceptorKeyCordons

(* Different secrets are derived to different bytes.                       *)
DeriveSecureKey(k) == [secret |-> k]
SessionKey(k, cordon) == [derived |-> DeriveSecureKey(k), cordon |-> cordon]

(* What a strategy that holds a secret encrypts and signs with, and what   *)
(* it decrypts and verifies with.                                          *)
Encrypt(role, k, data) == [data |-> data, key |-> SessionKey(k, Cordons(role).content)]
Decrypts(role, k, message) == message.key = SessionKey(k, Cordons(role).peerContent)
Sign(role, k, data) == [data |-> data, key |-> SessionKey(k, Cordons(role).signature)]
Verify(role, k, data, signature) ==
    signature = [data |-> data, key |-> SessionKey(k, Cordons(role).peerSignature)]

(* The verification data is made of what is derived after the four keys.   *)
VerificationData(k) == SessionKey(k, Cordon(PrincipalKeySize, VerificationKeySize))
GenerateVerificationData(role, k) == Encrypt(role, k, VerificationData(k))
VerifyKeyShare(role, k, message) == Decrypts(role, k, message) /\ message.data = VerificationData(k)

(* A transaction is signed with the message that it goes out with, and     *)
(* verified with the one it came in with.                                  *)
SignTransaction(role, k, t, message) == Sign(role, k, Append(t, message))
VerifyTransaction(role, k, t, message, signature) == Verify(role, k, Append(t, message), signature)

-------------------------------------------------------------------------------
Request(r) == [type |-> "request", seed |-> r]
Answer(s, k) ==
    [type |-> "response", seed |-> s, secret |-> k,
     verification |-> GenerateVerificationData("Acceptor", k)]
Proof(k) == [type |-> "verification", verification |-> GenerateVerificationData("Initiator", k)]

SynchronizationInit ==
    /\ status = [role \in Role |-> "Processing"]
    /\ stage = [role \in Role |-> "Initialization"]
    /\ transaction = [role \in Role |-> <<>>]
    /\ seed = [role \in Role |-> <<BaseExpansionSeed>>]
    /\ secret = [role \in Role |-> NoSecret]
    /\ peerKeyed = FALSE
    /\ network = {}
    /\ requests = 0
    /\ secrets = 0
    /\ resets = 0
    /\ granted = {}

Set(f, role, value) == f' = [f EXCEPT ![role] = value]

(* The store is reset only if it has keys, and then without the base of    *)
(* its seed; the seed of a synchronization that was given up is expanded   *)
(* further.                                                                *)
Prepare(role, kept, message) ==
    /\ Set(status, role, "Processing")
    /\ Set(stage, role, "Initialization")
    /\ Set(transaction, role, message)
    /\ Set(secret, role, NoSecret)
    /\ Set(seed, role, (IF secret[role] = NoSecret THEN seed[role] ELSE <<>>) \o kept)

PrepareInitiator ==
    /\ requests < MaxRequests
    /\ requests' = requests + 1
    /\ Prepare("Initiator", <<requests'>>, <<Request(requests')>>)
    /\ network' = network \cup {Request(requests')}
    /\ UNCHANGED <<peerKeyed, secrets, resets, granted>>

PrepareAcceptor ==
    /\ resets < MaxResets
    /\ resets' = resets + 1
    /\ Prepare("Acceptor", <<>>, <<>>)
    /\ peerKeyed' = (peerKeyed /\ secret["Acceptor"] = NoSecret)
    /\ UNCHANGED <<network, requests, secrets, granted>>

-------------------------------------------------------------------------------
(***************************************************************************)
(* A processor goes on only while its strategy is processing: it is closed *)
(* by an error, and by success.                                            *)
(***************************************************************************)
Receives(role, at) == status[role] = "Processing" /\ stage[role] = at

(* The keys of either end are generated from a secret: the acceptor's from *)
(* a new one, which only the key of the request can open, the initiator's  *)
(* from what it finds in the encapsulation.                                *)
EncapsulateSharedSecret ==
    /\ secrets < MaxSecrets
    /\ secrets' = secrets + 1
    /\ Set(secret, "Acceptor", secrets')

DecapsulateSharedSecret(k) == Set(secret, "Initiator", k)

(* The acceptor generates keys and answers whoever sent the request.       *)
HandleAcceptorInitialization(m) ==
    /\ Receives("Acceptor", "Initialization")
    /\ m.type = "request"
    /\ peerKeyed' = TRUE
    /\ EncapsulateSharedSecret
    /\ LET nonce == MaxRequests + secrets'
           answer == Answer(nonce, secrets')
           covered == Append(transaction["Acceptor"], m)
       IN /\ Set(seed, "Acceptor", seed["Acceptor"] \o <<m.seed, nonce>>)
          /\ Set(transaction, "Acceptor", Append(covered, answer))
          /\ network' = network \cup
                 { [ type |-> "signed", answer |-> answer,
                     signature |-> SignTransaction("Acceptor", secrets', covered, answer) ] }
    /\ Set(stage, "Acceptor", "Verification")
    /\ UNCHANGED <<status, requests, resets, granted>>

(* Random data or a secret may be missing: the request has been taken.     *)
InitializationFails(m) ==
    /\ Receives("Acceptor", "Initialization")
    /\ m.type = "request"
    /\ peerKeyed' = TRUE
    /\ Set(seed, "Acceptor", seed["Acceptor"] \o <<m.seed>>)
    /\ Set(transaction, "Acceptor", transaction["Acceptor"] \o <<m>>)
    /\ Set(status, "Acceptor", "Error")
    /\ UNCHANGED <<stage, secret, network, counts, granted>>

AcceptsUnsigned(m, k) ==                            \* mutant: the transaction is not verified
    VerifyKeyShare("Initiator", k, m.answer.verification)

Accepts(m, k) ==
    /\ VerifyKeyShare("Initiator", k, m.answer.verification)
    /\ VerifyTransaction("Initiator", k, transaction["Initiator"], m.answer, m.signature)

Finalize(role, last, k) ==
    /\ Set(status, role, "Ready")
    /\ Set(stage, role, last)
    /\ Set(transaction, role, <<>>)
    /\ granted' = granted \cup {<<role, k>>}

HandleInitiatorInitialization(m) ==
    /\ Receives("Initiator", "Initialization")
    /\ m.type = "signed"
    /\ DecapsulateSharedSecret(m.answer.secret)
    /\ Set(seed, "Initiator", seed["Initiator"] \o <<m.answer.seed>>)
    /\ LET k == m.answer.secret
       IN /\ Accepts(m, k)
          /\ Finalize("Initiator", "Complete", k)
          /\ network' = network \cup
                            {[type |-> "proof", proof |-> Proof(k), signature |-> Sign("Initiator", k, <<Proof(k)>>)]}
    /\ UNCHANGED <<peerKeyed, counts>>

(* An error may come after the keys were generated: those of a response to *)
(* another request, or of a damaged one.                                   *)
ResponseFails(m) ==
    /\ Receives("Initiator", "Initialization")
    /\ m.type = "signed"
    /\ Set(status, "Initiator", "Error")
    /\ \/ UNCHANGED <<seed, secret>>
       \/ /\ Set(seed, "Initiator", seed["Initiator"] \o <<m.answer.seed>>)
          /\ \E k \in {NoSecret, Garbled, m.answer.secret} :
                /\ k = m.answer.secret => ~Accepts(m, k)
                /\ DecapsulateSharedSecret(k)
    /\ UNCHANGED <<stage, transaction, peerKeyed, network, counts, granted>>

HandleAcceptorVerification(m) ==
    /\ Receives("Acceptor", "Verification")
    /\ m.type = "proof"
    /\ Verify("Acceptor", secret["Acceptor"], <<m.proof>>, m.signature)
    /\ VerifyKeyShare("Acceptor", secret["Acceptor"], m.proof.verification)
    /\ Finalize("Acceptor", "Complete", secret["Acceptor"])
    /\ UNCHANGED <<seed, secret, peerKeyed, network, counts>>

(* A message of another kind, of another session or damaged.               *)
SynchronizationFails(role) ==
    /\ status[role] = "Processing"
    /\ Set(status, role, "Error")
    /\ UNCHANGED <<stage, transaction, seed, secret, peerKeyed, network, counts, granted>>

SynchronizationNext ==
    \/ PrepareInitiator
    \/ PrepareAcceptor
    \/ \E m \in network :
          \/ HandleAcceptorInitialization(m)
          \/ InitializationFails(m)
          \/ HandleInitiatorInitialization(m)
          \/ ResponseFails(m)
          \/ HandleAcceptorVerification(m)
    \/ \E role \in Role : SynchronizationFails(role)

SynchronizationSpec == SynchronizationInit /\ [][SynchronizationNext]_synchronizationVars

-------------------------------------------------------------------------------
(* The state has the types of the members it models.                       *)
SynchronizationTypeOK ==
    /\ status \in [Role -> {"Processing", "Ready", "Error"}]
    /\ stage \in [Role -> {"Initialization", "Verification", "Complete"}]
    /\ stage["Initiator"] # "Verification"
    /\ \A role \in Role : \A i \in DOMAIN transaction[role] :
          transaction[role][i].type \in {"request", "response"}
    /\ seed \in [Role -> Seq(Nat)]
    /\ secret \in [Role -> Secret \cup {NoSecret}]
    /\ peerKeyed \in BOOLEAN
    /\ requests \in 0..MaxRequests
    /\ secrets \in 0..MaxSecrets
    /\ resets \in 0..MaxResets
    /\ granted \subseteq Role \X Secret

(***************************************************************************)
(* What a synchronization promises.                                        *)
(***************************************************************************)
Part(cordon) == cordon.first..cordon.last

(* Two strategies that hold one secret can use it: each decrypts and       *)
(* verifies with the keys that the other encrypts and signs with, and no   *)
(* two of the four keys share a byte, nor one with the verification key.   *)
KeysMirror ==
    LET initiator == Cordons("Initiator")
        acceptor == Cordons("Acceptor")
        keys == <<initiator.content, initiator.peerContent, initiator.signature, initiator.peerSignature>>
    IN secret["Initiator"] # NoSecret /\ secret["Initiator"] = secret["Acceptor"] =>
          /\ initiator.content = acceptor.peerContent /\ initiator.peerContent = acceptor.content
          /\ initiator.signature = acceptor.peerSignature /\ initiator.peerSignature = acceptor.signature
          /\ \A x, y \in 1..4 : x # y => Part(keys[x]) \cap Part(keys[y]) = {}
          /\ \A x \in 1..4 : Part(keys[x]) \subseteq 0..PrincipalKeySize - 1

(* The initiator is ready only with the secret of the answer to its own    *)
(* latest request, the acceptor only with a secret that the initiator was  *)
(* ready with: however messages are repeated and delayed, no two ends are  *)
(* ready with different secrets.  This is AuthorizedLink.                  *)
Other(role) == IF role = "Initiator" THEN "Acceptor" ELSE "Initiator"
Link == INSTANCE AuthorizedLink WITH
            Node <- Role, Key <- Secret, NoKey <- NoSecret,
            view <- [e \in {<<role, Other(role)>> : role \in Role} |->
                        IF status[e[1]] = "Ready" THEN secret[e[1]] ELSE NoSecret],
            authorized <- {<<<<g[1], Other(g[1])>>, g[2]>> : g \in granted}
SynchronizationLink == Link!Spec

(* What GenerateSessionKeys says of the seed needs both ends to expand it  *)
(* alike.                                                                  *)
SeedsAgree ==
    status = [role \in Role |-> "Ready"] => seed["Initiator"] = seed["Acceptor"]

===============================================================================
