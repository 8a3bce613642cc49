----------------------------- MODULE Configuration -----------------------------
(***************************************************************************)
(* How a node comes by its settings: main parses the command line, and     *)
(* Configuration::Manager reads or generates the configuration file,       *)
(* validates and initializes what it has, and writes the file anew at      *)
(* every start.  Between starts the operator may edit the file; the node   *)
(* may be killed at any step.                                              *)
(*                                                                         *)
(* A file is what can be decoded of it.  Serialize first truncates the     *)
(* file, so that a crash, or a write that fails unnoticed, leaves any part *)
(* of it: up to the security strategy, where validation has all it asks    *)
(* for, or less.                                                           *)
(***************************************************************************)
EXTENDS Naturals, FiniteSets

CONSTANTS
    Identifier,         \* valid brypt identifiers
    Endpoint,           \* endpoint options: [protocol, binding, bootstrap]
    NoValue,            \* no identifier is given
    Malformed,          \* a text that is not an identifier
    Absent,             \* there is no file
    Torn,               \* a file of which too little is left to pass validation
    MaxLaunches,        \* bound: starts of the node
    MaxEdits            \* bound: edits of the file

ASSUME EndpointAssumption ==
    Endpoint \subseteq [ protocol : {"TCP", "LoRa", "other"}, binding : {"valid", "invalid"},
                         bootstrap : {"none", "valid", "invalid"} ]
ASSUME BoundAssumption == MaxLaunches \in Nat /\ MaxEdits \in Nat
ASSUME ValueAssumption == NoValue \notin Identifier /\ Malformed \notin Identifier \cup {NoValue}

(* Types and strategies are compared without regard to case.               *)
IdentifierTypes == {"Persistent", "persistent", "Ephemeral", "other"}
Allowable == [ type |-> {"Persistent", "persistent", "Ephemeral"},
               protocol |-> {"TCP", "LoRa"}, strategy |-> {"PQNISTL3", "pqnistl3"} ]

(* Details may hold a quote, which Serialize does not escape.  Long ones   *)
(* take the file over FileSizeLimit as Serialize writes it; a hand may     *)
(* have written them densely enough to stay within.                        *)
Details == {"plain", "quoted", "long", "dense"}
Settings == [ type : IdentifierTypes, value : Identifier \cup {NoValue, Malformed},
              details : Details, endpoints : SUBSET Endpoint,
              strategy : {"PQNISTL3", "pqnistl3", "other", "none"}, authority : {"given", "none"} ]
NoSettings == [ type |-> "none", value |-> NoValue, details |-> "plain", endpoints |-> {},
                strategy |-> "none", authority |-> "none" ]

ASSUME FileAssumption == Absent \notin Settings /\ Torn \notin Settings \cup {Absent}

VARIABLES
    file,       \* the configuration file
    phase,      \* where the node is in its start
    options,    \* m_interactive, and whether the console was to be quiet
    settings,   \* m_settings
    validated,  \* m_validated
    identity,   \* the container of the identifier options
    generated,  \* the file is being generated, not updated
    used,       \* history: the identity the node last ran with, until an edit
    asserted,   \* history: assert(false) has been reached since the launch
    damaged,    \* history: the last write of the file has broken off
    launches,
    edits

start == <<options, generated>>
history == <<used, asserted, damaged>>
counts == <<launches, edits>>
vars == <<file, phase, start, settings, validated, identity, history, counts>>

-------------------------------------------------------------------------------
Init ==
    /\ file = Absent
    /\ phase = "down"
    /\ options = [interactive |-> TRUE, quiet |-> FALSE]
    /\ settings = NoSettings
    /\ validated = FALSE
    /\ identity = NoValue
    /\ generated = FALSE
    /\ used = NoValue
    /\ asserted = FALSE
    /\ damaged = FALSE
    /\ launches = 0
    /\ edits = 0

(* What is written by hand is JSON; the operator may also remove the file. *)
Edit ==
    /\ phase = "down"
    /\ edits < MaxEdits
    /\ edits' = edits + 1
    /\ \/ file' = Absent
       \/ \E s \in Settings : s.details # "quoted" /\ s.strategy # "none" /\ file' = s
    /\ used' = NoValue
    /\ damaged' = FALSE
    /\ UNCHANGED <<phase, start, settings, validated, identity, asserted, launches>>

(* Startup::Options::Parse: --help and --version end the program, and so   *)
(* do an unknown level and options that conflict.                          *)
CommandLine == [ help : BOOLEAN, level : {"none", "known", "unknown"}, quiet : BOOLEAN,
                 nonInteractive : BOOLEAN ]

Parses(c) ==
    /\ ~c.help
    /\ c.level # "unknown"
    /\ ~(c.level # "none" /\ c.quiet)
    /\ ~(c.nonInteractive /\ c.quiet)

Launch ==
    /\ phase = "down"
    /\ launches < MaxLaunches
    /\ launches' = launches + 1
    /\ \E c \in CommandLine :
           /\ phase' = IF Parses(c) THEN "fetch" ELSE "usage"
           /\ options' = [interactive |-> ~c.nonInteractive, quiet |-> c.quiet]
    /\ UNCHANGED <<file, settings, validated, identity, generated, history, edits>>

-------------------------------------------------------------------------------
ValidateSettings(s) ==
    /\ s.type \in Allowable.type
    /\ s.endpoints # {}
    /\ \A e \in s.endpoints : e.protocol \in Allowable.protocol
    /\ s.strategy \in Allowable.strategy

(* Decoding keeps what precedes an error: a quote ends it before the       *)
(* endpoints.                                                              *)
Decoded(s) ==
    CASE s.details = "quoted" ->
             [s EXCEPT !.endpoints = {}, !.strategy = "none", !.authority = "none"]
      [] s.details = "dense" -> [s EXCEPT !.details = "long"]
      [] OTHER -> s

Oversized(s) == s.details = "long"

(* A file over the limit is not read.                                      *)
DecodeConfigurationFile ==
    /\ phase = "fetch"
    /\ file # Absent
    /\ \/ /\ file \in Settings => Oversized(file)
          /\ UNCHANGED <<settings, validated>>
          /\ phase' = "refused"
       \/ /\ file \in Settings /\ ~Oversized(file)
          /\ settings' = Decoded(file)
          /\ validated' = ValidateSettings(settings')
          /\ phase' = IF validated' THEN "initialize" ELSE "refused"
    /\ UNCHANGED <<file, start, identity, history, counts>>

(* The size of the file cannot be asked for, or the file not be opened.    *)
ReadFails ==
    /\ phase = "fetch"
    /\ file # Absent
    /\ phase' = "unread"
    /\ UNCHANGED <<file, start, settings, validated, identity, history, counts>>

FileIsMissing ==
    /\ phase = "fetch"
    /\ file = Absent
    /\ phase' = IF options.interactive THEN "ask" ELSE "refused"
    /\ UNCHANGED <<file, start, settings, validated, identity, history, counts>>

(* The dialog repeats a question until the answer is allowed, but it goes  *)
(* on from an endpoint that is not, so that there may be none.  It stores  *)
(* a type as the code spells it, and the strategy as it was typed.  Where  *)
(* nothing is typed there is a default; LoRa has none for its bootstrap.   *)
IdentifierTypeFromUser == {"Persistent", "Ephemeral"}
DetailsOptionsFromUser == {"plain", "quoted", "long"}
EndpointConfigurationsFromUser ==
    SUBSET { e \in Endpoint : /\ e.protocol \in Allowable.protocol
                              /\ e.bootstrap = "none" <=> e.protocol = "LoRa" }
SecurityOptionsFromUser == [strategy : Allowable.strategy, authority : {"given"}]

GetConfigurationOptionsFromUser ==
    \E type \in IdentifierTypeFromUser, details \in DetailsOptionsFromUser,
       endpoints \in EndpointConfigurationsFromUser, security \in SecurityOptionsFromUser :
          settings' = [ type |-> type, value |-> NoValue, details |-> details,
                        endpoints |-> endpoints, strategy |-> security.strategy,
                        authority |-> security.authority ]

GenerateConfigurationFile ==
    /\ phase = "ask"
    /\ GetConfigurationOptionsFromUser
    /\ validated' = ValidateSettings(settings')
    /\ generated' = TRUE
    /\ phase' = IF validated' THEN "serialize" ELSE "refused"
    /\ UNCHANGED <<file, options, identity, history, counts>>

-------------------------------------------------------------------------------
InitializeAnyBootstrap(e) == e.binding = "valid"    \* mutant: a bootstrap is not looked at

(* An endpoint needs an address to bind to, and a bootstrap that is given  *)
(* must be an address.                                                     *)
InitializeEndpoint(e) == e.binding = "valid" /\ e.bootstrap # "invalid"
InitializeEndpointConfigurations == \A e \in settings.endpoints : InitializeEndpoint(e)

(* A persistent identifier that is given but malformed is only dropped.    *)
InitializeIdentifierOptions ==
    \/ /\ \/ settings.type = "Ephemeral"
          \/ settings.type = "Persistent" /\ settings.value = NoValue
       /\ \E id \in Identifier : /\ identity' = id
                                 /\ settings' = [settings EXCEPT !.value = id]
       /\ UNCHANGED asserted
    \/ /\ settings.type = "Persistent"
       /\ settings.value # NoValue
       /\ identity' = settings.value
       /\ settings' = [settings EXCEPT !.value = IF @ = Malformed THEN NoValue ELSE @]
       /\ UNCHANGED asserted
    \/ /\ settings.type \notin {"Ephemeral", "Persistent"}
       /\ asserted' = TRUE
       /\ UNCHANGED <<identity, settings>>

(* A release build goes on where the assertion would end another.          *)
InitializeSettings ==
    /\ phase = "initialize"
    /\ InitializeIdentifierOptions
    /\ generated' = FALSE
    /\ phase' = IF InitializeEndpointConfigurations THEN "serialize" ELSE "refused"
    /\ UNCHANGED <<file, options, validated, used, damaged, counts>>

OpenFails ==
    /\ phase = "serialize"
    /\ phase' = "unsaved"
    /\ UNCHANGED <<file, start, settings, validated, identity, history, counts>>

Truncate ==
    /\ phase = "serialize"
    /\ file' = Torn
    /\ phase' = "write"
    /\ UNCHANGED <<start, settings, validated, identity, history, counts>>

SerializedAlways(s) == s                            \* mutant: an ephemeral identifier is written
SerializedNever(s) == [s EXCEPT !.value = NoValue]  \* mutant: no identifier is written
SerializedUnseparated(s) ==                         \* mutant: no comma between two endpoints
    IF Cardinality(s.endpoints) > 1 THEN [s EXCEPT !.strategy = "none"] ELSE s

Serialized(s) == IF s.type = "Persistent" THEN s ELSE [s EXCEPT !.value = NoValue]

(* What is left of a write that breaks off: less than validation asks for, *)
(* or all but the authority.                                               *)
BrokenOff(s) == {Torn, [Serialized(s) EXCEPT !.authority = "none"]}

(* Serialize returns Success without a look at the stream, whether all has *)
(* been written or not.                                                    *)
Write ==
    /\ phase = "write"
    /\ \/ file' = Serialized(settings) /\ damaged' = FALSE
       \/ file' \in BrokenOff(settings) /\ damaged' = TRUE
    /\ phase' = IF generated THEN "initialize" ELSE "main"
    /\ UNCHANGED <<start, settings, validated, identity, used, asserted, counts>>

(* What main asks of the manager before it makes the node.                 *)
Main ==
    /\ phase = "main"
    /\ IF validated /\ identity \in Identifier
       THEN phase' = "running" /\ used' = identity
       ELSE phase' = "refused" /\ UNCHANGED used
    /\ UNCHANGED <<file, start, settings, validated, identity, asserted, damaged, counts>>

(* The state of the process goes with it.                                  *)
Ends ==
    /\ phase' = "down"
    /\ options' = [interactive |-> TRUE, quiet |-> FALSE]
    /\ settings' = NoSettings
    /\ validated' = FALSE
    /\ identity' = NoValue
    /\ generated' = FALSE
    /\ asserted' = FALSE
    /\ UNCHANGED <<used, counts>>

Exit ==
    /\ phase \in {"running", "refused", "unread", "unsaved", "usage"}
    /\ Ends
    /\ UNCHANGED <<file, damaged>>

(* A crash while the file is written breaks that off.                      *)
Crash ==
    /\ phase \in {"fetch", "ask", "initialize", "serialize", "write", "main"}
    /\ Ends
    /\ \/ phase # "write" /\ UNCHANGED <<file, damaged>>
       \/ phase = "write" /\ file' \in BrokenOff(settings) /\ damaged' = TRUE

-------------------------------------------------------------------------------
Step ==
    \/ DecodeConfigurationFile
    \/ ReadFails
    \/ FileIsMissing
    \/ GenerateConfigurationFile
    \/ InitializeSettings
    \/ OpenFails
    \/ Truncate
    \/ Write
    \/ Main

Next == Edit \/ Launch \/ Step \/ Exit \/ Crash

Spec == Init /\ [][Next]_vars

-------------------------------------------------------------------------------
(* The state has the types of the members it models, and a file that is    *)
(* being written has been truncated.                                       *)
TypeOK ==
    /\ file \in {Absent, Torn} \/ file \in Settings
    /\ phase \in {"down", "usage", "fetch", "ask", "initialize", "serialize", "write", "main",
                  "running", "refused", "unread", "unsaved"}
    /\ options \in [interactive : BOOLEAN, quiet : BOOLEAN]
    /\ settings = NoSettings \/ settings \in Settings
    /\ validated \in BOOLEAN
    /\ identity \in Identifier \cup {NoValue, Malformed}
    /\ generated \in BOOLEAN
    /\ used \in Identifier \cup {NoValue}
    /\ asserted \in BOOLEAN
    /\ damaged \in BOOLEAN
    /\ launches \in 0..MaxLaunches
    /\ edits \in 0..MaxEdits
    /\ phase = "write" => file = Torn

(***************************************************************************)
(* What the manager promises.                                              *)
(***************************************************************************)

(* A node that runs has an identifier, a strategy that it knows and only   *)
(* endpoints that can be used, whoever wrote its file and whatever crash   *)
(* left of it.                                                             *)
RunningIsConfigured ==
    phase = "running" =>
        /\ identity \in Identifier
        /\ settings.strategy \in {"PQNISTL3", "pqnistl3"}
        /\ settings.endpoints # {}
        /\ \A e \in settings.endpoints : /\ e.protocol \in {"TCP", "LoRa"}
                                         /\ e.binding = "valid"
                                         /\ e.bootstrap # "invalid"

(* The file of a running node holds its identifier exactly if it is to     *)
(* persist, and otherwise what the node runs with: InitializeSettings      *)
(* updates the file for what it has generated.  Not so if that write has   *)
(* failed, which Serialize does not notice (ConfigurationManager.cpp:319). *)
FileMatchesNode ==
    phase = "running" /\ ~damaged =>
        /\ file \in Settings
        /\ [file EXCEPT !.value = settings.value] = settings
        /\ file.value = IF settings.type = "Persistent" THEN identity ELSE NoValue

(* A persistent identifier changes only by the operator's hand: not by a   *)
(* restart, by a crash, by a failed write or by a start that was refused.  *)
IdentityPersists ==
    [][phase = "main" /\ phase' = "running" /\ used # NoValue /\ settings.type = "Persistent"
        => used' = used]_vars

(* A node that has run with its file is refused by the file later in three *)
(* ways only: the last write of it has broken off, the user typed a quote, *)
(* or what Serialize writes without a limit (ConfigurationManager.cpp:299) *)
(* is more than DecodeConfigurationFile reads (:447).                      *)
OwnFileIsAccepted ==
    phase = "refused" /\ used # NoValue =>
        damaged \/ settings.details = "quoted" \/ (file \in Settings /\ Oversized(file))

(* Identifier options that pass validation are of a type that can be       *)
(* initialized: the assertion of InitializeIdentifierOptions.              *)
ValidatedIsInitializable == ~asserted

(* Where the identifier given is not properly formatted, a new one is      *)
(* generated: the comment in InitializeIdentifierOptions.                  *)
IdentifierIsGenerated ==
    phase = "main" /\ settings.type = "Persistent" => identity \in Identifier

(* A quiet node asks nothing: the help text of --quiet.                    *)
QuietAsksNothing == phase = "ask" => ~options.quiet

===============================================================================
