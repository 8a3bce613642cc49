-------------------------- MODULE ConfigurationProofs --------------------------
(***************************************************************************)
(* The configuration of a node, for any identifiers and endpoint options   *)
(* and any number of starts and edits: what runs is configured and is what *)
(* the file says, a persistent identifier lasts, and a node accepts the    *)
(* file that it has written, unless that broke off or is too long.         *)
(***************************************************************************)
EXTENDS Configuration, TLAPS

(* Where the settings have been validated, and where the identifier and    *)
(* the endpoints have been initialized as well.                            *)
AfterValidation == phase \in {"initialize", "serialize", "write", "main", "running"}
Initialized == phase \in {"main", "running"} \/ (phase \in {"serialize", "write"} /\ ~generated)

(* Settings with which a node can run.                                     *)
Good(s) ==
    /\ ValidateSettings(s)
    /\ \A e \in s.endpoints : InitializeEndpoint(e)
    /\ s.type \in {"Persistent", "Ephemeral"}
    /\ s.type = "Persistent" => s.value \in Identifier

PhaseOK ==
    /\ generated => phase \in {"serialize", "write", "initialize", "refused", "unsaved"}
    /\ AfterValidation => validated /\ settings \in Settings /\ ValidateSettings(settings)
    /\ Initialized => InitializeEndpointConfigurations
    /\ phase \in {"down", "fetch", "ask"} => settings = NoSettings
    /\ phase = "ask" => file = Absent
    /\ phase \in {"main", "running"} =>
          file = Serialized(settings) \/ (damaged /\ file \in BrokenOff(settings))

(* What the identifier options have been initialized to.                   *)
IdentityFits ==
    /\ settings.type = "Ephemeral" => identity \in Identifier
    /\ settings.type = "Persistent" =>
          \/ identity \in Identifier /\ settings.value = identity
          \/ identity = Malformed /\ settings.value = NoValue
    /\ settings.type \notin {"Ephemeral", "Persistent"} => identity = NoValue

IdentityOK ==
    /\ AfterValidation /\ ~Initialized => identity = NoValue
    /\ phase \in {"down", "fetch", "ask"} => identity = NoValue
    /\ Initialized => IdentityFits
    /\ phase = "running" => identity \in Identifier

(* The file keeps the identity that the node last ran with.                *)
UsedOK ==
    used # NoValue =>
        /\ used \in Identifier
        /\ file # Absent /\ ~generated
        /\ file \in Settings /\ file.type = "Persistent" => file.value = used
        /\ AfterValidation /\ settings.type = "Persistent" => settings.value = used

(* What the node has written is good as far as it goes, and complete       *)
(* unless the write broke off.                                             *)
OwnFileOK ==
    used # NoValue =>
        /\ file \in Settings => Good(file)
        /\ AfterValidation => Good(settings)
        /\ phase # "write" /\ ~damaged => file \in Settings
        /\ phase = "refused" =>
              damaged \/ settings.details = "quoted" \/ (file \in Settings /\ Oversized(file))

IInv == TypeOK /\ PhaseOK /\ IdentityOK /\ UsedOK /\ OwnFileOK

-------------------------------------------------------------------------------
LEMMA SettingsChange ==
    ASSUME NEW s \in Settings
    PROVE  /\ Serialized(s) \in Settings /\ [Serialized(s) EXCEPT !.authority = "none"] \in Settings
           /\ Decoded(s) \in Settings /\ NoSettings \notin Settings
           /\ \A v \in Identifier \cup {NoValue, Malformed} : [s EXCEPT !.value = v] \in Settings
BY DEF Serialized, Decoded, Settings, NoSettings, IdentifierTypes, Details

(* A quote loses what follows it, and nothing before.                      *)
LEMMA DecodedIs ==
    ASSUME NEW s \in Settings
    PROVE  /\ Decoded(s).type = s.type /\ Decoded(s).value = s.value
           /\ s.details = "quoted" => Decoded(s).details = "quoted" /\ ~ValidateSettings(Decoded(s))
           /\ s.details # "quoted" => /\ Decoded(s).endpoints = s.endpoints
                                     /\ Decoded(s).strategy = s.strategy
BY DEF Decoded, Settings, ValidateSettings, Details

LEMMA NotValidated == ~ValidateSettings(NoSettings)
BY DEF ValidateSettings, NoSettings, Allowable

LEMMA InitOK == Init => IInv
<1>1. Init => TypeOK
  <2> SUFFICES ASSUME Init PROVE TypeOK
    OBVIOUS
  <2>1. options \in [interactive : BOOLEAN, quiet : BOOLEAN]
    BY DEF Init
  <2>2. launches \in 0..MaxLaunches /\ edits \in 0..MaxEdits
    BY BoundAssumption DEF Init
  <2> QED
    BY <2>1, <2>2 DEF Init, TypeOK
<1>2. Init => PhaseOK /\ IdentityOK /\ UsedOK /\ OwnFileOK
  BY DEF Init, PhaseOK, IdentityOK, IdentityFits, UsedOK, OwnFileOK, AfterValidation, Initialized
<1> QED
  BY <1>1, <1>2 DEF IInv

LEMMA EditOK == IInv /\ Edit => IInv'
<1> SUFFICES ASSUME IInv, Edit PROVE IInv'
  OBVIOUS
<1> USE DEF IInv
<1>1. /\ phase = "down" /\ UNCHANGED <<phase, options, settings, validated, identity, generated, asserted, launches>>
      /\ edits < MaxEdits /\ edits' = edits + 1 /\ used' = NoValue /\ damaged' = FALSE
      /\ file' = Absent \/ file' \in Settings
  BY DEF Edit, start
<1>2. TypeOK'
  <2>1. edits' \in 0..MaxEdits
    BY <1>1, BoundAssumption DEF TypeOK
  <2> QED
    BY <1>1, <2>1 DEF TypeOK
<1> QED
  BY <1>1, <1>2 DEF PhaseOK, IdentityOK, IdentityFits, UsedOK, OwnFileOK, AfterValidation, Initialized

LEMMA LaunchOK == IInv /\ Launch => IInv'
<1> SUFFICES ASSUME IInv, Launch PROVE IInv'
  OBVIOUS
<1> USE DEF IInv
<1>1. /\ phase = "down" /\ phase' \in {"fetch", "usage"}
      /\ UNCHANGED <<file, settings, validated, identity, generated, used, asserted, damaged, edits>>
      /\ launches < MaxLaunches /\ launches' = launches + 1
      /\ options' \in [interactive : BOOLEAN, quiet : BOOLEAN]
  BY DEF Launch, history, CommandLine
<1>2. TypeOK'
  <2>1. launches' \in 0..MaxLaunches
    BY <1>1, BoundAssumption DEF TypeOK
  <2> QED
    BY <1>1, <2>1 DEF TypeOK
<1> QED
  BY <1>1, <1>2 DEF PhaseOK, IdentityOK, IdentityFits, UsedOK, OwnFileOK, AfterValidation, Initialized

LEMMA DecodeOK == IInv /\ DecodeConfigurationFile => IInv'
<1> SUFFICES ASSUME IInv, DecodeConfigurationFile PROVE IInv'
  OBVIOUS
<1> USE DEF IInv
<1>2. phase = "fetch" /\ UNCHANGED <<file, generated, identity, used, damaged>> /\ phase' \in {"initialize", "refused"}
  BY DEF DecodeConfigurationFile, start, history
<1>3. settings = NoSettings /\ ~ValidateSettings(settings)
  BY <1>2, NotValidated DEF PhaseOK
<1>4. \/ /\ file \in Settings /\ ~Oversized(file) /\ settings' = Decoded(file) /\ settings' \in Settings
         /\ validated' = ValidateSettings(settings')
         /\ phase' = "initialize" <=> ValidateSettings(settings')
      \/ /\ settings' = NoSettings /\ validated' = validated /\ phase' = "refused"
         /\ file \in Settings => Oversized(file)
  BY <1>3, SettingsChange DEF DecodeConfigurationFile, ValidateSettings
<1>1. TypeOK'
  BY <1>2, <1>4 DEF DecodeConfigurationFile, start, history, counts, TypeOK, ValidateSettings
<1>5. PhaseOK'
  BY <1>2, <1>3, <1>4 DEF PhaseOK, AfterValidation, Initialized, DecodeConfigurationFile
<1>6. IdentityOK'
  BY <1>2 DEF IdentityOK, IdentityFits, PhaseOK, AfterValidation, Initialized
<1>7. UsedOK'
  BY <1>2, <1>3, <1>4, DecodedIs DEF UsedOK, AfterValidation
<1>8. OwnFileOK'
  <2> SUFFICES ASSUME used # NoValue PROVE OwnFileOK'
    BY <1>2 DEF OwnFileOK
  <2>1. /\ file \in Settings => Good(file)
        /\ ~damaged => file \in Settings
    BY <1>2 DEF OwnFileOK
  <2>2. CASE phase' = "refused" /\ (file \in Settings => Oversized(file))
    BY <1>2, <2>1, <2>2 DEF OwnFileOK, AfterValidation
  <2>3. CASE /\ file \in Settings /\ settings' = Decoded(file)
             /\ phase' = "initialize" <=> ValidateSettings(settings')
    <3>1. file.details # "quoted" => Good(settings')
      BY <2>1, <2>3, DecodedIs DEF Good, ValidateSettings
    <3>2. file.details = "quoted" => settings'.details = "quoted" /\ phase' = "refused"
      BY <1>2, <2>3, DecodedIs
    <3> QED
      BY <1>2, <2>1, <2>3, <3>1, <3>2 DEF OwnFileOK, AfterValidation, Good
  <2> QED
    BY <1>4, <2>2, <2>3
<1> QED
  BY <1>1, <1>5, <1>6, <1>7, <1>8

(* A file that cannot be read changes nothing.                             *)
LEMMA ReadFailsOK == IInv /\ ReadFails => IInv'
BY DEF ReadFails, start, history, counts, IInv, TypeOK, PhaseOK, IdentityOK, IdentityFits, UsedOK, OwnFileOK,
   AfterValidation, Initialized

LEMMA MissingOK == IInv /\ FileIsMissing => IInv'
BY FileAssumption DEF FileIsMissing, start, history, counts, IInv, TypeOK, PhaseOK, IdentityOK, IdentityFits, UsedOK, OwnFileOK,
   AfterValidation, Initialized

LEMMA GenerateOK == IInv /\ GenerateConfigurationFile => IInv'
<1> SUFFICES ASSUME IInv, GenerateConfigurationFile PROVE IInv'
  OBVIOUS
<1> USE DEF IInv
<1>1. settings' \in Settings
  BY DEF GenerateConfigurationFile, GetConfigurationOptionsFromUser, IdentifierTypeFromUser, DetailsOptionsFromUser,
         EndpointConfigurationsFromUser, SecurityOptionsFromUser, Settings, IdentifierTypes, Details, Allowable
<1>2. /\ phase = "ask" /\ UNCHANGED <<file, options, identity, used, damaged, asserted, counts>>
      /\ generated' /\ phase' \in {"serialize", "refused"} /\ file = Absent
      /\ validated' = ValidateSettings(settings')
      /\ phase' = "serialize" <=> ValidateSettings(settings')
  BY DEF GenerateConfigurationFile, PhaseOK, history, counts, ValidateSettings
<1>3. used = NoValue
  BY <1>2 DEF UsedOK
<1>4. TypeOK'
  BY <1>1, <1>2 DEF TypeOK, ValidateSettings, counts, GenerateConfigurationFile
<1> QED
  BY <1>1, <1>2, <1>3, <1>4, FileAssumption DEF PhaseOK, IdentityOK, IdentityFits, UsedOK, OwnFileOK, AfterValidation, Initialized

(* What initializing the identifier makes of it.                           *)
LEMMA IdentifierInitialized ==
    ASSUME TypeOK, settings \in Settings, identity = NoValue, InitializeIdentifierOptions
    PROVE  /\ \E v \in Identifier \cup {NoValue, Malformed} : settings' = [settings EXCEPT !.value = v]
           /\ identity' \in Identifier \cup {NoValue, Malformed} /\ asserted' \in BOOLEAN
           /\ IdentityFits'
           /\ settings.type = "Persistent" /\ settings.value \in Identifier => settings'.value = settings.value
<1>1. /\ settings = [settings EXCEPT !.value = settings.value]
      /\ settings.value \in Identifier \cup {NoValue, Malformed}
      /\ \A v : [settings EXCEPT !.value = v].type = settings.type /\ [settings EXCEPT !.value = v].value = v
  BY DEF Settings
<1>2. CASE settings.type = "Ephemeral"
  BY <1>1, <1>2 DEF InitializeIdentifierOptions, TypeOK, IdentityFits
<1>3. CASE settings.type = "Persistent" /\ settings.value = NoValue
  BY <1>1, <1>3, ValueAssumption DEF InitializeIdentifierOptions, TypeOK, IdentityFits
<1>4. CASE settings.type = "Persistent" /\ settings.value # NoValue
  <2>1. /\ identity' = settings.value /\ UNCHANGED asserted
        /\ settings' = [settings EXCEPT !.value = IF settings.value = Malformed THEN NoValue ELSE settings.value]
    BY <1>4 DEF InitializeIdentifierOptions
  <2> QED
    BY <1>1, <1>4, <2>1, ValueAssumption DEF TypeOK, IdentityFits
<1>5. CASE settings.type \notin {"Ephemeral", "Persistent"}
  BY <1>1, <1>5 DEF InitializeIdentifierOptions, TypeOK, IdentityFits
<1> QED
  BY <1>2, <1>3, <1>4, <1>5

LEMMA InitializeOK == IInv /\ InitializeSettings => IInv'
<1> SUFFICES ASSUME IInv, InitializeSettings PROVE IInv'
  OBVIOUS
<1> USE DEF IInv
<1>1. /\ phase = "initialize" /\ InitializeIdentifierOptions /\ generated' = FALSE
      /\ phase' \in {"serialize", "refused"}
      /\ phase' = "serialize" => InitializeEndpointConfigurations
      /\ InitializeEndpointConfigurations => phase' = "serialize"
      /\ UNCHANGED <<file, options, validated, used, damaged, launches, edits>>
  BY DEF InitializeSettings, counts
<1>2. settings \in Settings /\ ValidateSettings(settings) /\ identity = NoValue /\ validated
  BY <1>1 DEF PhaseOK, IdentityOK, IdentityFits, AfterValidation, Initialized
<1>3. PICK v \in Identifier \cup {NoValue, Malformed} : settings' = [settings EXCEPT !.value = v]
  BY <1>1, <1>2, IdentifierInitialized
<1>4. settings' \in Settings /\ settings'.type = settings.type /\ settings'.endpoints = settings.endpoints
      /\ settings'.strategy = settings.strategy /\ settings'.details = settings.details
  BY <1>2, <1>3, SettingsChange DEF Settings
<1>5. TypeOK'
  <2>1. identity' \in Identifier \cup {NoValue, Malformed} /\ asserted' \in BOOLEAN
    BY <1>1, <1>2, IdentifierInitialized
  <2> QED
    BY <1>1, <1>4, <2>1 DEF TypeOK
<1>6. ValidateSettings(settings') /\ (InitializeEndpointConfigurations' <=> InitializeEndpointConfigurations)
  BY <1>2, <1>4 DEF ValidateSettings, InitializeEndpointConfigurations
<1>7. PhaseOK'
  BY <1>1, <1>2, <1>4, <1>6 DEF PhaseOK, AfterValidation, Initialized
<1>8. IdentityOK'
  BY <1>1, <1>2, IdentifierInitialized DEF IdentityOK, IdentityFits, AfterValidation, Initialized
<1>9. UsedOK'
  BY <1>1, <1>2, <1>4, IdentifierInitialized DEF UsedOK, AfterValidation
<1>10. OwnFileOK'
  <2> SUFFICES ASSUME used # NoValue PROVE OwnFileOK'
    BY <1>1 DEF OwnFileOK
  <2>1. /\ Good(settings)
        /\ file \in Settings => Good(file)
        /\ ~damaged => file \in Settings
    BY <1>1 DEF OwnFileOK, AfterValidation
  <2>2. Good(settings')
    BY <1>1, <1>2, <1>4, <1>6, <2>1, IdentifierInitialized DEF Good
  <2>3. InitializeEndpointConfigurations
    BY <2>1 DEF Good, InitializeEndpointConfigurations
  <2> QED
    BY <1>1, <2>1, <2>2, <2>3 DEF OwnFileOK, AfterValidation
<1> QED
  BY <1>5, <1>7, <1>8, <1>9, <1>10

LEMMA SerializeOK == IInv /\ (OpenFails \/ Truncate) => IInv'
<1> SUFFICES ASSUME IInv, OpenFails \/ Truncate PROVE IInv'
  OBVIOUS
<1> USE DEF IInv
<1>1. /\ phase = "serialize"
      /\ \/ phase' = "unsaved" /\ file' = file
         \/ phase' = "write" /\ file' = Torn
      /\ UNCHANGED <<options, generated, settings, validated, identity, used, asserted, damaged, launches, edits>>
  BY DEF OpenFails, Truncate, start, history, counts
<1>2. TypeOK'
  BY <1>1 DEF TypeOK
<1> QED
  BY <1>1, <1>2, FileAssumption
     DEF PhaseOK, IdentityOK, IdentityFits, UsedOK, OwnFileOK, AfterValidation, Initialized, InitializeEndpointConfigurations

(* What is written of settings, or of a part of them that can be read.     *)
Written(f, s) == f \in Settings /\ (f = Serialized(s) \/ f \in BrokenOff(s))

(* What is written of settings that are good is good.                      *)
LEMMA WrittenIs ==
    ASSUME NEW s \in Settings, NEW f, Written(f, s)
    PROVE  /\ Good(s) => Good(f)
           /\ f.type = "Persistent" => s.type = "Persistent" /\ f.value = s.value
<1>1. Serialized(s) \in Settings
  BY SettingsChange
<1>2. f = Serialized(s) \/ f = [Serialized(s) EXCEPT !.authority = "none"]
  BY FileAssumption DEF Written, BrokenOff
<1>3. /\ Serialized(s).type = s.type /\ Serialized(s).endpoints = s.endpoints
      /\ Serialized(s).strategy = s.strategy
      /\ s.type = "Persistent" => Serialized(s).value = s.value
  BY DEF Serialized, Settings
<1>4. /\ f.type = s.type /\ f.endpoints = s.endpoints /\ f.strategy = s.strategy
      /\ f.value = Serialized(s).value
  BY <1>1, <1>2, <1>3 DEF Settings
<1> QED
  BY <1>3, <1>4 DEF Good, ValidateSettings

(* What a broken write leaves is a file.                                   *)
LEMMA BrokenOffType ==
    ASSUME NEW s \in Settings, NEW f, f = Serialized(s) \/ f \in BrokenOff(s)
    PROVE  /\ f = Torn \/ Written(f, s)
           /\ f # Absent
BY SettingsChange, FileAssumption DEF BrokenOff, Written

LEMMA WriteOK == IInv /\ Write => IInv'
<1> SUFFICES ASSUME IInv, Write PROVE IInv'
  OBVIOUS
<1> USE DEF IInv
<1>1. /\ phase = "write"
      /\ \/ file' = Serialized(settings) /\ damaged' = FALSE
         \/ file' \in BrokenOff(settings) /\ damaged' = TRUE
      /\ phase' = IF generated THEN "initialize" ELSE "main"
      /\ UNCHANGED <<options, generated, settings, validated, identity, used, asserted, launches, edits>>
  BY DEF Write, start, counts
<1>2. settings \in Settings /\ validated /\ ValidateSettings(settings)
  BY <1>1 DEF PhaseOK, AfterValidation
<1>3. (file' = Torn \/ Written(file', settings)) /\ file' # Absent
  BY <1>1, <1>2, BrokenOffType
<1>4. file' = Serialized(settings) => file' \in Settings
  BY <1>2, SettingsChange
<1>5. TypeOK'
  BY <1>1, <1>2, <1>3 DEF TypeOK, Written
<1>6. PhaseOK'
  BY <1>1, <1>2 DEF PhaseOK, AfterValidation, Initialized, InitializeEndpointConfigurations, BrokenOff, Serialized
<1>7. IdentityOK'
  BY <1>1 DEF IdentityOK, IdentityFits, AfterValidation, Initialized
<1>8. file' \in Settings => Written(file', settings)
  BY <1>3, FileAssumption
<1>9. UsedOK'
  <2> SUFFICES ASSUME used # NoValue PROVE UsedOK'
    BY <1>1 DEF UsedOK
  <2>1. /\ used \in Identifier /\ ~generated
        /\ settings.type = "Persistent" => settings.value = used
    BY <1>1 DEF UsedOK, AfterValidation
  <2> QED
    BY <1>1, <1>2, <1>3, <1>8, <2>1, WrittenIs DEF UsedOK
<1>10. OwnFileOK'
  BY <1>1, <1>2, <1>4, <1>8, WrittenIs DEF OwnFileOK, AfterValidation
<1> QED
  BY <1>5, <1>6, <1>7, <1>9, <1>10

(* Main starts the node with the identity it last had, if that persists.   *)
LEMMA MainOK ==
    ASSUME IInv, Main
    PROVE  /\ IInv'
           /\ phase' = "running" /\ used # NoValue /\ settings.type = "Persistent" => used' = used
<1> USE DEF IInv
<1>1. /\ phase = "main" /\ UNCHANGED <<file, options, generated, settings, validated, identity, asserted, damaged, launches, edits>>
      /\ \/ phase' = "running" /\ identity \in Identifier /\ used' = identity
         \/ phase' = "refused" /\ ~(validated /\ identity \in Identifier) /\ used' = used
  BY DEF Main, start, counts
<1>2. /\ settings \in Settings /\ validated /\ ValidateSettings(settings) /\ InitializeEndpointConfigurations
      /\ file = Serialized(settings) \/ (damaged /\ file \in BrokenOff(settings))
      /\ ~generated
  BY <1>1 DEF PhaseOK, AfterValidation, Initialized
<1>3. IdentityFits
  BY <1>1 DEF IdentityOK, IdentityFits, Initialized
<1>4. TypeOK'
  BY <1>1 DEF TypeOK
<1>5. PhaseOK'
  BY <1>1, <1>2 DEF PhaseOK, AfterValidation, Initialized, InitializeEndpointConfigurations
<1>6. IdentityOK'
  BY <1>1, <1>3 DEF IdentityOK, IdentityFits, AfterValidation, Initialized
<1>7. identity \in Identifier => Good(settings)
  BY <1>2, <1>3, ValueAssumption DEF IdentityFits, Good, InitializeEndpointConfigurations
<1>8. /\ file # Absent /\ (~damaged => file \in Settings)
      /\ file \in Settings => Written(file, settings)
  BY <1>2, SettingsChange, BrokenOffType, FileAssumption
<1>9. file \in Settings =>
         /\ identity \in Identifier => Good(file)
         /\ file.type = "Persistent" => settings.type = "Persistent" /\ file.value = settings.value
  BY <1>2, <1>7, <1>8, WrittenIs
<1>10. UsedOK'
  <2>1. CASE phase' = "running"
    BY <1>1, <1>2, <1>3, <1>8, <1>9, <2>1, FileAssumption, ValueAssumption DEF IdentityFits, UsedOK, AfterValidation
  <2>2. CASE phase' = "refused"
    BY <1>1, <2>2 DEF UsedOK, AfterValidation
  <2> QED
    BY <1>1, <2>1, <2>2
<1>11. OwnFileOK'
  <2>1. CASE phase' = "running"
    BY <1>1, <1>7, <1>8, <1>9, <2>1 DEF OwnFileOK, AfterValidation
  <2>2. CASE phase' = "refused"
    <3> SUFFICES ASSUME used # NoValue PROVE FALSE
      BY <1>1, <2>2 DEF OwnFileOK
    <3>1. Good(settings)
      BY <1>1 DEF OwnFileOK, AfterValidation
    <3>2. identity \in Identifier
      BY <1>3, <3>1, ValueAssumption DEF IdentityFits, Good
    <3> QED
      BY <1>1, <1>2, <2>2, <3>2
  <2> QED
    BY <1>1, <2>1, <2>2
<1>12. phase' = "running" /\ used # NoValue /\ settings.type = "Persistent" => used' = used
  BY <1>1, <1>3, ValueAssumption DEF IdentityFits, UsedOK, AfterValidation
<1> QED
  BY <1>4, <1>5, <1>6, <1>10, <1>11, <1>12

LEMMA EndsOK == IInv /\ (Exit \/ Crash) => IInv'
<1> SUFFICES ASSUME IInv, Exit \/ Crash PROVE IInv'
  OBVIOUS
<1> USE DEF IInv
<1>1. /\ phase' = "down" /\ settings' = NoSettings /\ validated' = FALSE /\ identity' = NoValue
      /\ generated' = FALSE /\ asserted' = FALSE /\ UNCHANGED <<used, launches, edits>>
  BY DEF Exit, Crash, Ends, counts
<1>2. options' \in [interactive : BOOLEAN, quiet : BOOLEAN]
  <2>1. options' = [interactive |-> TRUE, quiet |-> FALSE]
    BY DEF Exit, Crash, Ends
  <2> QED
    BY <2>1
<1>3. CASE file' = file /\ damaged' = damaged /\ phase # "write"
  <2>1. TypeOK'
    BY <1>1, <1>2, <1>3 DEF TypeOK
  <2> QED
    BY <1>1, <1>3, <2>1 DEF PhaseOK, IdentityOK, IdentityFits, UsedOK, OwnFileOK, AfterValidation, Initialized
<1>4. CASE file' \in BrokenOff(settings) /\ damaged' = TRUE /\ phase = "write"
  <2>1. settings \in Settings
    BY <1>4 DEF PhaseOK, AfterValidation
  <2>2. /\ file' = Torn \/ Written(file', settings)
        /\ file' # Absent /\ (file' \in Settings => Written(file', settings))
    BY <1>4, <2>1, BrokenOffType, FileAssumption
  <2>3. TypeOK'
    BY <1>1, <1>2, <1>4, <2>2 DEF TypeOK, Written
  <2>4. file' \in Settings =>
           /\ Good(settings) => Good(file')
           /\ file'.type = "Persistent" => settings.type = "Persistent" /\ file'.value = settings.value
    BY <2>1, <2>2, WrittenIs
  <2>5. UsedOK'
    BY <1>1, <1>4, <2>2, <2>4 DEF UsedOK, AfterValidation
  <2>6. OwnFileOK'
    BY <1>1, <1>4, <2>4 DEF OwnFileOK, AfterValidation
  <2> QED
    BY <1>1, <1>4, <2>3, <2>5, <2>6 DEF PhaseOK, IdentityOK, IdentityFits, AfterValidation, Initialized
<1>5. CASE Exit
  BY <1>3, <1>5 DEF Exit
<1>6. CASE Crash
  BY <1>3, <1>4, <1>6 DEF Crash
<1> QED
  BY <1>5, <1>6

LEMMA StepOK == IInv /\ [Next]_vars => IInv'
<1>1. IInv /\ UNCHANGED vars => IInv'
  BY DEF vars, start, history, counts, IInv, TypeOK, PhaseOK, IdentityOK, IdentityFits, UsedOK, OwnFileOK, AfterValidation,
         Initialized, InitializeEndpointConfigurations
<1> QED
  BY <1>1, EditOK, LaunchOK, DecodeOK, ReadFailsOK, MissingOK, GenerateOK, InitializeOK, SerializeOK, WriteOK, MainOK, EndsOK
     DEF Next, Step

LEMMA Invariant == Spec => []IInv
BY InitOK, StepOK, PTL DEF Spec

-------------------------------------------------------------------------------
(* The members have their types, whatever the file holds.                  *)
THEOREM TypeCorrect == Spec => []TypeOK
<1>1. IInv => TypeOK
  BY DEF IInv
<1> QED
  BY <1>1, Invariant, PTL

(* No node runs without an identifier, a known strategy and endpoints that *)
(* were all initialized: Manager::ValidateSettings and InitializeSettings. *)
THEOREM NodesAreConfigured == Spec => []RunningIsConfigured
<1>1. IInv => RunningIsConfigured
  BY DEF IInv, PhaseOK, IdentityOK, IdentityFits, RunningIsConfigured, AfterValidation, Initialized, ValidateSettings,
         Allowable, InitializeEndpointConfigurations, InitializeEndpoint
<1> QED
  BY <1>1, Invariant, PTL

(* The file of a running node is the one that was written for it, unless   *)
(* that write has broken off.                                              *)
THEOREM FileIsOfTheNode == Spec => []FileMatchesNode
<1>1. IInv => FileMatchesNode
  <2> SUFFICES ASSUME IInv, phase = "running", ~damaged
               PROVE  /\ file \in Settings
                      /\ [file EXCEPT !.value = settings.value] = settings
                      /\ file.value = IF settings.type = "Persistent" THEN identity ELSE NoValue
    BY DEF FileMatchesNode
  <2>1. settings \in Settings /\ file = Serialized(settings) /\ file \in Settings
    BY SettingsChange DEF IInv, PhaseOK, AfterValidation
  <2>2. [file EXCEPT !.value = settings.value] = settings
    BY <2>1 DEF Serialized, Settings
  <2>3. settings.type = "Persistent" => settings.value = identity
    BY ValueAssumption DEF IInv, IdentityOK, IdentityFits, Initialized
  <2>4. file.value = IF settings.type = "Persistent" THEN settings.value ELSE NoValue
    BY <2>1 DEF Serialized, Settings
  <2> QED
    BY <2>1, <2>2, <2>3, <2>4
<1> QED
  BY <1>1, Invariant, PTL

(* A file that the node wrote is refused only if the write broke off, a    *)
(* quote was typed into it, or it is over the limit that only reading has. *)
THEOREM OwnFileLasts == Spec => []OwnFileIsAccepted
<1>1. IInv => OwnFileIsAccepted
  BY DEF IInv, OwnFileOK, OwnFileIsAccepted
<1> QED
  BY <1>1, Invariant, PTL

(* No restart, crash, failed write or refused start changes a persistent   *)
(* identifier.                                                             *)
THEOREM IdentityLasts == Spec => IdentityPersists
<1>1. IInv /\ [Next]_vars =>
         [phase = "main" /\ phase' = "running" /\ used # NoValue /\ settings.type = "Persistent"
          => used' = used]_vars
  <2> SUFFICES ASSUME IInv, Next, phase = "main", phase' = "running"
               PROVE  Main
    BY MainOK
  <2> QED
    BY DEF Next, Edit, Launch, Step, DecodeConfigurationFile, ReadFails, FileIsMissing, GenerateConfigurationFile,
           InitializeSettings, OpenFails, Truncate, Write, Exit, Crash, Ends
<1> QED
  BY <1>1, Invariant, PTL DEF Spec, IdentityPersists

===============================================================================
