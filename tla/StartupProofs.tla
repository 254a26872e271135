--------------------------- MODULE StartupProofs ---------------------------
(***************************************************************************)
(* What holds of every start, whatever is given as a flag, in the          *)
(* environment and in the files.                                           *)
(***************************************************************************)
EXTENDS Startup, TLAPS

Keys == DOMAIN BuiltIn

\* The stages in which the settings are those that are used.
Settled == {"configured", "loaded", "live", "built", "running", "valid"}

\* What the settings are while they are put together.
Collected ==
    /\ invocation \in Invocations
    /\ stage \in {"start", "reading", "read", "version", "error"} \cup Settled
    /\ DOMAIN settings = Keys
    /\ stage = "start" => \A k \in Keys : settings[k] = DefaultSettings(invocation)[k]
    /\ stage \notin {"start", "error"} => StrictKeys(invocation.flags)
    /\ stage = "reading" =>
         /\ invocation.config # "none"
         /\ \A k \in Keys : settings[k] = Reapplied(DefaultSettings(invocation), invocation)[k]
    /\ stage = "read" =>
         /\ invocation.config = "there" /\ StrictKeys(invocation.file)
         /\ \A k \in Keys : settings[k] =
               Override(Reapplied(DefaultSettings(invocation), invocation), invocation.file)[k]
    /\ FlagsOutrankFile

\* What has been accepted on the way to a scheduler.
Accepted ==
    /\ stage \in {"loaded", "live", "built", "running", "valid"} =>
         /\ settings.policy = "resilient-urgent"
         /\ Engine!ValidConfig(policy)
         /\ PolicyFiles[settings.policyConfig].header
    /\ stage \in {"live", "built", "running"} =>
         ~invocation.validateOnly /\ ~invocation.version
    /\ stage \in {"reading", "read", "configured", "loaded", "valid"} => ~invocation.version
    /\ stage \notin {"built", "running", "error"} => scheduler = Nil
    /\ stage \in {"built", "running"} \/ Connected =>
         /\ ~LiveError(settings, invocation)
         /\ settings.policy = "resilient-urgent" /\ scheduler.name = "resilient-urgent"
         /\ scheduler \in [name : PolicyNames, configured : BOOLEAN]
         /\ \A k \in Keys : settings[k] = Wanted(k)
         /\ ~invocation.validateOnly /\ ~invocation.version

StartInv == Collected /\ Accepted

\* Adding fields that the settings have leaves their fields as they are.
LEMMA OverrideFields ==
    ASSUME NEW base, NEW over, DOMAIN over \subseteq DOMAIN base
    PROVE  /\ DOMAIN Override(base, over) = DOMAIN base
           /\ \A k \in DOMAIN base :
                 Override(base, over)[k] = IF k \in DOMAIN over THEN over[k] ELSE base[k]
  BY DEF Override

LEMMA DefaultFields ==
    ASSUME NEW i \in Invocations
    PROVE  /\ DOMAIN DefaultSettings(i) = Keys
           /\ \A k \in Keys : DefaultSettings(i)[k] =
                 IF k \in DOMAIN i.environment THEN i.environment[k] ELSE BuiltIn[k]
  BY InvocationsAssumption, OverrideFields DEF DefaultSettings, Keys

LEMMA InitCollected == Init => StartInv
<1> SUFFICES ASSUME Init PROVE StartInv
  OBVIOUS
<1>1. DOMAIN settings = Keys
  BY DefaultFields DEF Init
<1> QED
  BY <1>1 DEF Init, StartInv, Collected, Accepted, FlagsOutrankFile, Connected, Settled

\* Leaving run early keeps what has been found so far.
LEMMA ExitKeeps ==
    ASSUME StartInv, Exit("error")
    PROVE  StartInv'
  BY DEF StartInv, Collected, Accepted, Exit, FlagsOutrankFile, Connected, Wanted, Settled,
         LiveError

LEMMA StartInductive == StartInv /\ [Next]_vars => StartInv'
<1> SUFFICES ASSUME StartInv, [Next]_vars PROVE StartInv'
  OBVIOUS
<1>1. CASE ParseFlags
  <2>1. CASE StrictKeys(invocation.flags)
    <3>1. /\ stage = "start" /\ settings' = Reapplied(settings, invocation)
          /\ stage' = IF invocation.version THEN "version"
                      ELSE IF invocation.config = "none" THEN "configured" ELSE "reading"
          /\ UNCHANGED <<invocation, policy, scheduler>>
      BY <1>1, <2>1 DEF ParseFlags
    <3>2. /\ DOMAIN settings = Keys /\ invocation \in Invocations
          /\ \A k \in Keys : settings[k] = DefaultSettings(invocation)[k]
      BY <3>1 DEF StartInv, Collected
    <3>3. DOMAIN invocation.flags \subseteq Keys
      BY <2>1 DEF StrictKeys, Keys
    <3>4. /\ DOMAIN settings' = Keys
          /\ \A k \in Keys : settings'[k] =
                IF k \in DOMAIN invocation.flags THEN invocation.flags[k] ELSE settings[k]
      BY <3>1, <3>2, <3>3, OverrideFields DEF Reapplied
    <3>5. \A k \in Keys : settings'[k] = Reapplied(DefaultSettings(invocation), invocation)[k]
      BY <3>2, <3>3, <3>4, DefaultFields, OverrideFields DEF Reapplied
    <3>6. invocation.config = "none" => \A k \in Keys : settings'[k] = Wanted(k)
      BY <3>2, <3>4, DefaultFields DEF Wanted
    <3>7. FlagsOutrankFile'
      BY <3>1, <3>6 DEF FlagsOutrankFile, Wanted, Keys
    <3>8. Collected'
      BY <2>1, <3>1, <3>2, <3>4, <3>5, <3>7 DEF Collected, Settled, StrictKeys
    <3>9. Accepted'
      BY <3>1 DEF StartInv, Accepted, Connected
    <3> QED
      BY <3>8, <3>9 DEF StartInv
  <2> QED
    BY <1>1, <2>1, ExitKeeps DEF ParseFlags
<1>2. CASE ReadFile
  <2>1. CASE Exit("error")
    BY <2>1, ExitKeeps
  <2>2. CASE ~(invocation.config = "missing" \/ ~StrictKeys(invocation.file))
    <3>1. /\ stage = "reading" /\ settings' = Override(settings, invocation.file)
          /\ stage' = "read" /\ UNCHANGED <<invocation, policy, scheduler>>
          /\ StrictKeys(invocation.file) /\ invocation.config # "missing"
      BY <1>2, <2>2 DEF ReadFile
    <3>2. /\ DOMAIN settings = Keys /\ invocation \in Invocations
          /\ invocation.config # "none" /\ StrictKeys(invocation.flags)
          /\ \A k \in Keys : settings[k] = Reapplied(DefaultSettings(invocation), invocation)[k]
      BY <3>1 DEF StartInv, Collected
    <3>3. /\ DOMAIN invocation.file \subseteq Keys /\ DOMAIN invocation.flags \subseteq Keys
          /\ invocation.config = "there"
      BY <3>1, <3>2, InvocationsAssumption DEF StrictKeys, Keys
    <3> DEFINE before == Reapplied(DefaultSettings(invocation), invocation)
    <3>4. DOMAIN before = Keys
      BY <3>2, <3>3, DefaultFields, OverrideFields DEF Reapplied
    <3> HIDE DEF before
    <3>5. /\ DOMAIN settings' = Keys
          /\ \A k \in Keys : settings'[k] = Override(before, invocation.file)[k]
      BY <3>1, <3>2, <3>3, <3>4, OverrideFields DEF before
    <3>6. Collected'
      BY <3>1, <3>2, <3>3, <3>5 DEF Collected, Settled, FlagsOutrankFile, StrictKeys, before
    <3>7. Accepted'
      BY <3>1 DEF StartInv, Accepted, Connected
    <3> QED
      BY <3>6, <3>7 DEF StartInv
  <2> QED
    BY <1>2, <2>1, <2>2 DEF ReadFile
<1>3. CASE ReapplyFlags
  <2>1. /\ stage = "read" /\ settings' = Reapplied(settings, invocation)
        /\ stage' = "configured" /\ UNCHANGED <<invocation, policy, scheduler>>
    BY <1>3 DEF ReapplyFlags
  <2> DEFINE before == Reapplied(DefaultSettings(invocation), invocation)
  <2>2. /\ DOMAIN settings = Keys /\ invocation \in Invocations
        /\ invocation.config = "there"
        /\ DOMAIN invocation.file \subseteq Keys /\ DOMAIN invocation.flags \subseteq Keys
        /\ \A k \in Keys : settings[k] = Override(before, invocation.file)[k]
    BY <2>1 DEF StartInv, Collected, StrictKeys, Keys
  <2>3. /\ DOMAIN before = Keys
        /\ \A k \in Keys : before[k] = IF k \in DOMAIN invocation.flags THEN invocation.flags[k]
                                       ELSE DefaultSettings(invocation)[k]
    BY <2>2, DefaultFields, OverrideFields DEF Reapplied
  <2> HIDE DEF before
  <2>4. \A k \in Keys : settings[k] =
            IF k \in DOMAIN invocation.file THEN invocation.file[k] ELSE before[k]
    BY <2>2, <2>3, OverrideFields
  <2>5. /\ DOMAIN settings' = Keys
        /\ \A k \in Keys : settings'[k] =
              IF k \in DOMAIN invocation.flags THEN invocation.flags[k] ELSE settings[k]
    BY <2>1, <2>2, OverrideFields DEF Reapplied
  <2>6. \A k \in Keys : settings'[k] = Wanted(k)
    BY <2>2, <2>3, <2>4, <2>5, DefaultFields DEF Wanted
  <2>7. FlagsOutrankFile'
    BY <2>1, <2>6 DEF FlagsOutrankFile, Wanted, Keys
  <2>8. Collected'
    BY <2>1, <2>2, <2>5, <2>7 DEF Collected, Settled, StrictKeys, Keys
  <2>9. Accepted'
    BY <2>1 DEF StartInv, Accepted, Connected
  <2> QED
    BY <2>8, <2>9 DEF StartInv
<1>4. CASE LoadPolicy
  <2>1. CASE Exit("error")
    BY <2>1, ExitKeeps
  <2>2. CASE ~Exit("error")
    <3> DEFINE file == PolicyFiles[settings.policyConfig]
    <3>1. /\ stage = "configured" /\ stage' = "loaded"
          /\ settings.policy = "resilient-urgent" /\ ~LoadError(file)
          /\ policy' = Override(DefaultConfig, file.fields)
          /\ UNCHANGED <<invocation, settings, scheduler>>
      BY <1>4, <2>2 DEF LoadPolicy
    <3>2. Engine!ValidConfig(policy') /\ file.header
      BY <3>1 DEF LoadError
    <3>3. Collected'
      BY <3>1 DEF StartInv, Collected, Settled, FlagsOutrankFile, Wanted
    <3>4. Accepted'
      BY <3>1, <3>2 DEF StartInv, Accepted, Connected
    <3> QED
      BY <3>3, <3>4 DEF StartInv
  <2> QED
    BY <2>1, <2>2
<1>5. CASE Validated
  <2>1. /\ stage = "loaded" /\ stage' = IF invocation.validateOnly THEN "valid" ELSE "live"
        /\ UNCHANGED <<invocation, settings, policy, scheduler>>
    BY <1>5 DEF Validated, Exit, AfterLoading
  <2>2. Collected'
    BY <2>1 DEF StartInv, Collected, Settled, FlagsOutrankFile, Wanted
  <2>3. Accepted'
    BY <2>1 DEF StartInv, Accepted, Connected
  <2> QED
    BY <2>2, <2>3 DEF StartInv
<1>6. CASE Build
  <2>1. CASE Exit("error")
    BY <2>1, ExitKeeps
  <2>2. CASE ~Exit("error")
    <3>1. /\ stage = "live" /\ stage' = "built" /\ ~LiveError(settings, invocation)
          /\ scheduler' = [name |-> settings.policy, configured |-> FALSE]
          /\ UNCHANGED <<invocation, settings, policy>>
      BY <1>6, <2>2 DEF Build
    <3>2. Collected'
      BY <3>1 DEF StartInv, Collected, Settled, FlagsOutrankFile, Wanted
    <3>3. \A k \in Keys : settings[k] = Wanted(k)
      BY <3>1 DEF StartInv, Collected, FlagsOutrankFile, Keys
    <3>4. Accepted'
      <4>1. settings.policy = "resilient-urgent" /\ settings.policy \in PolicyNames
        BY <3>1 DEF StartInv, Accepted, PolicyNames
      <4>2. scheduler' \in [name : PolicyNames, configured : BOOLEAN]
        BY <3>1, <4>1
      <4> QED
        BY <3>1, <3>3, <4>1, <4>2 DEF StartInv, Accepted, Connected, Wanted, LiveError
    <3> QED
      BY <3>2, <3>4 DEF StartInv
  <2> QED
    BY <2>1, <2>2
<1>7. CASE Configure
  <2>1. CASE Exit("error")
    BY <2>1, ExitKeeps
  <2>2. CASE ~Exit("error")
    <3>1. /\ stage = "built" /\ stage' = "running"
          /\ scheduler' = [name |-> scheduler.name, configured |-> TRUE]
          /\ UNCHANGED <<invocation, settings, policy>>
      BY <1>7, <2>2 DEF Configure
    <3>2. Collected'
      BY <3>1 DEF StartInv, Collected, Settled, FlagsOutrankFile, Wanted
    <3>3. scheduler.name = "resilient-urgent"
      BY <3>1 DEF StartInv, Accepted
    <3>4. scheduler' = [name |-> "resilient-urgent", configured |-> TRUE]
      BY <3>1, <3>3
    <3>5. /\ ~LiveError(settings, invocation) /\ \A k \in Keys : settings[k] = Wanted(k)
          /\ ~invocation.validateOnly /\ ~invocation.version
          /\ settings.policy = "resilient-urgent" /\ Engine!ValidConfig(policy)
          /\ PolicyFiles[settings.policyConfig].header
      BY <3>1 DEF StartInv, Accepted
    <3>6. /\ ~LiveError(settings, invocation)'
          /\ \A k \in Keys' : settings'[k] = Wanted(k)'
      BY <3>1, <3>5 DEF LiveError, Wanted, Keys
    <3>7. Accepted'
      <4>1. stage' = "running" /\ scheduler'.name = "resilient-urgent"
        BY <3>1, <3>4
      <4>2. ~invocation'.validateOnly /\ ~invocation'.version
        BY <3>1, <3>5
      <4>3. /\ settings'.policy = "resilient-urgent" /\ Engine!ValidConfig(policy')
            /\ PolicyFiles[settings'.policyConfig].header
        BY <3>1, <3>5
      <4>4. scheduler' \in [name : PolicyNames, configured : BOOLEAN]
        BY <3>4 DEF PolicyNames
      <4> QED
        BY <3>6, <4>1, <4>2, <4>3, <4>4 DEF Accepted
    <3> QED
      BY <3>2, <3>7 DEF StartInv
  <2> QED
    BY <2>1, <2>2
<1>8. CASE UNCHANGED vars
  <2>1. UNCHANGED <<invocation, stage, settings, policy, scheduler>>
    BY <1>8 DEF vars
  <2>2. Collected'
    BY <2>1 DEF StartInv, Collected, FlagsOutrankFile, Wanted
  <2>3. Accepted'
    BY <2>1 DEF StartInv, Accepted, Connected, Wanted, LiveError
  <2> QED
    BY <2>2, <2>3 DEF StartInv
<1> QED
  BY <1>1, <1>2, <1>3, <1>4, <1>5, <1>6, <1>7, <1>8 DEF Next

LEMMA StartInvariant == Spec => []StartInv
  BY InitCollected, StartInductive, PTL DEF Spec

\* Settings stay settings when typed fields that they have are replaced.
LEMMA OverrideTyped ==
    ASSUME NEW base \in Settings, NEW over, DOMAIN over \subseteq Keys, Typed(over)
    PROVE  Override(base, over) \in Settings
<1> DEFINE new == Override(base, over)
<1>1. /\ DOMAIN base = Keys
      /\ base.simulate \in BOOLEAN /\ base.noRabbitMQ \in BOOLEAN
      /\ base.username \in Credentials /\ base.password \in Credentials
      /\ base.policy \in PolicyNames /\ base.policyConfig \in DOMAIN PolicyFiles
  BY DEF Settings, Keys, BuiltIn
<1>2. new = [k \in Keys |-> IF k \in DOMAIN over THEN over[k] ELSE base[k]]
  BY <1>1 DEF Override
<1>3. /\ \A k \in {"simulate", "noRabbitMQ"} : k \in DOMAIN over => over[k] \in BOOLEAN
      /\ \A k \in {"username", "password"} : k \in DOMAIN over => over[k] \in Credentials
      /\ "policy" \in DOMAIN over => over["policy"] \in PolicyNames
      /\ "policyConfig" \in DOMAIN over => over["policyConfig"] \in DOMAIN PolicyFiles
  BY DEF Typed
<1>4. /\ new.simulate \in BOOLEAN /\ new.noRabbitMQ \in BOOLEAN
      /\ new.username \in Credentials /\ new.password \in Credentials
      /\ new.policy \in PolicyNames /\ new.policyConfig \in DOMAIN PolicyFiles
  BY <1>1, <1>2, <1>3 DEF Keys, BuiltIn
<1> QED
  BY <1>2, <1>4 DEF Settings, Keys, BuiltIn

\* The types, with what the checks before each stage have left.
TypedInv == StartInv /\ settings \in Settings

LEMMA InitTyped == Init => TypedInv
<1> SUFFICES ASSUME Init PROVE settings \in Settings
  BY InitCollected DEF TypedInv
<1>1. BuiltIn \in Settings
  BY InvocationsAssumption DEF BuiltIn, Settings, Credentials, PolicyNames
<1> QED
  BY <1>1, OverrideTyped, InvocationsAssumption DEF Init, DefaultSettings, Keys

LEMMA TypedInductive == TypedInv /\ [Next]_vars => TypedInv'
<1> SUFFICES ASSUME TypedInv, [Next]_vars PROVE settings' \in Settings
  BY StartInductive DEF TypedInv
<1>1. invocation \in Invocations
  BY DEF TypedInv, StartInv, Collected
<1>2. CASE ParseFlags
  BY <1>1, <1>2, OverrideTyped, InvocationsAssumption
     DEF ParseFlags, Exit, Reapplied, StrictKeys, Keys, TypedInv
<1>3. CASE ReadFile
  <2>1. CASE ~Exit("error")
    <3>1. invocation.config = "there" /\ StrictKeys(invocation.file)
      BY <1>1, <1>3, <2>1, InvocationsAssumption DEF ReadFile, TypedInv, StartInv, Collected
    <3> QED
      BY <1>1, <1>3, <2>1, <3>1, OverrideTyped, InvocationsAssumption
         DEF ReadFile, StrictKeys, Keys, TypedInv
  <2> QED
    BY <2>1 DEF Exit, TypedInv
<1>4. CASE ReapplyFlags
  BY <1>1, <1>4, OverrideTyped, InvocationsAssumption
     DEF ReapplyFlags, Reapplied, StrictKeys, Keys, TypedInv, StartInv, Collected
<1> QED
  BY <1>2, <1>3, <1>4
     DEF Next, LoadPolicy, Validated, Build, Configure, Exit, vars, TypedInv

\* Whatever is given where, the settings stay settings: an unknown field of the flags
\* or the file has led to an error before it could become one.
THEOREM StartTyped == Spec => []TypeOK
<1>1. TypedInv => TypeOK
  BY DEF TypedInv, StartInv, Collected, Accepted, TypeOK, Settled, PolicyNames
<1> QED
  BY <1>1, InitTyped, TypedInductive, PTL DEF Spec

\* Flag, file, environment, default: in this order, for every setting there is.
THEOREM Precedence == Spec => []FlagsOutrankFile
<1>1. StartInv => FlagsOutrankFile
  BY DEF StartInv, Collected
<1> QED
  BY <1>1, StartInvariant, PTL

\* No start that asks for an unsafe way of running gets as far as a scheduler.
THEOREM SafeWhenLive == Spec => []LiveOnlyWhenSafe
<1>1. StartInv => LiveOnlyWhenSafe
  BY DEF StartInv, Accepted, LiveOnlyWhenSafe, LiveError, Keys, BuiltIn
<1> QED
  BY <1>1, StartInvariant, PTL

\* Validating a configuration never leads to a connection.
THEOREM ValidationStops == Spec => []ValidationNeverConnects
<1>1. StartInv => ValidationNeverConnects
  BY DEF StartInv, Accepted, ValidationNeverConnects
<1> QED
  BY <1>1, StartInvariant, PTL

\* The engine is only ever given a configuration that PolicyEngine assumes it has.
THEOREM PolicySound == Spec => []LoadedPolicySound
<1>1. StartInv => LoadedPolicySound
  BY DEF StartInv, Accepted, LoadedPolicySound
<1> QED
  BY <1>1, StartInvariant, PTL

=============================================================================
