------------------------------ MODULE Startup ------------------------------
(***************************************************************************)
(* How the waggle-nodescheduler binary starts: run of main.go, with        *)
(* LoadConfig of pkg/policy.  Settings come from defaults, environment,    *)
(* flags and a YAML file; the policy configuration from a file of its own. *)
(* Nothing may reach SAGE before all of them have been accepted.           *)
(*                                                                         *)
(* The settings are those that decide whether the program goes live; the   *)
(* others (node name, kubeconfig, URIs, debug) take the same way.  Numbers *)
(* of the policy are those of PolicyEngine: durations in seconds, rates    *)
(* and weights in percent.                                                 *)
(***************************************************************************)
EXTENDS Integers

CONSTANTS
    Invocations,   \* how the program may be started
    PolicyFiles,   \* what is found at each path of a policy configuration
    MaxDuration,
    Nil

VARIABLES
    invocation,   \* flags, environment and YAML file of this start
    stage,        \* where run is
    settings,     \* runtimeConfig
    policy,       \* the policy configuration loaded, Nil if none
    scheduler     \* the NodeScheduler built, Nil if none

vars == <<invocation, stage, settings, policy, scheduler>>

-----------------------------------------------------------------------------
(* Settings.                                                                 *)

\* The fields of base, each replaced if over has it; a further one is added.
Override(base, over) ==
    [k \in DOMAIN base \cup DOMAIN over |-> IF k \in DOMAIN over THEN over[k] ELSE base[k]]

\* defaultRuntimeConfig without its environment, and the defaults of the flags.
BuiltIn == [simulate |-> FALSE, noRabbitMQ |-> FALSE, username |-> "service",
            password |-> "service", policy |-> "resilient-urgent",
            policyConfig |-> "example"]

\* "" stands for a blank one.
Credentials == {"", "service", "secret"}

PolicyNames == {"resilient-urgent", "default"}

Settings == [simulate : BOOLEAN, noRabbitMQ : BOOLEAN, username : Credentials,
             password : Credentials, policy : PolicyNames, policyConfig : DOMAIN PolicyFiles]

\* The flags, the environment and the fields of runtimeConfig are typed.
Typed(given) ==
    \A k \in DOMAIN given :
        CASE k \in {"simulate", "noRabbitMQ"} -> given[k] \in BOOLEAN
          [] k \in {"username", "password"}   -> given[k] \in Credentials
          [] k = "policy"                     -> given[k] \in PolicyNames
          [] k = "policyConfig"               -> given[k] \in DOMAIN PolicyFiles
          [] OTHER                            -> TRUE

ASSUME InvocationsAssumption ==
    /\ "example" \in DOMAIN PolicyFiles
    /\ \A i \in Invocations :
         /\ i.config \in {"none", "missing", "there"}
         /\ DOMAIN i.environment \subseteq DOMAIN BuiltIn
         /\ Typed(i.flags) /\ Typed(i.environment)
         /\ i.config = "there" => Typed(i.file)

\* A variable of the environment that is set counts, even if it is empty.
DefaultSettings(i) == Override(BuiltIn, i.environment)

\* Mutant of Reapplied: only the flags that differ from their default are set again.
ReappliedIfChanged(current, i) ==
    [k \in DOMAIN current |->
        IF k \in DOMAIN i.flags /\ i.flags[k] # DefaultSettings(i)[k] THEN i.flags[k]
        ELSE current[k]]

\* Every flag that was given on the command line is set again.
Reapplied(current, i) == Override(current, i.flags)

\* Mutant of StrictKeys: fields that no setting has are let through.
StrictKeysLoose(fields) == TRUE

\* yaml.UnmarshalStrict accepts no field that the settings do not have.
StrictKeys(fields) == DOMAIN fields \subseteq DOMAIN BuiltIn

\* Mutant of LiveError: a user name or a password is enough.
LiveErrorUnlessOne(current, i) ==
    \/ current.noRabbitMQ \/ current.simulate
    \/ current.username = "" /\ current.password = ""
    \/ current.username = "service" /\ current.password = "service" /\ ~i.allowDefaults

\* validateLiveConfig
LiveError(current, i) ==
    \/ current.noRabbitMQ \/ current.simulate
    \/ current.username = "" \/ current.password = ""
    \/ current.username = "service" /\ current.password = "service" /\ ~i.allowDefaults

-----------------------------------------------------------------------------
(* The policy configuration.                                                 *)

DefaultConfig ==
    [maxConcurrent |-> 1, maxGPU |-> 1, defaultPriority |-> 0, defaultEstimated |-> 30,
     defaultLatency |-> 300, agingHorizon |-> 600, slackHorizon |-> 300,
     defaultSuccess |-> 100, minimumSuccess |-> 0, weightPriority |-> 45,
     weightSlack |-> 30, weightAge |-> 15, weightReliability |-> 10,
     trustHints |-> FALSE, enforceFit |-> FALSE, failOpen |-> TRUE]

Engine == INSTANCE PolicyEngine WITH Config <- DefaultConfig, ScoreTolerance <- 1

ASSUME DefaultsAssumption == Engine!ValidConfig(DefaultConfig)

\* Mutant of LoadError: the result is not validated.
LoadErrorUnvalidated(file) ==
    \/ file = Nil
    \/ file.documents # 1
    \/ ~(DOMAIN file.fields \subseteq DOMAIN DefaultConfig)
    \/ ~file.header

\* What LoadConfig refuses: a file that is missing, does not hold exactly one
\* document, has an unknown field or not the schema header (apiVersion and kind
\* have no default here), or makes a configuration that Validate rejects.
LoadError(file) ==
    \/ file = Nil
    \/ file.documents # 1
    \/ ~(DOMAIN file.fields \subseteq DOMAIN DefaultConfig)
    \/ ~file.header
    \/ ~Engine!ValidConfig(Override(DefaultConfig, file.fields))

-----------------------------------------------------------------------------
(* run                                                                       *)

Init ==
    /\ invocation \in Invocations
    /\ stage = "start"
    /\ settings = DefaultSettings(invocation)
    /\ policy = Nil
    /\ scheduler = Nil

\* return err, or nil
Exit(how) == /\ stage' = how
             /\ UNCHANGED <<invocation, settings, policy, scheduler>>

ParseFlags ==
    /\ stage = "start"
    /\ IF ~StrictKeys(invocation.flags) THEN Exit("error")
       ELSE /\ settings' = Reapplied(settings, invocation)
            /\ stage' = IF invocation.version THEN "version"
                        ELSE IF invocation.config = "none" THEN "configured" ELSE "reading"
            /\ UNCHANGED <<invocation, policy, scheduler>>

ReadFile ==
    /\ stage = "reading"
    /\ IF invocation.config = "missing" \/ ~StrictKeys(invocation.file) THEN Exit("error")
       ELSE /\ settings' = Override(settings, invocation.file)
            /\ stage' = "read"
            /\ UNCHANGED <<invocation, policy, scheduler>>

ReapplyFlags ==
    /\ stage = "read"
    /\ settings' = Reapplied(settings, invocation)
    /\ stage' = "configured"
    /\ UNCHANGED <<invocation, policy, scheduler>>

LoadPolicy ==
    /\ stage = "configured"
    /\ LET file == PolicyFiles[settings.policyConfig]
       IN  IF settings.policy # "resilient-urgent" \/ LoadError(file) THEN Exit("error")
           ELSE /\ policy' = Override(DefaultConfig, file.fields)
                /\ stage' = "loaded"
                /\ UNCHANGED <<invocation, settings, scheduler>>

\* Mutant of AfterLoading: the early exit is left out.
AfterLoadingLive(i) == "live"

\* -validate-config stops here.
AfterLoading(i) == IF i.validateOnly THEN "valid" ELSE "live"

Validated ==
    /\ stage = "loaded"
    /\ Exit(AfterLoading(invocation))

\* The builder is given a policy name that it knows; the name the operator sees and
\* the adapter are put in their places afterwards.  adapter.New validates again.
Build ==
    /\ stage = "live"
    /\ IF LiveError(settings, invocation) \/ ~Engine!ValidConfig(policy) THEN Exit("error")
       ELSE /\ scheduler' = [name |-> settings.policy, configured |-> FALSE]
            /\ stage' = "built"
            /\ UNCHANGED <<invocation, settings, policy>>

\* Configure connects, or fails.
Configure ==
    /\ stage = "built"
    /\ \/ Exit("error")
       \/ /\ scheduler' = [name |-> scheduler.name, configured |-> TRUE]
          /\ stage' = "running"
          /\ UNCHANGED <<invocation, settings, policy>>

Next == \/ ParseFlags \/ ReadFile \/ ReapplyFlags \/ LoadPolicy \/ Validated \/ Build
        \/ Configure

Spec == Init /\ [][Next]_vars

-----------------------------------------------------------------------------
(* What a start promises.                                                    *)

Connected == scheduler # Nil

\* Every variable keeps its type: no field that is unknown gets into the settings.
TypeOK ==
    /\ invocation \in Invocations
    /\ stage \in {"start", "reading", "read", "configured", "loaded", "live", "built",
                  "running", "version", "valid", "error"}
    /\ settings \in Settings
    /\ Connected => scheduler \in [name : PolicyNames, configured : BOOLEAN]

\* What the operator asked for, by the place that says it with most authority.
Wanted(k) ==
    IF k \in DOMAIN invocation.flags THEN invocation.flags[k]
    ELSE IF invocation.config = "there" /\ k \in DOMAIN invocation.file THEN invocation.file[k]
    ELSE IF k \in DOMAIN invocation.environment THEN invocation.environment[k]
    ELSE BuiltIn[k]

\* "Explicitly supplied flags win over values loaded from the configuration file",
\* which win over the environment and the defaults: so they do for every setting
\* by the time one is used, though the flags are parsed first, and though a flag
\* may say just what its default says.
FlagsOutrankFile ==
    stage \in {"configured", "loaded", "live", "built", "running", "valid"} =>
        \A k \in DOMAIN BuiltIn : settings[k] = Wanted(k)

\* Nothing is built to connect to SAGE in the modes that the NodeScheduler does not
\* implement safely, without credentials, with the inherited ones that nobody
\* acknowledged, or under another policy's name, wherever the settings come from.
LiveOnlyWhenSafe ==
    Connected =>
        /\ ~Wanted("simulate") /\ ~Wanted("noRabbitMQ")
        /\ Wanted("username") # "" /\ Wanted("password") # ""
        /\ {Wanted("username"), Wanted("password")} = {"service"} => invocation.allowDefaults
        /\ Wanted("policy") = "resilient-urgent" /\ scheduler.name = "resilient-urgent"

\* -validate-config "exits before SAGE configuration", and -version before that.
ValidationNeverConnects == invocation.validateOnly \/ invocation.version => ~Connected

\* What is called valid, and what the engine is built from, is a configuration that
\* the engine accepts, from a file that states its schema: what PolicyEngine assumes
\* of its Config, and that -validate-config accepts nothing the engine refuses.
LoadedPolicySound ==
    stage \in {"valid", "live", "built", "running"} =>
        /\ Engine!ValidConfig(policy)
        /\ PolicyFiles[settings.policyConfig].header

=============================================================================
