------------------------------ MODULE Bootstrap ------------------------------
(***************************************************************************)
(* The bootstrap of a stand (cmd/bootstrap.py, bootstrap/defaults.py): a   *)
(* script that runs at every boot, and in a loop until it gets through.    *)
(* Its steps write rows and files one by one, each in a transaction of its *)
(* own, and a step that finds its first row there is skipped. In between   *)
(* it waits for what services make of the rows.                            *)
(***************************************************************************)
EXTENDS Integers, Sequences

CONSTANTS
    MaxTroubles,    \* bound: errors and reboots
    Torn            \* can trouble come between two writes of one step, or an error when the
                    \* key of a machine pool has been taken out of the spec?

ASSUME BootstrapAssumption == MaxTroubles \in Nat /\ Torn \in BOOLEAN

VARIABLES
    there,      \* rows, files and effects that there are
    at,         \* step of the script, and row of the step; step 0 before the script runs
    keyInSpec,  \* does the spec in memory still have the key of the local agent?
    troubles

bootVars == <<there, at, keyInSpec, troubles>>

\* A step: its rows in order, those that let it be skipped, those without which there is
\* nothing to do, and whether its errors are logged and forgotten.
Step(rows, unless) == [rows |-> rows, unless |-> unless, only |-> {}, lenient |-> FALSE]

\* Elements of an installation without a repository get one.
MigrateToRepo ==
    [Step(<<"launchpad", "migration_repo", "migrated", "public_repo", "proxy_restarted">>,
          {"bootstrap_repo", "migration_repo"}) EXCEPT !.only = {"em_element"}]

\* A config under /etc is brought up to date, then its copy, then what reads it.
AgentConfig == Step(<<"ua_config", "ua_copy", "ua_restarted">>, {"ua_config"})

CoreAgentConfig == Step(<<"ca_config", "ca_copy", "ca_restarted">>, {"ca_config"})

DeveloperKeys == Step(<<"developer_keys">>, {"developer_keys"})

FlatNetwork == Step(<<"network", "main_subnet", "boot_subnet">>, {"network"})

MachinePools == Step(<<"pool", "agent_key">>, {"pool"})

InitSecrets == Step(<<"client", "admin">>, {"client"})

CoreSet == Step(<<"core_set", "set_resource", "core_node", "node_resource", "port">>, {"core_set"})

CliConfig == Step(<<"cli_config">>, {})

CorsConfig == Step(<<"cors", "cors_copy", "api_restarted">>, {"cors"})

InstallCore ==
    Step(<<"bootstrap_repo", "repo_active", "core_available", "core_requested">>,
         {"migration_repo", "core_requested"})

InstallRealm ==
    Step(<<"bootstrap_repo", "repo_active", "realm_available", "realm_requested">>,
         {"migration_repo", "realm_requested"})

SpecRepositories == [Step(<<"spec_repo", "spec_repo_active">>, {}) EXCEPT !.lenient = TRUE]

EnsureIdps == [Step(<<"idp_client", "idp">>, {"idp"}) EXCEPT !.lenient = TRUE]

\* Values of variables, each written once its variable is there.
Profile == <<"profile", "active_profile">>

CoreAddress == <<"variable", "core_ip">>

DiskSizes == <<"variable", "disk_sizes">>

Ecosystem == <<"variable", "endpoint", "telemetry">>

Realm == <<"variable", "realm", "realm_secret">>

RealmTokens == <<"variable", "access_token", "refresh_token">>

SigningKey == <<"variable", "jwks_key">>

DefaultClient == <<"variable", "default_client">>

DefaultValues ==
    Step(Profile \o CoreAddress \o DiskSizes \o Ecosystem \o Realm \o RealmTokens \o SigningKey
            \o DefaultClient, {})

ValueRows == {"core_ip", "disk_sizes", "endpoint", "telemetry", "realm", "realm_secret",
              "access_token", "refresh_token", "jwks_key", "default_client"}

InstallFromSpec == Step(<<"listed", "requested">>, {"requested"})

ScriptSwapped ==
    <<MigrateToRepo, AgentConfig, CoreAgentConfig, DeveloperKeys, FlatNetwork, MachinePools,
      InitSecrets, CoreSet, CliConfig, CorsConfig, DefaultValues, InstallCore, InstallRealm,
      SpecRepositories, EnsureIdps, InstallFromSpec>>

\* main. The steps from the fifth are repeated until none fails.
Script ==
    <<MigrateToRepo, AgentConfig, CoreAgentConfig, DeveloperKeys, FlatNetwork, MachinePools,
      InitSecrets, CoreSet, CliConfig, CorsConfig, InstallCore, InstallRealm,
      SpecRepositories, EnsureIdps, DefaultValues, InstallFromSpec>>

LoopStart == 5

Files == {"cli_config", "cors", "cors_copy", "launchpad", "ua_config", "ua_copy", "ca_config",
          "ca_copy"}

CheckedLess == {"bootstrap_repo", "spec_repo", "idp_client", "active_profile"} \union Files

\* Rows that are looked up before they are written, and files, which are overwritten.
Checked ==
    {"bootstrap_repo", "spec_repo", "idp_client", "active_profile"} \union ValueRows \union Files

\* What services make, and of what: repositories become active and list their elements, the
\* core element brings profiles and variables.
MadeOf ==
    [repo_active |-> "bootstrap_repo", core_available |-> "repo_active",
     realm_available |-> "repo_active", em_element |-> "core_requested",
     profile |-> "em_element", variable |-> "em_element",
     spec_repo_active |-> "spec_repo", listed |-> "spec_repo_active"]

AllRows == UNION {{s.rows[k] : k \in 1 .. Len(s.rows)} : s \in {Script[j] : j \in 1 .. Len(Script)}}

Done == Len(Script) + 1

BootstrapTypeOK ==
    /\ there \subseteq AllRows \union DOMAIN MadeOf \union {"other_key", "clash"}
    /\ at \in [step : 0 .. Done, row : 1 .. 1 + Len(DefaultValues.rows)]
    /\ keyInSpec \in BOOLEAN
    /\ troubles \in 0 .. MaxTroubles

\* A new stand, or one with elements and no repository.
BootstrapInit ==
    /\ there \in {{}, {"em_element"}}
    /\ at = [step |-> 0, row |-> 1]
    /\ keyInSpec = TRUE /\ troubles = 0

-----------------------------------------------------------------------------
Running == at.step \in 1 .. Len(Script)

Now == Script[at.step]

ThisRow == Now.rows[at.row]

NextStep == [step |-> at.step + 1, row |-> 1]

Boot ==
    /\ at.step = 0
    /\ at' = [step |-> 1, row |-> 1] /\ keyInSpec' = TRUE
    /\ UNCHANGED <<there, troubles>>

Skipped ==
    /\ at.row = 1
    /\ \/ Now.unless \intersect there # {}
       \/ Now.only # {} /\ Now.only \intersect there = {}

SkipStep ==
    /\ Running /\ Skipped
    /\ at' = NextStep
    /\ UNCHANGED <<there, keyInSpec, troubles>>

\* A port refers to its subnet.
Possible == ThisRow = "port" => "main_subnet" \in there

\* A row that is there already, and was not looked up, clashes. The key is taken out of the
\* spec before the pool is written.
WriteRow ==
    /\ Running /\ ~ Skipped /\ at.row <= Len(Now.rows) /\ ThisRow \notin DOMAIN MadeOf /\ Possible
    /\ there' = there \union
          {IF ThisRow = "agent_key" /\ ~ keyInSpec THEN "other_key"
           ELSE IF ThisRow \in there \ Checked THEN "clash" ELSE ThisRow}
    /\ at' = [at EXCEPT !.row = @ + 1]
    /\ UNCHANGED <<keyInSpec, troubles>>

WaitForRow ==
    /\ Running /\ ~ Skipped /\ at.row <= Len(Now.rows) /\ ThisRow \in DOMAIN MadeOf
    /\ ThisRow \in there
    /\ at' = [at EXCEPT !.row = @ + 1]
    /\ UNCHANGED <<there, keyInSpec, troubles>>

EndStep ==
    /\ Running /\ ~ Skipped /\ at.row > Len(Now.rows)
    /\ at' = NextStep
    /\ UNCHANGED <<there, keyInSpec, troubles>>

Provide(x) ==
    /\ x \notin there /\ MadeOf[x] \in there
    /\ there' = there \union {x}
    /\ UNCHANGED <<at, keyInSpec, troubles>>

\* Trouble makes the loop start again; before the loop it ends the script, and in a lenient
\* step it is logged.
GoBack ==
    /\ at' = IF Now.lenient THEN NextStep
             ELSE IF at.step >= LoopStart THEN [step |-> LoopStart, row |-> 1]
             ELSE [step |-> 0, row |-> 1]
    /\ keyInSpec' = (keyInSpec /\ ThisRow # "pool")
    /\ UNCHANGED there

\* A wait takes too long, or a row cannot be written for want of another.
GiveUp ==
    /\ Running /\ ~ Skipped /\ at.row <= Len(Now.rows)
    /\ ThisRow \in DOMAIN MadeOf \ there \/ ~ Possible
    /\ GoBack
    /\ UNCHANGED troubles

Fail ==
    /\ Running /\ ~ Skipped /\ at.row <= Len(Now.rows)
    /\ troubles < MaxTroubles /\ troubles' = troubles + 1
    /\ Torn \/ (at.row = 1 /\ ThisRow # "pool")
    /\ GoBack

\* Files under /etc come back from their copies, and what reads them starts with them.
Restored(rows) ==
    (rows \ {"ua_config", "ua_restarted", "ca_config", "ca_restarted", "cors", "api_restarted"})
        \union (IF "ua_copy" \in rows THEN {"ua_config", "ua_restarted"} ELSE {})
        \union (IF "ca_copy" \in rows THEN {"ca_config", "ca_restarted"} ELSE {})
        \union (IF "cors_copy" \in rows THEN {"cors", "api_restarted"} ELSE {})

\* Bootstrap runs at every boot.
Reboot ==
    /\ troubles < MaxTroubles /\ troubles' = troubles + 1
    /\ Torn \/ ~ Running \/ at.row = 1
    /\ there' = Restored(there)
    /\ at' = [step |-> 0, row |-> 1] /\ keyInSpec' = TRUE

BootstrapNext ==
    \/ Boot \/ SkipStep \/ WriteRow \/ WaitForRow \/ EndStep
    \/ GiveUp \/ Fail \/ Reboot
    \/ \E x \in DOMAIN MadeOf : Provide(x)

\* The script goes on, no wait is endless, and services do their work.
BootstrapFairness ==
    /\ WF_bootVars(Boot \/ SkipStep \/ WriteRow \/ WaitForRow \/ EndStep)
    /\ WF_bootVars(GiveUp)
    /\ \A x \in DOMAIN MadeOf : WF_bootVars(Provide(x))

BootstrapSpec == BootstrapInit /\ [][BootstrapNext]_bootVars /\ BootstrapFairness

-----------------------------------------------------------------------------
\* What a stand must have: rows of steps that are skipped for its kind excepted, and those
\* of lenient steps.
Needed ==
    AllRows \ ({"idp", "idp_client"}
            \union IF "migration_repo" \in there
                   THEN {"bootstrap_repo", "repo_active", "core_available", "core_requested",
                         "realm_available", "realm_requested"}
                   ELSE {"launchpad", "migration_repo", "migrated", "public_repo",
                         "proxy_restarted"})

\* A bootstrap that got through has made everything, and nothing twice, however often it
\* was tried before: its steps are idempotent (apply_flat_network, apply_startup_db,
\* init_secrets, add_core_set, _migrate_installed_elements_to_repo).
ThroughMeansComplete ==
    /\ at.step = Done => Needed \subseteq there
    /\ "clash" \notin there

\* The bootstrap gets through and stays so, with its order of steps: what a step waits for
\* comes from what the steps before it have asked for (main).
BootstrapEnds == <>[](at.step = Done /\ Needed \subseteq there)
=============================================================================
