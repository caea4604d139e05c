---------------------------- MODULE ProverConfig ----------------------------
(***************************************************************************)
(* The prover's configuration from the environment (sp1_prover_config.rs)  *)
(* and what a job makes of it: the whitelist extended by what the prover   *)
(* network answers, and the proof request sent (sp1_prover.rs).            *)
(*                                                                         *)
(* A variable of the environment is "missing", "invalid" or holds one of   *)
(* its choices; "given" stands for any value that parses, "default" for    *)
(* the value of the SDK_ constant used instead.                            *)
(***************************************************************************)
EXTENDS Naturals, Sequences

CONSTANTS
  Envs,         \* the environments
  Provers,      \* the addresses of provers
  Configured,   \* the addresses listed in SP1_WHITELIST when it is given
  FetchedLists  \* what the prover network may answer, sequences of addresses

(* A string split at its commas has at least one part.                     *)
ASSUME ConfigAssumption ==
  /\ Configured \in Seq(Provers) /\ Configured # <<>>
  /\ FetchedLists \subseteq Seq(Provers)

VARIABLES
  env, phase,
  config,     \* as loaded
  extended,   \* the whitelist a job extends, None or <<list>>
  fetched,    \* history: the addresses fetched for the job
  request     \* the proof request sent

configVars == <<env, phase, config, extended, fetched, request>>

None == <<>>
Some(x) == <<x>>
Nothing == [mode |-> "none"]

Given(name) == env[name] # "missing"

(* What env::var and parse make of an optional setting.                    *)
OrDefault(name, default) == IF Given(name) THEN env[name] ELSE default

Flag(name) == env[name] = "true"

-----------------------------------------------------------------------------
(* ProverConfig::from_env.                                                 *)

ProofTypeValid == env.proof_type \in {"plonk", "groth16"}

ProverValid == env.prover \in {"mock", "cpu", "cuda", "network"}

NetworkModeOf == OrDefault("network_mode", "mainnet")

AccessValid ==
  /\ NetworkModeOf \in {"mainnet", "reserved"}
  /\ Given("private_key") /\ env.private_key # "invalid"
  /\ env.rpc_url # "invalid"

(* The auction timeout is read only when the strategy is given: for the    *)
(* auction taken by default on mainnet, SP1_AUCTION_TIMEOUT_SECS is        *)
(* ignored, although README.md says it is used when the strategy is        *)
(* `auction`.                                                              *)
FulfillmentValid ==
  /\ env.min_auction_period # "invalid"
  /\ env.fulfillment_strategy \in {"missing", "auction", "hosted", "reserved"}
  /\ env.fulfillment_strategy = "auction" => env.auction_timeout # "invalid"

Fulfillment ==
  LET strategy == OrDefault("fulfillment_strategy",
                            IF NetworkModeOf = "mainnet" THEN "auction" ELSE "reserved")
  IN  IF strategy # "auction" THEN [strategy |-> strategy]
      ELSE [strategy           |-> "auction",
            timeout            |-> IF Given("fulfillment_strategy")
                                     THEN OrDefault("auction_timeout", "default") ELSE "default",
            min_auction_period |-> OrDefault("min_auction_period", "default")]

PriceAndTimeoutValid ==
  \A name \in {"max_price_per_pgu", "timeout"} : env[name] # "invalid"

LimitsValid ==
  /\ env.skip_simulation \in {"missing", "true", "false"}
  /\ \A name \in {"cycle_limit", "gas_limit"} : env[name] # "invalid"

(* A limit is optional, unless the simulation that would find it is        *)
(* skipped.                                                                *)
Limit(name) ==
  IF Given(name) THEN Some(env[name])
  ELSE IF Flag("skip_simulation") THEN Some("default") ELSE None

(* Only with a whitelist are the extension flags read; a mutant reads them *)
(* in any case.                                                            *)
FlagAlwaysRead(name) == Flag(name)

Extension(name) == Given("whitelist") /\ Flag(name)

WhitelistValid ==
  /\ env.whitelist # "invalid"
  /\ Given("whitelist") => \A name \in {"add_high_availability", "add_default"} :
                             env[name] \in {"missing", "true", "false"}
  /\ env.whitelist_open \in {"missing", "true", "false"}
  /\ ~(Flag("whitelist_open") /\ Given("whitelist"))

Whitelist ==
  IF Flag("whitelist_open") THEN Some(<<>>)
  ELSE IF Given("whitelist") THEN Some(Configured) ELSE None

NetworkConfig ==
  [mode |-> "network", proof_type |-> env.proof_type,
   network_mode |-> NetworkModeOf,
   rpc_url |-> OrDefault("rpc_url", NetworkModeOf),
   fulfillment |-> Fulfillment,
   max_price_per_pgu |-> OrDefault("max_price_per_pgu", "default"),
   timeout |-> OrDefault("timeout", "default"),
   skip_simulation |-> Flag("skip_simulation"),
   cycle_limit |-> Limit("cycle_limit"), gas_limit |-> Limit("gas_limit"),
   whitelist |-> Whitelist,
   add_high_availability |-> Extension("add_high_availability"),
   add_default |-> Extension("add_default")]

EnvValid ==
  /\ ProofTypeValid /\ ProverValid
  /\ env.prover = "network" =>
       AccessValid /\ FulfillmentValid /\ PriceAndTimeoutValid /\ LimitsValid /\ WhitelistValid

ConfigInit ==
  /\ env \in Envs
  /\ phase = "start"
  /\ config = Nothing /\ request = Nothing
  /\ extended = None /\ fetched = {}

FromEnv ==
  /\ phase = "start"
  /\ IF EnvValid
       THEN /\ phase' = "loaded"
            /\ config' = IF env.prover = "network" THEN NetworkConfig
                         ELSE [mode |-> env.prover, proof_type |-> env.proof_type]
       ELSE phase' = "refused" /\ UNCHANGED config
  /\ UNCHANGED <<env, extended, fetched, request>>

-----------------------------------------------------------------------------
(* finality_update_job.                                                    *)

StartJob ==
  /\ phase = "loaded"
  /\ phase' = "high_availability"
  /\ fetched' = {}
  /\ extended' = IF config.mode = "network" /\ (config.add_high_availability \/ config.add_default)
                   THEN Some(IF config.whitelist = None THEN <<>> ELSE config.whitelist[1])
                   ELSE None
  /\ UNCHANGED <<env, config, request>>

(* append_unique; a mutant appends all that was fetched.                   *)
AppendAll(list, answer) == list \o answer

AddUnique(list, p) == IF \E j \in 1 .. Len(list) : list[j] = p THEN list ELSE Append(list, p)

AppendUnique(list, answer) ==
  LET appended[k \in 0 .. Len(answer)] ==
        IF k = 0 THEN list ELSE AddUnique(appended[k - 1], answer[k])
  IN  appended[Len(answer)]

(* One extension: its answer appended, skipped when the fetch fails or the *)
(* flag is not set.                                                        *)
Extend(from, flag, to) ==
  /\ phase = from
  /\ phase' = to
  /\ \/ /\ extended # None /\ config[flag]
        /\ \E answer \in FetchedLists :
             /\ extended' = Some(AppendUnique(extended[1], answer))
             /\ fetched' = fetched \cup {answer[j] : j \in 1 .. Len(answer)}
     \/ UNCHANGED <<extended, fetched>>
  /\ UNCHANGED <<env, config, request>>

FetchHighAvailability == Extend("high_availability", "add_high_availability", "default_pool")

FetchDefault == Extend("default_pool", "add_default", "proving")

(* generate_proof; afterwards the worker is ready for the next job.        *)
GenerateProof ==
  /\ phase = "proving"
  /\ phase' = "loaded"
  /\ request' = IF config.mode # "network" THEN [mode |-> config.mode, proof_type |-> config.proof_type]
                ELSE [mode |-> "network", proof_type |-> config.proof_type,
                      fulfillment |-> config.fulfillment,
                      max_price_per_pgu |-> config.max_price_per_pgu,
                      timeout |-> config.timeout,
                      skip_simulation |-> config.skip_simulation,
                      cycle_limit |-> config.cycle_limit, gas_limit |-> config.gas_limit,
                      whitelist |-> IF extended # None THEN extended ELSE config.whitelist]
  /\ UNCHANGED <<env, config, extended, fetched>>

ConfigNext == FromEnv \/ StartJob \/ FetchHighAvailability \/ FetchDefault \/ GenerateProof

ConfigSpec == ConfigInit /\ [][ConfigNext]_configVars

-----------------------------------------------------------------------------

Sent == request.mode = "network"

ConfigTypeOK ==
  /\ env \in Envs
  /\ phase \in {"start", "refused", "loaded", "high_availability", "default_pool", "proving"}
  /\ config.mode \in {"none", "mock", "cpu", "cuda", "network"}
  /\ (phase \in {"start", "refused"}) <=> (config = Nothing)
  /\ Len(extended) <= 1
  /\ config.mode = "network" =>
       /\ config.fulfillment.strategy \in {"auction", "hosted", "reserved"}
       /\ Len(config.whitelist) <= 1

(* The empty list, which lets any prover take part, is sent only when      *)
(* SP1_WHITELIST_OPEN asked for it: neither an extension flag without a    *)
(* whitelist to extend nor fetches that fail produce it.                   *)
OpenOnlyWhenAsked ==
  Sent /\ request.whitelist = Some(<<>>) => Flag("whitelist_open")

ExtendsConfigured(list, added) ==
  LET n == Len(Configured)
  IN  /\ n <= Len(list) /\ SubSeq(list, 1, n) = Configured
      /\ \A j \in n + 1 .. Len(list) :
           list[j] \in added /\ \A k \in 1 .. j - 1 : list[k] # list[j]

(* The whitelist sent starts with the configured addresses in their order; *)
(* what follows was fetched for this job, each address once.               *)
WhitelistOnlyExtended ==
  Sent /\ phase = "loaded" /\ Given("whitelist") =>
    ExtendsConfigured(request.whitelist[1], fetched)

=============================================================================
