--------------------------- MODULE NetworkConfig ----------------------------
(***************************************************************************)
(* Which chain a value belongs to: apps/server/src/network-env.ts and      *)
(* env.ts, lib/http.ts, and apps/web/src/lib/network.ts.                   *)
(*                                                                         *)
(* The environment is a function from the variables that are set to their  *)
(* values.  A variable is a pair of a name and the network of its suffix,  *)
(* BARE where it has none.                                                 *)
(***************************************************************************)
EXTENDS Naturals, Sequences, FiniteSets
LOCAL INSTANCE SequencesExt

CONSTANTS BARE, UNSET, ALIASES

Networks == {"mainnet", "testnet", "devnet", "localnet"}

(* pick: the first that is set of the name and its aliases, with the        *)
(* suffix, then, off mainnet, without.                                      *)
Candidates(key, net) ==
  LET names == <<key>> \o ALIASES[key]
      with(suffix) == [i \in DOMAIN names |-> <<names[i], suffix>>]
  IN  with(net) \o (IF net = "mainnet" THEN <<>> ELSE with(BARE))

PickVariable(env, key, net) ==
  LET isSet == SelectSeq(Candidates(key, net), LAMBDA v : v \in DOMAIN env)
  IN  IF isSet = <<>> THEN {} ELSE {env[isSet[1]]}

(* An id or a url, and what it falls back to.                               *)
Id(env, key, net, testnetDefault) ==
  LET v == PickVariable(env, key, net)
  IN  IF v # {} THEN CHOOSE x \in v : TRUE
      ELSE IF net = "mainnet" THEN UNSET ELSE testnetDefault[key]

(* deployed.json may be missing, and may not say of which network it is.    *)
FlickyPackageId(env, net, deployed) ==
  LET override == PickVariable(env, "FLICKY_PACKAGE", net)
  IN  IF override # {} THEN override
      ELSE UNION {d.packageId : d \in {d \in deployed : d.network = {} \/ d.network = {net}}}

PredictAvailable(env, net, deployed, testnetDefault) ==
  /\ Id(env, "DEEPBOOK_PREDICT_PACKAGE", net, testnetDefault) # UNSET
  /\ FlickyPackageId(env, net, deployed) # {}

KeeperSecretKey(env, net) ==
  LET own == PickVariable(env, "KEEPER_SECRET_KEY", net)
  IN  IF own # {} THEN own ELSE PickVariable(env, "BOT_SECRET_KEY", net)

-----------------------------------------------------------------------------
(* The networks a process serves; a name that is none stops the boot.       *)
EnabledNetworks(default, listed) ==
  IF \E i \in DOMAIN listed : listed[i] \notin Networks THEN {}
  ELSE {IF Contains(listed, default) THEN listed ELSE <<default>> \o listed}

ResolveNetworkParam(default, enabled, raw) ==
  IF raw = {} THEN {default} ELSE raw \cap Networks \cap {enabled[i] : i \in DOMAIN enabled}

-----------------------------------------------------------------------------
(* The web client.  stored: what local storage holds, if it can be read.    *)
FlickyNetworks == {"testnet", "mainnet"}
DEFAULT_NETWORK == "testnet"

AvailableNetworks(listed) ==
  LET parsed == SelectSeq(IF listed = {} THEN <<"testnet", "mainnet">> ELSE CHOOSE s \in listed : TRUE,
                          LAMBDA n : n \in FlickyNetworks)
  IN  IF parsed = <<>> THEN <<DEFAULT_NETWORK>> ELSE parsed

ActiveNetwork(available, stored, fromEnv) ==
  LET offered == stored \cap {available[i] : i \in DOMAIN available}
  IN  CHOOSE n \in (IF offered # {} THEN offered
                    ELSE IF fromEnv \in FlickyNetworks THEN {fromEnv} ELSE {DEFAULT_NETWORK}) : TRUE

(* setNetwork: what the reloaded page runs on, none where none is loaded.   *)
SetNetwork(available, fromEnv, active, next, storageWorks) ==
  IF next = active \/ ~ storageWorks THEN {} ELSE {ActiveNetwork(available, {next}, fromEnv)}
=============================================================================
