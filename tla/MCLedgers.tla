----------------------------- MODULE MCLedgers ------------------------------
(* What runs on Radiant, each by itself: dMint contracts and their         *)
(* claimers, the token commands of the wallet, SPV trades, and the         *)
(* covenant leg of a swap. The modules it EXTENDS keep a first state while *)
(* another runs; any other variable the component that runs does not have  *)
(* is 0.                                                                   *)
EXTENDS SpvTrade, Tokens, Dmint, TLC

VARIABLES
  component,
  terms, cov, gate, radiant_chain, radiant_pool, party, radiant_reorgs

radiant_vars == <<terms, cov, gate, radiant_chain, radiant_pool, party, radiant_reorgs>>
mcVars == <<component, dmintVars, tokensVars, tradeVars, radiant_vars>>

(* Parameters of a dMint deploy: mode, ASERT version, half life, epoch     *)
(* length, log2 of the largest step, schedule, first target, last height.  *)
Params(v1, mode, version, half, epoch, schedule, target, max) ==
  [v1 |-> v1, mode |-> mode, asertVersion |-> version, halfLife |-> half, epochLength |-> epoch,
   log2 |-> 1, schedule |-> schedule, target |-> target, targetTime |-> 2, maxHeight |-> max,
   reward |-> 1, carrier |-> 1]
Points == << <<1, 50>>, <<2, 9>> >>
MCDeploys ==
  {Params(TRUE, "FIXED", 2, 2, 1, <<>>, 100, 2), Params(FALSE, "FIXED", 2, 2, 1, <<>>, 100, 3),
   Params(FALSE, "ASERT", 2, 3, 1, <<>>, 31, 4), Params(FALSE, "ASERT", 1, 3, 1, <<>>, 40, 4),
   Params(FALSE, "LWMA", 2, 2, 1, <<>>, 100, 4), Params(FALSE, "EPOCH", 2, 2, 2, <<>>, 8, 4),
   Params(FALSE, "SCHEDULE", 2, 2, 1, Points, 100, 4),
   [Params(TRUE, "FIXED", 2, 2, 1, <<>>, 100, 2) EXCEPT !.carrier = 2],
   [Params(FALSE, "FIXED", 2, 2, 1, <<>>, 100, 2) EXCEPT !.carrier = 2]}
MCGiven ==
  {[halfLife |-> 3, epochLength |-> 2, log2 |-> 1, schedule |-> Points],
   [halfLife |-> 2, epochLength |-> 1, log2 |-> 2, schedule |-> <<>>]}
MCCoins ==
  [c \in {"p", "q", "r", "t", "u"} |->
     [value |-> IF c \in {"t", "u"} THEN 9 ELSE 8, token |-> c = "t", confirmed |-> c # "u"]]

Meta(protocol) == [protocol |-> protocol, bytes |-> 2, version |-> FALSE]
MCMetas ==
  ("nft" :> Meta({"NFT"})) @@ ("ft" :> Meta({"FT"})) @@ ("mint" :> Meta({"FT", "DMINT"}))
    @@ ("box" :> Meta({"NFT", "CONTAINER"}))

MCGenesis ==
  <<[lock |-> [kind |-> "p2pkh", owner |-> "a", refs |-> {}, payload |-> "none"], value |-> 30],
    [lock |-> [kind |-> "nft", owner |-> "b", refs |-> {<< <<0, 1>>, "single">>},
               payload |-> "none"], value |-> 14]>>

MCPayments ==
  (1 :> [hash |-> 5, sats |-> 2, ins |-> 1, sig |-> 0, pos |-> 1])
    @@ (2 :> [hash |-> 1, sats |-> 2, ins |-> 1, sig |-> 23, pos |-> 1])

(* One bundled covenant pins both difficulties and one a single one; the   *)
(* third is of another kind of swap, the last is on the deny-list.         *)
MCArtifacts ==
  LET flat == {"btcReceiveHash", "btcSatoshis", "expectedNBits", "totalPhotonsInOutput",
               "claimDeadline"}
  IN  ("unified" :> [ctor |-> flat \cup {"expectedNBitsNext"}, banned |-> FALSE])
        @@ ("flat_6x12" :> [ctor |-> flat, banned |-> FALSE])
        @@ ("htlc" :> [ctor |-> {"hashlock"}, banned |-> FALSE])
        @@ ("stub" :> [ctor |-> flat, banned |-> TRUE])

(* Two requests that are good, one with a hash of the maker's and one with *)
(* the derived hash; the others are each refused for one thing.            *)
MCRequests ==
  LET ask(h, price, next, name) ==
        [hash |-> h, price |-> price, next |-> next, artifact |-> name]
  IN  {ask(5, 2, 2, "unified"), ask(0, 2, 2, "flat_6x12"), ask(5, 0, 2, "unified"),
       ask(0, 2, 0, "unified"), ask(0, 2, 2, "htlc"), ask(5, 2, 2, "stub")}

(* The lowest difficulty, the anchor's and the one after the retarget.     *)
MCNbits == (0 :> [exp |-> 4, man |-> 255]) @@ (1 :> [exp |-> 4, man |-> 2])
             @@ (2 :> [exp |-> 3, man |-> 300])

(* The first state of a component that does not run.                       *)
MCDeploy == CHOOSE d \in Deploys : DeployParamsOk(d)

R == INSTANCE RadiantLeg WITH
       chain <- radiant_chain, pool <- radiant_pool, reorgs <- radiant_reorgs,
       MaxCsv <- 5, DustFloor <- 2, Amounts <- {17}, Csvs <- {2}, MinConfs <- 1,
       MinRefConfs <- 1, FeeValues <- <<3, 1>>, MaxBlocks <- 3, MaxReorgs <- 1,
       MaxFundings <- 2, MaxTries <- 2

(* A component that does not run.                                         *)
NoDmint == deploy = MCDeploy /\ DmintInit
NoTokens == TokensInit
NoSpvTrade == script = FALSE /\ TradeInit
NoRadiantLeg ==
  /\ terms = 0 /\ cov = 0 /\ gate = 0 /\ radiant_chain = 0 /\ radiant_pool = 0
  /\ party = 0 /\ radiant_reorgs = 0

MCInit ==
  \/ /\ component = "dmint" /\ DmintInit
     /\ NoTokens /\ NoSpvTrade /\ NoRadiantLeg
  \/ /\ component = "tokens" /\ TokensInit
     /\ NoDmint /\ NoSpvTrade /\ NoRadiantLeg
  \/ /\ component = "spv" /\ TradeInit
     /\ NoDmint /\ NoTokens /\ NoRadiantLeg
  \/ /\ component = "radiant" /\ R!Init
     /\ NoDmint /\ NoTokens /\ NoSpvTrade

MCNext ==
  \/ /\ component = "dmint" /\ DmintNext
     /\ UNCHANGED <<component, tokensVars, tradeVars, radiant_vars>>
  \/ /\ component = "tokens" /\ TokensNext
     /\ UNCHANGED <<component, dmintVars, tradeVars, radiant_vars>>
  \/ /\ component = "spv" /\ TradeNext
     /\ UNCHANGED <<component, dmintVars, tokensVars, radiant_vars>>
  \/ /\ component = "radiant" /\ R!Next
     /\ UNCHANGED <<component, dmintVars, tokensVars, tradeVars>>

MCSpec == MCInit /\ [][MCNext]_mcVars

(* What is put together for a script is what the script accepts: the mint  *)
(* of a nonce found for the live output of a dMint contract, the last      *)
(* transaction of a wallet's command by the node's rules for tokens, and   *)
(* the spends of a covenant, which accepts exactly those that keep the     *)
(* terms. The authenticity gate passes exactly the covenants that are what *)
(* they say.                                                               *)
BuildersMeetTheScripts ==
  /\ NoWastedGrind
  /\ LastStepsKeepTheRules
  /\ component = "radiant" => R!CovenantIsExact /\ R!GateIsSound
=============================================================================
