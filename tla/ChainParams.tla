----------------------------- MODULE ChainParams -----------------------------
(***************************************************************************)
(* Network parameter selection and the team reward split:                  *)
(* SelectParams / CreateChainParams and the four parameter constructors of *)
(* src/src/chainparams.cpp (with NormalizeRewards and the main-net checks), *)
(* Consensus::Params::DifficultyAdjustmentInterval and                     *)
(* TeamRewards::ReCalculatePercentageRewardsToTeam of                      *)
(* src/src/consensus/params.h.                                             *)
(*                                                                         *)
(* Several nodes each select a network and recompute the team split for    *)
(* rewards taken from a small set.  Only the parameters these operations   *)
(* read are kept; addresses are short names.  A member a constructor never *)
(* assigns is indeterminate (the object is built by new T(...), so its int *)
(* members are default-initialized): it takes any value of Garbage.        *)
(***************************************************************************)
EXTENDS Integers, FiniteSets, Sequences, SequencesExt, TLC

CONSTANTS
  Nodes,              \* processes selecting parameters
  Rewards,            \* PoSRewardCoins_Normalized values passed to the split
  Garbage,            \* values an uninitialized int member may hold
  Heights,            \* block heights the interval is asked for
  COIN,               \* satoshis per coin (10^8 in the code; scaled here)
  COLD_STAKER_FEE, UNLOCK_PoW_COINS_AFTER_BLOCKS,
  UNLOCK_PoS_COINS_AFTER_BLOCKS, COINBASE_MATURITY,
  INT_MAX,            \* std::numeric_limits<int>::max() (2^31 - 1 in the code)
  NO_TIMEOUT,         \* BIP9Deployment::NO_TIMEOUT (int64 max in the code)
  SegwitArgs,         \* -segwitheight as given: {} when unset, else {height}
  VbEntries,          \* parsed -vbparams entries a regtest node may be given
  MaxVbArgs           \* most -vbparams entries on one command line

ASSUME /\ Rewards \subseteq Nat /\ Garbage \subseteq Int /\ Heights \subseteq Nat
       /\ COIN \in Nat \ {0} /\ INT_MAX \in Nat /\ MaxVbArgs \in Nat

\* The chain names SelectParams may be given; "other" is none of the four.
Chains == {"main", "test", "signet", "regtest", "other"}

SumOf(f) == MapThenFoldSet(LAMBDA x, y : x + y, 0, LAMBDA k : f[k], LAMBDA s : CHOOSE k \in s : TRUE, DOMAIN f)

(***************************************************************************)
(* The members each constructor assigns (lines 162-335, 339-455,           *)
(* 462-590, 595-705).  The test networks store the literals 0.2, 0.4, 0.9  *)
(* and 0.05 in int members, which truncates them to 0.  SigNetParams never *)
(* assigns BPSDiffAdjHeight or nMPoSRewardRecipients (field unset).       *)
(***************************************************************************)
TestNetAddresses == ("Team" :> 1) @@ ("Community" :> 1)

\* BIP9Deployment::ALWAYS_ACTIVE
ALWAYS_ACTIVE == -1

(***************************************************************************)
(* SegwitHeight and vDeployments[d].nStartTime / nTimeout of each          *)
(* constructor, keyed by the deployment's VersionBitsDeploymentInfo name.  *)
(***************************************************************************)
Activation(c) ==
  LET y2008 == [nStartTime |-> 1199145601, nTimeout |-> 1230767999]
      never == [nStartTime |-> ALWAYS_ACTIVE, nTimeout |-> NO_TIMEOUT]
  IN  CASE c = "regtest" ->
             [SegwitHeight |-> 0,
              vDeployments |-> ("testdummy" :> [nStartTime |-> 0, nTimeout |-> NO_TIMEOUT])
                               @@ ("taproot" :> never)]
        [] c = "signet" ->
             [SegwitHeight |-> 1,
              vDeployments |-> ("testdummy" :> y2008) @@ ("taproot" :> never)]
        [] OTHER ->
             [SegwitHeight |-> 1,
              vDeployments |-> ("testdummy" :> y2008) @@ ("taproot" :> y2008)]

Table ==
  [c \in {"main", "test", "signet", "regtest"} |-> Activation(c) @@
    CASE c = "main" ->
           [rewardExtraAddresses |-> ("Developers" :> 5) @@ ("RnD" :> 8)
                                     @@ ("DataMining" :> 6) @@ ("Marketing" :> 2)
                                     @@ ("AntiStall" :> 4),
            PoSRewardCoins |-> 60, nMPoSRewardRecipients |-> 10,
            BPSDiffAdjHeight |-> 10000, unset |-> {},
            nPowTargetSpacing |-> 6 * 60, nPowTargetTimespan |-> 10 * 6 * 60,
            littleStakerPercentage |-> 7]
      [] c = "signet" ->
           [rewardExtraAddresses |-> TestNetAddresses,
            PoSRewardCoins |-> 50, nMPoSRewardRecipients |-> 0,
            BPSDiffAdjHeight |-> 0,
            unset |-> {"BPSDiffAdjHeight", "nMPoSRewardRecipients"},
            nPowTargetSpacing |-> 10 * 60, nPowTargetTimespan |-> 14 * 24 * 60 * 60,
            littleStakerPercentage |-> 0]
      [] OTHER ->
           [rewardExtraAddresses |-> TestNetAddresses,
            PoSRewardCoins |-> 50, nMPoSRewardRecipients |-> 10,
            BPSDiffAdjHeight |-> 1500, unset |-> {},
            nPowTargetSpacing |-> 3 * 60, nPowTargetTimespan |-> 10 * 3 * 60,
            littleStakerPercentage |-> 0]]

\* NormalizeRewards: the coin value of the PoS reward and the summed percentages.
NormalizeRewards(p) ==
  [normalized |-> p.PoSRewardCoins * COIN,
   percToTeam |-> SumOf(p.rewardExtraAddresses)]

\* The checks at the end of CMainParams(), each throwing std::runtime_error.
MainChecksPass(p) ==
  LET percToTeam == NormalizeRewards(p).percToTeam
  IN  /\ COLD_STAKER_FEE \in 0..100
      /\ UNLOCK_PoW_COINS_AFTER_BLOCKS >= COINBASE_MATURITY
      /\ UNLOCK_PoS_COINS_AFTER_BLOCKS >= COINBASE_MATURITY
      /\ DOMAIN p.rewardExtraAddresses /= {} => percToTeam \in 1..100
      /\ p.nMPoSRewardRecipients >= 2

\* The objects a constructor may produce: each unassigned member is any
\* value of Garbage.
Constructed(c) ==
  LET t == Table[c]
  IN  {[strNetworkID |-> c] @@
       [t EXCEPT !.BPSDiffAdjHeight =
                    IF "BPSDiffAdjHeight" \in t.unset THEN g1 ELSE @,
                 !.nMPoSRewardRecipients =
                    IF "nMPoSRewardRecipients" \in t.unset THEN g2 ELSE @]
       : g1, g2 \in Garbage}

\* DifficultyAdjustmentInterval(height)
DifficultyAdjustmentInterval(p, height) ==
  (IF height < p.BPSDiffAdjHeight THEN p.nPowTargetSpacing
   ELSE p.nPowTargetTimespan) \div p.nPowTargetSpacing

(***************************************************************************)
(* The arguments a regtest node may start with: -segwitheight set or not,  *)
(* and a list of -vbparams entries.  An entry is split on ':' into parts   *)
(* pieces; startOK / timeoutOK say whether ParseInt64 accepts its numbers. *)
(***************************************************************************)
RegTestArgs ==
  [segwit : SegwitArgs,
   vbparams : UNION {[1..k -> VbEntries] : k \in 0..MaxVbArgs}]

\* static_cast<int>(int64_t): the low 32 bits, read as two's complement.
IntCast(h) == ((h + INT_MAX + 1) % (2 * (INT_MAX + 1))) - (INT_MAX + 1)

\* Mutant of SegwitFromArgs: -1 is stored as it is instead of disabling.
SegwitNoDisable(p, segwit) ==
  IF segwit = {} THEN [ok |-> TRUE, p |-> p]
  ELSE LET height == CHOOSE h \in segwit : TRUE
       IN  IF height < -1 \/ height >= INT_MAX THEN [ok |-> FALSE, p |-> p]
           ELSE [ok |-> TRUE, p |-> [p EXCEPT !.SegwitHeight = IntCast(height)]]

(***************************************************************************)
(* The -segwitheight part: a height outside [-1, INT_MAX) throws, -1       *)
(* disables segwit by moving it to INT_MAX, and the height is narrowed to  *)
(* int.                                                                    *)
(***************************************************************************)
SegwitFromArgs(p, segwit) ==
  IF segwit = {} THEN [ok |-> TRUE, p |-> p]
  ELSE LET height == CHOOSE h \in segwit : TRUE
       IN  IF height < -1 \/ height >= INT_MAX THEN [ok |-> FALSE, p |-> p]
           ELSE [ok |-> TRUE,
                 p |-> [p EXCEPT !.SegwitHeight =
                          IntCast(IF height = -1 THEN INT_MAX ELSE height)]]

\* Mutant of VbEntry: an unknown deployment name is skipped without
\* throwing (the `if (!found) throw` after the search is lost).
VbEntryIgnoreUnknown(acc, e) ==
  IF ~acc.ok THEN acc
  ELSE IF e.parts /= 3 \/ ~e.startOK \/ ~e.timeoutOK THEN [ok |-> FALSE, p |-> acc.p]
       ELSE IF e.name \notin DOMAIN acc.p.vDeployments THEN acc
       ELSE [ok |-> TRUE,
             p |-> [acc.p EXCEPT !.vDeployments[e.name] =
                      [nStartTime |-> e.start, nTimeout |-> e.timeout]]]

(***************************************************************************)
(* One -vbparams entry: three parts, both numbers parsed and a known       *)
(* deployment name, or std::runtime_error; UpdateVersionBitsParameters     *)
(* overwrites that deployment, so a later entry for it wins.               *)
(***************************************************************************)
VbEntry(acc, e) ==
  IF ~acc.ok THEN acc
  ELSE IF e.parts /= 3 \/ ~e.startOK \/ ~e.timeoutOK
          \/ e.name \notin DOMAIN acc.p.vDeployments
       THEN [ok |-> FALSE, p |-> acc.p]
       ELSE [ok |-> TRUE,
             p |-> [acc.p EXCEPT !.vDeployments[e.name] =
                      [nStartTime |-> e.start, nTimeout |-> e.timeout]]]

\* CRegTestParams::UpdateActivationParametersFromArgs, called by the
\* constructor; ok is FALSE when it throws.
UpdateActivationParametersFromArgs(p, args) ==
  LET sw == SegwitFromArgs(p, args.segwit)
  IN  IF ~sw.ok THEN sw ELSE FoldLeft(VbEntry, sw, args.vbparams)

NoParams == [none |-> TRUE]
NoBase == "none"
NoArgs == [none |-> TRUE]

VARIABLES
  globalChainBaseParams, \* node -> network of the selected base parameters
  globalChainParams,  \* node -> the selected parameters, or NoParams
  threw,              \* node -> the last SelectParams threw
  team,               \* node -> TeamRewards [CoinsToTeam, normalized]
  basis,              \* node -> the reward and table of the last split (history)
  regArgs             \* node -> the arguments its published regtest parameters
                      \* were built from, or NoArgs (history)

vars == <<globalChainBaseParams, globalChainParams, threw, team, basis, regArgs>>

Init ==
  /\ globalChainBaseParams = [n \in Nodes |-> NoBase]
  /\ globalChainParams = [n \in Nodes |-> NoParams]
  /\ threw = [n \in Nodes |-> FALSE]
  /\ team = [n \in Nodes |-> [CoinsToTeam |-> 0, normalized |-> <<>>]]
  /\ basis = [n \in Nodes |-> NoParams]
  /\ regArgs = [n \in Nodes |-> NoArgs]

(***************************************************************************)
(* CreateChainParams(args, network): builds the network's object, or       *)
(* throws for an unknown name, a failed main-net check or bad regtest      *)
(* arguments; node n's pointer is replaced only when it returns.           *)
(***************************************************************************)
CreateChainParams(n, c) ==
  \/ /\ c = "other" \/ (c = "main" /\ ~MainChecksPass(Table["main"]))
     /\ threw' = [threw EXCEPT ![n] = TRUE]
     /\ UNCHANGED <<globalChainParams, regArgs>>
  \/ /\ c \notin {"other", "regtest"} /\ (c = "main" => MainChecksPass(Table["main"]))
     /\ \E p \in Constructed(c) :
          globalChainParams' = [globalChainParams EXCEPT ![n] = p]
     /\ threw' = [threw EXCEPT ![n] = FALSE]
     /\ regArgs' = [regArgs EXCEPT ![n] = NoArgs]
  \/ /\ c = "regtest"
     /\ \E args \in RegTestArgs, p \in Constructed(c) :
          LET r == UpdateActivationParametersFromArgs(p, args)
          IN  /\ threw' = [threw EXCEPT ![n] = ~r.ok]
              /\ globalChainParams' =
                   IF r.ok THEN [globalChainParams EXCEPT ![n] = r.p]
                   ELSE globalChainParams
              /\ regArgs' = IF r.ok THEN [regArgs EXCEPT ![n] = args] ELSE regArgs

(***************************************************************************)
(* SelectBaseParams(network) (chainparamsbase.cpp, a Bitcoin collaborator  *)
(* outside this repository): CreateBaseChainParams throws for an unknown   *)
(* name, else the base parameters are switched to the network.            *)
(***************************************************************************)
SelectBaseParams(n, c) ==
  globalChainBaseParams' =
    IF c = "other" THEN globalChainBaseParams
    ELSE [globalChainBaseParams EXCEPT ![n] = c]

\* SelectParams(network): SelectBaseParams, then CreateChainParams.
SelectParams(n, c) == SelectBaseParams(n, c) /\ CreateChainParams(n, c)

SelectParamsStep(n, c) == SelectParams(n, c) /\ UNCHANGED <<team, basis>>

\* team_coin = (PoSRewardCoins_Normalized * it_prec->second) / 100
Split(R, pct) == [a \in DOMAIN pct |-> (R * pct[a]) \div 100]

\* ReCalculatePercentageRewardsToTeam: clear, then insert and sum each share.
ReCalculate(R, pct) ==
  IF DOMAIN pct = {} THEN [CoinsToTeam |-> 0, normalized |-> <<>>]
  ELSE [CoinsToTeam |-> SumOf(Split(R, pct)), normalized |-> Split(R, pct)]

\* Node n's split recomputed for reward R from Params() (which asserts that
\* parameters were selected).  Nothing in this repository calls it; it is
\* an entry point a caller may use at any time.
ReCalculatePercentageRewardsToTeam(n, R) ==
  LET pct == globalChainParams[n].rewardExtraAddresses
  IN  /\ globalChainParams[n] /= NoParams
      /\ team' = [team EXCEPT ![n] = ReCalculate(R, pct)]
      /\ basis' = [basis EXCEPT ![n] = [R |-> R, pct |-> pct]]
      /\ UNCHANGED <<globalChainBaseParams, globalChainParams, threw, regArgs>>

Next ==
  \E n \in Nodes :
    \/ \E c \in Chains : SelectParamsStep(n, c)
    \/ \E R \in Rewards : ReCalculatePercentageRewardsToTeam(n, R)

Spec == Init /\ [][Next]_vars

-----------------------------------------------------------------------------
TypeOK ==
  /\ \A n \in Nodes : globalChainParams[n] = NoParams
                       \/ globalChainParams[n].strNetworkID \in Chains \ {"other"}
  /\ globalChainBaseParams \in [Nodes -> (Chains \ {"other"}) \cup {NoBase}]
  /\ threw \in [Nodes -> BOOLEAN]
  /\ \A n \in Nodes : team[n].CoinsToTeam \in Nat

(***************************************************************************)
(* Consensus: two nodes that selected the same network compute the same    *)
(* DifficultyAdjustmentInterval at every height.                           *)
(***************************************************************************)
NodesAgreeOnInterval ==
  \A m, n \in Nodes :
    LET p == globalChainParams[m]
        q == globalChainParams[n]
    IN  (p /= NoParams /\ q /= NoParams /\ p.strNetworkID = q.strNetworkID) =>
          \A h \in Heights : DifficultyAdjustmentInterval(p, h) = DifficultyAdjustmentInterval(q, h)

(***************************************************************************)
(* Whatever -segwitheight a regtest node is started with, the SegWit       *)
(* activation height it publishes is a block height in 0..INT_MAX: the     *)
(* range check, the -1 convention and the narrowing to int together keep  *)
(* it there.                                                               *)
(***************************************************************************)
SegwitHeightInRange ==
  \A n \in Nodes :
    globalChainParams[n] /= NoParams =>
      globalChainParams[n].SegwitHeight \in 0..INT_MAX
(***************************************************************************)
(* A regtest node's published deployments are what its -vbparams asked    *)
(* for: every entry was well formed and named a known deployment (else     *)
(* the constructor threw and the old pointer stayed), and each deployment  *)
(* has the start and timeout of the LAST entry naming it, or the          *)
(* constructor's default when none does.                                   *)
(***************************************************************************)
VbParamsApplied ==
  \A n \in Nodes :
    LET p  == globalChainParams[n]
        vb == regArgs[n].vbparams
    IN  (p /= NoParams /\ p.strNetworkID = "regtest") =>
          /\ \A i \in DOMAIN vb :
               vb[i].parts = 3 /\ vb[i].startOK /\ vb[i].timeoutOK
               /\ vb[i].name \in DOMAIN p.vDeployments
          /\ \A d \in DOMAIN p.vDeployments :
               LET i == SelectLastInSeq(vb, LAMBDA e : e.name = d)
               IN  p.vDeployments[d] =
                     IF i = 0 THEN Table["regtest"].vDeployments[d]
                     ELSE [nStartTime |-> vb[i].start, nTimeout |-> vb[i].timeout]

(***************************************************************************)
(* The comment on ReCalculatePercentageRewardsToTeam (params.h:153-155):   *)
(* the split is computed so that "there cannot be any approximation        *)
(* errors": the team receives exactly the reward times the summed          *)
(* percentages over 100.  Each share is rounded down on its own (line     *)
(* 170), so a reward that is not a multiple of 100 loses coins.           *)
(***************************************************************************)
TeamNoApproximationError ==
  \A n \in Nodes :
    basis[n] /= NoParams =>
      100 * team[n].CoinsToTeam = basis[n].R * SumOf(basis[n].pct)
=============================================================================
