---------------------------- MODULE MCPipelines -----------------------------
(***************************************************************************)
(* Instances of the aggregator's process for TLC.                          *)
(***************************************************************************)
EXTENDS Pipelines

Deployed(noDefault, include, exclude) ==
  [noDefault |-> noDefault, include |-> include, exclude |-> exclude]

MCDefaults == <<"candlesticks", "coins", "tvl_per_asset">>
MCResolutions == <<60, 300>>

(* Coins and a view; and lists of pipelines that overlap.                  *)
MCArguments ==
  {Deployed(TRUE, <<"coins", "tvl_per_asset", "coins">>, << >>),
   Deployed(FALSE, <<"leaderboards", "coins">>, <<"candlesticks", "tvl_per_asset">>),
   Deployed(FALSE, <<"candlesticks">>, <<"candlesticks", "coins", "tvl_per_asset">>)}
=============================================================================
