-------------------------- MODULE MCOpenAIWSPool --------------------------
(* One account's pool of at most two connections.                            *)
EXTENDS OpenAIWSPool

Setting(n, d, t, k, w) == [limit |-> n, dials |-> d, team |-> t, kinds |-> k, workers |-> w]
MCSettings ==
  {Setting(2, 2, {"r1", "r2"}, {"any", "new"}, {}),
   Setting(2, 2, {"r1", "r2"}, {"only", "new"}, {"prewarm"}),
   Setting(2, 2, {"r1", "r2"}, {"prefer"}, {"cleaner"}),
   Setting(1, 1, {"r1", "r2", "r3"}, {"any"}, {"pinger"})}
=============================================================================
