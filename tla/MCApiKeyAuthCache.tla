------------------------- MODULE MCApiKeyAuthCache -------------------------
\* One request always runs in the same instance: the instances are interchangeable.
EXTENDS ApiKeyAuthCache

MCPlacements ==
  LET p == CHOOSE p \in Procs : TRUE
      i == CHOOSE i \in Instances : TRUE
  IN {f \in [Procs -> Instances] : f[p] = i}
=============================================================================
