----------------------------- MODULE MCShardCfg -----------------------------
EXTENDS ShardCfg

CONSTANTS a, b, c, d

\* Two lists share a server.
MCServerList == {{a}, {b}, {c}, {a, d}}
=============================================================================
