--------------------------- MODULE MCRemoteObjects ---------------------------
EXTENDS RemoteObjects

CONSTANTS commit, config

MCBatches == {<<commit, config>>}

=============================================================================
