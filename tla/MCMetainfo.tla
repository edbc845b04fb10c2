----------------------------- MODULE MCMetainfo -----------------------------
EXTENDS MetainfoBuild, MCTorrents
=============================================================================
