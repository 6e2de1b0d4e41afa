---------------------------- MODULE MCPluginServe ----------------------------
EXTENDS PluginServe

CONSTANTS ping, stop, event, other

MCKind == [t \in Traffic |-> CASE t = ping  -> "ping"
                               [] t = stop  -> "plugin_shutdown"
                               [] t = event -> "event"
                               [] t = other -> "other"]
=============================================================================
