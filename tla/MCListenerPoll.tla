--------------------------- MODULE MCListenerPoll ----------------------------
(* ListenerPoll with two mounts, so that a reply can be for the wrong one, *)
(* and up to two requests in flight for each.                              *)
EXTENDS ListenerPoll
=============================================================================
