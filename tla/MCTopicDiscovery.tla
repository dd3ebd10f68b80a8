-------------------------- MODULE MCTopicDiscovery --------------------------
(* Small instances of TopicDiscovery for TLC. *)
EXTENDS TopicDiscovery, TLC
=============================================================================
