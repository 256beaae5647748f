----------------------------- MODULE MC_PubSub -----------------------------
(* Two sessions, two payloads, queues of two: overflow, joining late and    *)
(* leaving while others lag all occur within five publications.             *)
EXTENDS PubSubLog
=============================================================================
