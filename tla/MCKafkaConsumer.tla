-------------------------- MODULE MCKafkaConsumer --------------------------
(* Three events, one with a broken envelope, two handlers and two attempts  *)
(* per delivery, so that a message passes through both topics before it is  *)
(* given up; MaxFaults failed calls or restarts.                            *)
EXTENDS KafkaConsumer
=============================================================================
