------------------------------ MODULE MCKafkaDemo ------------------------------
(* Constants of the TLC runs of KafkaDemo.                                 *)
EXTENDS KafkaDemo, TLC

CONSTANTS o1, r1
==============================================================================
