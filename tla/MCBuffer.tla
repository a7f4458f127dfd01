------------------------------ MODULE MCBuffer ------------------------------
(* Small instances of Buffer: every producer makes PerProducer calls and   *)
(* every consumer PerConsumer.                                             *)
EXTENDS Buffer, TLC

CONSTANTS PerProducer, PerConsumer

MCQuota == [t \in Threads |-> IF t \in Producers THEN PerProducer ELSE PerConsumer]
=============================================================================
