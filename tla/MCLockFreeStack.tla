-------------------------- MODULE MCLockFreeStack ---------------------------
(* Small instances of LockFreeStack.                                       *)
EXTENDS LockFreeStack, TLC

CONSTANTS PerPusher, PerPopper

MCQuota == [t \in Threads |-> IF t \in Pushers THEN PerPusher ELSE PerPopper]
=============================================================================
