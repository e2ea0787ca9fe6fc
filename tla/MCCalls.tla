------------------------------- MODULE MCCalls -------------------------------
(* Calls on small instances: a direct message and a channel, one call in   *)
(* each, both users members of both.                                        *)
EXTENDS Calls, TLC

CONSTANTS alice, bob, dm, channel

MCMember == [v \in {dm, channel} |-> {alice, bob}]
MCConversationOf == <<dm, channel>>
MCMaxRaise == <<1, 0>>

UserSymmetry == Permutations(User)
=============================================================================
