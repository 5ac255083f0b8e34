------------------------------ MODULE BeaconPay ------------------------------
(***************************************************************************)
(* The hub as one contract.  The other modules look at its parts one by    *)
(* one, each against what it sees of the others; here they all run on the  *)
(* same ledger, with the administration as it is: transfers of the role    *)
(* that expire, pauses that lapse and pauses that are locked.  In a step   *)
(* each part makes a step of its own or is left alone.  (A call may move   *)
(* several parts: an issue makes a token that can be owned and a           *)
(* membership that can be renewed.)                                        *)
(***************************************************************************)
EXTENDS HubMetadata, HubMemberships, HubTiers, HubStaking

tokens == <<owners, tokenPaused, distributed>>
HubVars == <<hub, tokens, HD_state, HM_state, HS_state, HR_state, SK_state>>

HubStart ==
    /\ HubInit
    /\ HT_Init /\ HD_Init /\ HM_Init /\ HS_Init /\ HR_Init /\ SK_Init

TokensMove ==
    \/ HT_Next /\ UNCHANGED HD_state
    \/ HD_Next
    \/ UNCHANGED <<tokens, HD_state>>

MembershipsMove == HM_Next \/ UNCHANGED HM_state

SubscriptionsMove ==
    \/ HR_Next
    \/ HS_Next /\ UNCHANGED HR_state
    \/ UNCHANGED <<now, HS_state, HR_state>>

StakesMove == SK_Next \/ UNCHANGED <<wallet, SK_state>>

AdministrationMoves == HubNext \/ UNCHANGED <<now, admin, transfer, halt>>

HubTogether ==
    /\ TokensMove
    /\ MembershipsMove
    /\ SubscriptionsMove
    /\ StakesMove
    /\ AdministrationMoves

HubSpec == HubStart /\ [][HubTogether]_HubVars
=============================================================================
