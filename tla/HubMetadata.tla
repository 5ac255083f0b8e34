---------------------------- MODULE HubMetadata ----------------------------
(***************************************************************************)
(* Attributes of the hub's membership tokens and the index that finds      *)
(* tokens by attribute (membership_token.rs).  Values keep their identity  *)
(* only; the limits on their size merely refuse a call.                    *)
(***************************************************************************)
EXTENDS HubTokens

CONSTANTS
    Keys, Values, NoValue,
    MaxMetadata      \* bound: versions of a token's metadata

ASSUME MetadataAssumption == NoValue \notin Values /\ MaxMetadata \in Nat

VARIABLES
    metadata,  \* Metadata(id)
    index,     \* MetadataIndex(key, value)
    recorded   \* MetadataHistory(id): versions with an entry

HD_state == <<metadata, index, recorded>>
HD_vars == <<HT_vars, HD_state>>

Attributes == [Keys -> Values \cup {NoValue}]
NoMetadata == [version |-> 0, attributes |-> [k \in Keys |-> NoValue]]

HD_Init ==
    /\ metadata = [t \in Tokens |-> NoMetadata]
    /\ index = [k \in Keys |-> [v \in Values |-> {}]]
    /\ recorded = [t \in Tokens |-> {}]

HD_Type ==
    /\ metadata \in [Tokens -> [version : Nat, attributes : Attributes]]
    /\ index \in [Keys -> [Values -> SUBSET Tokens]]
    /\ recorded \in [Tokens -> SUBSET Nat]

\* remove_from_metadata_index of the old value and add_to_metadata_index of the
\* new one, for the given keys of the given tokens.
Reindexed(ids, keys, attributes) ==
    [k \in Keys |-> [v \in Values |->
        {t \in Tokens :
            \/ t \in ids /\ k \in keys /\ attributes[t][k] = v
            \/ /\ t \in index[k][v]
               /\ t \in ids /\ k \in keys => metadata[t].attributes[k] # v}]]

Written(ids, attributes) ==
    /\ \A t \in ids : metadata[t].version < MaxMetadata
    /\ metadata' = [t \in Tokens |-> IF t \in ids
            THEN [version |-> metadata[t].version + 1, attributes |-> attributes[t]]
            ELSE metadata[t]]

Recorded(ids) ==
    recorded' = [t \in Tokens |-> IF t \in ids
                    THEN recorded[t] \cup {metadata[t].version + 1} ELSE recorded[t]]

\* set_token_metadata of one token or a batch: needs the owner of each, and an
\* administrator only to exist.  A single call does not ask whether the hub is
\* halted, and none of these calls asks whether the token is paused.
set_token_metadata(ids, attributes) ==
    LET new == [t \in ids |-> attributes]
    IN /\ admin # NoAccount
       /\ ids # {} /\ \A t \in ids : Exists(t)
       /\ Cardinality(ids) > 1 => NotPaused
       /\ index' = Reindexed(ids, Keys, new)
       /\ Written(ids, new)
       /\ Recorded(ids)
       /\ UNCHANGED HT_vars

\* Mutant: an attribute that changes keeps its old index entry.
Mut_update_token_metadata(t, updates) ==
    /\ NotPaused /\ metadata[t].version > 0
    /\ index' = [k \in Keys |-> [v \in Values |->
                    index[k][v] \cup (IF updates[k] = v THEN {t} ELSE {})]]
    /\ Written({t}, [x \in {t} |-> [k \in Keys |->
           IF updates[k] = NoValue THEN metadata[t].attributes[k] ELSE updates[k]]])
    /\ Recorded({t})
    /\ UNCHANGED HT_vars

update_token_metadata(t, updates) ==
    LET keys == {k \in Keys : updates[k] # NoValue}
        new == [x \in {t} |-> [k \in Keys |->
                    IF k \in keys THEN updates[k] ELSE metadata[t].attributes[k]]]
    IN /\ NotPaused /\ metadata[t].version > 0
       /\ index' = Reindexed({t}, keys, new)
       /\ Written({t}, new)
       /\ Recorded({t})
       /\ UNCHANGED HT_vars

\* A new version without an entry in the history.
remove_metadata_attributes(t, keys) ==
    LET new == [x \in {t} |-> [k \in Keys |->
                    IF k \in keys THEN NoValue ELSE metadata[t].attributes[k]]]
    IN /\ NotPaused /\ metadata[t].version > 0
       /\ index' = Reindexed({t}, keys, new)
       /\ Written({t}, new)
       /\ UNCHANGED <<HT_vars, recorded>>

HD_Call ==
    \/ \E ids \in SUBSET Tokens, attributes \in Attributes :
          set_token_metadata(ids, attributes)
    \/ \E t \in Tokens :
          \/ \E updates \in Attributes : update_token_metadata(t, updates)
          \/ \E keys \in SUBSET Keys : remove_metadata_attributes(t, keys)

\* A token's existence and pause are all that metadata calls see of it.
HD_Next ==
    \/ HD_Call
    \/ \E caller \in Accounts, t \in Tokens :
          \/ issue_token(t, caller) /\ UNCHANGED HD_state
          \/ \E flag \in BOOLEAN : SetTokenPaused(caller, t, flag)
                                    /\ UNCHANGED HD_state
    \/ HubEnvironment /\ UNCHANGED <<owners, tokenPaused, distributed, HD_state>>

HD_Spec == HubInit /\ HT_Init /\ HD_Init /\ [][HD_Next]_HD_vars

-----------------------------------------------------------------------------

\* A query by attribute finds exactly the tokens that have it, after any sequence
\* of writes, replacements and removals: no stale entry, and none missing.
IndexAgrees ==
    \A k \in Keys, v \in Values :
        index[k][v] = {t \in Tokens : metadata[t].attributes[k] = v}
=============================================================================
