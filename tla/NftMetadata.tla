----------------------------- MODULE NftMetadata -----------------------------
(***************************************************************************)
(* The contract contracts/nft_metadata/src/lib.rs: tokens with an owner,   *)
(* approvals and metadata.  Of the metadata of a token only how often it   *)
(* was edited, and whether it may be, is known; royalties, the collection  *)
(* and the branding of the contract are values of their own and left out.  *)
(***************************************************************************)
EXTENDS Soroban, FiniteSets

CONSTANTS
    MaxTokens,      \* bound: the tokens that are minted
    MaxEdits,       \* bound: the edits of one token
    MaxOperators    \* bound: the operator approvals in force

TokenIds == 1 .. MaxTokens
NoToken == [owner |-> Nobody, mutable |-> FALSE, edits |-> 0]

\* approval[t][o]: TokenApproval(t, o); operators: the pairs of OperatorApproval.
TypeOK ==
    /\ store.admin \in Somebody /\ store.counter \in 0 .. MaxTokens
    /\ store.token \in [TokenIds -> [owner : Somebody, mutable : BOOLEAN, edits : 0 .. MaxEdits]]
    /\ store.approval \in [TokenIds -> [Addresses -> Somebody]]
    /\ store.operators \subseteq Addresses \X Addresses
    /\ history \subseteq TokenIds

\* history: the tokens that exist or have existed.
Init ==
    /\ Deployed("nft")
    /\ store = [admin |-> Nobody, counter |-> 0, token |-> [t \in TokenIds |-> NoToken],
                approval |-> [t \in TokenIds |-> [a \in Addresses |-> Nobody]],
                operators |-> {}]
    /\ held = 0
    /\ history = {}

Exists(t) == store.token[t].owner # Nobody
OwnerOf(t) == store.token[t].owner

Initialize(admin) ==
    /\ Call("nft")
    /\ store.admin = Nobody
    /\ store' = [store EXCEPT !.admin = admin]
    /\ UNCHANGED <<held, history>>

\* By the admin, with or without full metadata; either may be marked immutable.
Mint(to, mutable) ==
    LET t == store.counter + 1 IN
    /\ Call("nft")
    /\ store.admin # Nobody
    /\ store.counter < MaxTokens
    /\ store' = [store EXCEPT
                    !.token[t] = [owner |-> to, mutable |-> mutable, edits |-> 0],
                    !.counter = t]
    /\ history' = history \cup {t}
    /\ UNCHANGED held

\* The edit of all tokens of a batch, which fails if any is missing or immutable.
Edit(tokens) ==
    /\ Call("nft")
    /\ \A t \in tokens : Exists(t) /\ store.token[t].mutable /\ store.token[t].edits < MaxEdits
    /\ store' = [store EXCEPT !.token = [t \in TokenIds |->
                    IF t \in tokens THEN [store.token[t] EXCEPT !.edits = @ + 1]
                    ELSE store.token[t]]]
    /\ UNCHANGED <<held, history>>

UpdateMetadata(caller, t) == caller = OwnerOf(t) /\ Edit({t})
BatchUpdateMetadataUris(tokens) == store.admin # Nobody /\ tokens # {} /\ Edit(tokens)
SetAttrs(caller, t) == caller \in {OwnerOf(t), store.admin} /\ Edit({t})

\* Clears what the one who gives the token away approved.
Transfer(from, to, t) ==
    /\ Call("nft")
    /\ from = OwnerOf(t)
    /\ store' = [store EXCEPT !.token[t].owner = to, !.approval[t][from] = Nobody]
    /\ UNCHANGED <<held, history>>

Burn(caller, t) ==
    /\ Call("nft")
    /\ Exists(t)
    /\ caller \in {OwnerOf(t), store.admin}
    /\ store' = [store EXCEPT !.token[t] = NoToken, !.approval[t][OwnerOf(t)] = Nobody]
    /\ UNCHANGED <<held, history>>

Approve(owner, approved, t) ==
    /\ Call("nft")
    /\ owner = OwnerOf(t)
    /\ store' = [store EXCEPT !.approval[t][owner] = approved]
    /\ UNCHANGED <<held, history>>

SetApprovalForAll(owner, operator, approved) ==
    LET others == store.operators \ {<<owner, operator>>} IN
    /\ Call("nft")
    /\ approved => Cardinality(others) < MaxOperators
    /\ store' = [store EXCEPT !.operators =
                    others \cup (IF approved THEN {<<owner, operator>>} ELSE {})]
    /\ UNCHANGED <<held, history>>

IsApproved(t, spender) ==
    \/ store.approval[t][OwnerOf(t)] = spender
    \/ <<OwnerOf(t), spender>> \in store.operators

Next ==
    \/ \E a \in Addresses :
          \/ Initialize(a)
          \/ \E mutable \in BOOLEAN : Mint(a, mutable)
          \/ \E t \in TokenIds : UpdateMetadata(a, t) \/ SetAttrs(a, t) \/ Burn(a, t)
          \/ \E b \in Addresses :
                \/ \E t \in TokenIds : Transfer(a, b, t) \/ Approve(a, b, t)
                \/ \E approved \in BOOLEAN : SetApprovalForAll(a, b, approved)
    \/ \E tokens \in SUBSET TokenIds : BatchUpdateMetadataUris(tokens)

Spec == Init /\ [][Next]_vars

------------------------------------------------------------------------------
(* Properties *)

\* An approval is of the token's present owner: whoever gets a token, or gets one back,
\* finds none that was given before, and a burnt token has none.
ApprovalsEndWithOwnership ==
    \A t \in TokenIds, a \in Addresses : store.approval[t][a] # Nobody => a = OwnerOf(t)

\* A token that was minted immutable keeps its metadata through batches, transfers and
\* all else, and what was burnt does not come back under the same number.
ImmutableStaysStep ==
    \A t \in TokenIds :
        /\ Exists(t) /\ ~store.token[t].mutable /\ Exists(t)' =>
               store.token[t].edits = store.token[t].edits' /\ ~store.token[t].mutable'
        /\ t \in history /\ ~Exists(t) => ~Exists(t)'
==============================================================================
