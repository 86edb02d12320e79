------------------------- MODULE VerifyLocalProofs -------------------------
(***************************************************************************)
(* What verify_local accepts, for every token, keyring and time: a         *)
(* declarative reading of its steps (Acceptable), and two consequences.    *)
(* Blocks are assumed to have one expiry at most (or one check that is no  *)
(* string), as sigil-core issues them; of several, the code looks at the   *)
(* first.                                                                  *)
(***************************************************************************)
EXTENDS VerifyLocal, TLAPS

\* Blocks as sigil-core issues them.
WellFormed(blocks) ==
    /\ blocks # <<>> => 1 \in DOMAIN blocks
    /\ \A b \in Range(blocks) :
           /\ DOMAIN b.checks \subseteq Nat
           /\ \A i \in Dated(b) : b.checks[i].at \in Int
           /\ \A i, j \in Dated(b) : i = j

\* Every block allows the tool at this time.
Allows(blocks, tool, now) ==
    \A b \in Range(blocks) :
        /\ tool = None \/ tool \in b.tools
        /\ None \notin b.tools
        /\ \A i \in Dated(b) : /\ b.checks[i].kind \notin {"naive", "mistyped"}
                               /\ now < b.checks[i].at

\* What an accepted token is, without the order in which the code finds out.
Acceptable(token, keyring, activeKid, tool, tenant, now) ==
    /\ Authentic(token, keyring, activeKid)
    /\ Allows(token.blocks, tool, now)
    /\ tenant = None \/ Tenant(token.blocks[1]) = tenant

LEMMA TheExpiry ==
    ASSUME NEW blocks, WellFormed(blocks), NEW b \in Range(blocks), NEW i \in Dated(b)
    PROVE  BlockExpiry(b) = b.checks[i]
<1>1. i \in Nat /\ \A j \in Dated(b) : j = i
    BY DEF WellFormed, Dated
<1>2. (CHOOSE k \in Dated(b) : \A j \in Dated(b) : k <= j) = i
    <2>1. i \in Dated(b) /\ \A j \in Dated(b) : i <= j
        BY <1>1
    <2> QED
        BY <1>1, <2>1
<1> QED
    BY <1>2 DEF BlockExpiry

\* The expiries that are compared are those of the checks, one for each dated block.
LEMMA ExpiriesAre ==
    ASSUME NEW blocks, WellFormed(blocks)
    PROVE  Expiries(blocks) = UNION {{b.checks[i] : i \in Dated(b)} : b \in Range(blocks)}
<1>1. ASSUME NEW x \in Expiries(blocks)
      PROVE  \E b \in Range(blocks) : \E i \in Dated(b) : x = b.checks[i]
    <2>1. PICK b \in Range(blocks) : Dated(b) # {} /\ x = BlockExpiry(b)
        BY <1>1 DEF Expiries
    <2>2. PICK i : i \in Dated(b)
        BY <2>1
    <2> QED
        BY <2>1, <2>2, TheExpiry
<1>2. ASSUME NEW b \in Range(blocks), NEW i \in Dated(b)
      PROVE  b.checks[i] \in Expiries(blocks)
    <2>1. BlockExpiry(b) = b.checks[i]
        BY TheExpiry
    <2> QED
        BY <2>1 DEF Expiries
<1> QED
    BY <1>1, <1>2

\* verify_local accepts a token for a tool and a tenant exactly if it is
\* authentic, every block can be read, grants the tool and has not expired, and the
\* tenant is the expected one.
THEOREM AcceptsAcceptable ==
    ASSUME NEW token, WellFormed(token.blocks), token.shape # "mistyped",
           NEW keyring, NEW activeKid, NEW tool, NEW tenant, NEW now \in Int
    PROVE  Verify(token, keyring, activeKid, tool, tenant, now) = "ok" <=>
           Acceptable(token, keyring, activeKid, tool, tenant, now)
<1> DEFINE blocks == token.blocks
<1>1. ~Incomparable(blocks) /\ ~Expired(blocks, now) <=>
      \A b \in Range(blocks) : \A i \in Dated(b) :
          b.checks[i].kind \notin {"naive", "mistyped"} /\ now < b.checks[i].at
    <2>1. \A b \in Range(blocks) : \A i \in Dated(b) : b.checks[i].at \in Int
        BY DEF WellFormed
    <2>2. \A b \in Range(blocks) : \A i \in Dated(b) :
              ~(now >= b.checks[i].at) <=> now < b.checks[i].at
        BY <2>1
    <2>3. Incomparable(blocks) <=>
          \E b \in Range(blocks) : \E i \in Dated(b) :
              b.checks[i].kind \in {"naive", "mistyped"}
        BY ExpiriesAre DEF Incomparable
    <2>4. Expired(blocks, now) <=>
          \E b \in Range(blocks) : \E i \in Dated(b) : now >= b.checks[i].at
        BY ExpiriesAre DEF Expired
    <2> QED
        BY <2>2, <2>3, <2>4
<1>2. ASSUME Authentic(token, keyring, activeKid)
      PROVE  tool \in EffectiveTools(blocks) <=> \A b \in Range(blocks) : tool \in b.tools
    <2>1. blocks[1] \in Range(blocks)
        BY <1>2 DEF Authentic, WellFormed, Range
    <2> QED
        BY <2>1 DEF EffectiveTools
<1> QED
    BY <1>1, <1>2 DEF Verify, Acceptable, Allows, Unreadable

\* Attenuation only narrows (docs: "Attenuation can only shrink scope"): what is
\* accepted with another block appended is accepted without it, all else equal.
THEOREM AttenuationNarrows ==
    ASSUME NEW S, NEW token, token.blocks \in Seq(S), token.blocks # <<>>,
           token.shape # "mistyped", NEW block \in S, NEW child,
           child.blocks = Append(token.blocks, block),
           child.shape = token.shape, child.kid = token.kid, child.signer = token.signer,
           WellFormed(child.blocks),
           NEW keyring, NEW activeKid, NEW tool, NEW tenant, NEW now \in Int,
           Verify(child, keyring, activeKid, tool, tenant, now) = "ok"
    PROVE  Verify(token, keyring, activeKid, tool, tenant, now) = "ok"
<1>1. /\ DOMAIN token.blocks \subseteq DOMAIN child.blocks
      /\ 1 \in DOMAIN token.blocks
      /\ \A i \in DOMAIN token.blocks : child.blocks[i] = token.blocks[i]
    OBVIOUS
<1>2. Range(token.blocks) \subseteq Range(child.blocks)
    BY <1>1 DEF Range
<1>3. WellFormed(token.blocks)
    BY <1>1, <1>2 DEF WellFormed
<1>4. Acceptable(child, keyring, activeKid, tool, tenant, now)
    BY AcceptsAcceptable
<1>5. Acceptable(token, keyring, activeKid, tool, tenant, now)
    BY <1>1, <1>2, <1>4 DEF Acceptable, Allows, Authentic, CandidateKeys
<1> QED
    BY <1>3, <1>5, AcceptsAcceptable

\* Time only takes away: a token accepted at one time was accepted at every
\* earlier one, so no clock that runs on brings an expired token back.
THEOREM TimeOnlyRevokes ==
    ASSUME NEW token, WellFormed(token.blocks), token.shape # "mistyped",
           NEW keyring, NEW activeKid, NEW tool, NEW tenant,
           NEW now \in Int, NEW later \in Int, now <= later,
           Verify(token, keyring, activeKid, tool, tenant, later) = "ok"
    PROVE  Verify(token, keyring, activeKid, tool, tenant, now) = "ok"
<1>1. Acceptable(token, keyring, activeKid, tool, tenant, later)
    BY AcceptsAcceptable
<1>2. \A b \in Range(token.blocks) : \A i \in Dated(b) :
          later < b.checks[i].at => now < b.checks[i].at
    BY DEF WellFormed
<1>3. Acceptable(token, keyring, activeKid, tool, tenant, now)
    BY <1>1, <1>2 DEF Acceptable, Allows
<1> QED
    BY <1>3, AcceptsAcceptable

\* The key id a token is verified under: its own, or else the active one.
Kid(token, activeKid) == IF token.kid # None THEN token.kid ELSE activeKid

\* What is accepted was signed by a configured key, and by the one its key id
\* names wherever there is a key id: no other key of the keyring will do.
THEOREM AcceptedKeyIsNamed ==
    ASSUME NEW token, NEW keyring, NEW activeKid, NEW tool, NEW tenant, NEW now,
           Verify(token, keyring, activeKid, tool, tenant, now) = "ok"
    PROVE  /\ \E k \in DOMAIN keyring : keyring[k] = token.signer
           /\ Kid(token, activeKid) # None =>
                 /\ Kid(token, activeKid) \in DOMAIN keyring
                 /\ keyring[Kid(token, activeKid)] = token.signer
<1>1. token.signer \in CandidateKeys(token, keyring, activeKid)
    BY DEF Verify, Authentic
<1>2. CASE Kid(token, activeKid) = None
    BY <1>1, <1>2 DEF CandidateKeys, Kid, Range
<1>3. CASE Kid(token, activeKid) # None
    BY <1>1, <1>3 DEF CandidateKeys, Kid
<1> QED
    BY <1>2, <1>3

\* Keys can be rotated in and out without touching a token that names another: the
\* verdict on it, refusals and their reasons included, reads no other key.
THEOREM RotationKeepsVerdict ==
    ASSUME NEW token, NEW keyring, NEW rotated, NEW activeKid, NEW tool, NEW tenant, NEW now,
           Kid(token, activeKid) # None,
           Kid(token, activeKid) \in DOMAIN keyring <=> Kid(token, activeKid) \in DOMAIN rotated,
           Kid(token, activeKid) \in DOMAIN keyring =>
               rotated[Kid(token, activeKid)] = keyring[Kid(token, activeKid)]
    PROVE  Verify(token, rotated, activeKid, tool, tenant, now) =
           Verify(token, keyring, activeKid, tool, tenant, now)
<1> DEFINE kid == Kid(token, activeKid)
<1>1. CandidateKeys(token, keyring, activeKid) = {keyring[k] : k \in DOMAIN keyring \cap {kid}}
    BY DEF CandidateKeys, Kid
<1>2. CandidateKeys(token, rotated, activeKid) = {rotated[k] : k \in DOMAIN rotated \cap {kid}}
    BY DEF CandidateKeys, Kid
<1>3. {rotated[k] : k \in DOMAIN rotated \cap {kid}} = {keyring[k] : k \in DOMAIN keyring \cap {kid}}
    OBVIOUS
<1>4. Authentic(token, rotated, activeKid) <=> Authentic(token, keyring, activeKid)
    BY <1>1, <1>2, <1>3 DEF Authentic
<1> QED
    BY <1>4 DEF Verify

=============================================================================
