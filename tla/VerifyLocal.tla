---------------------------- MODULE VerifyLocal ----------------------------
(***************************************************************************)
(* The decision procedure of verify_local: which key may have signed a     *)
(* biscuit token, when it expires, what it is good for.  Operators only;   *)
(* TaskContext calls them, VerifyLocalProofs says what they guarantee.     *)
(*                                                                         *)
(* Abstracted: base64 and JSON (the shape of a token says how far decoding *)
(* gets), the signature (the key it verifies under), facts and checks as   *)
(* parsed.  Results carry the reason only, "ok" for an accepted token and  *)
(* "raises" for an exception that leaves verify_local.                     *)
(***************************************************************************)
EXTENDS Integers, Sequences, Functions

CONSTANT None   \* no key id, no tool, no tenant

(***************************************************************************)
(* A token is a record:                                                    *)
(*   shape   "garbled" (no two base64url halves, or no JSON), "mistyped"   *)
(*           (no string at all; JSON, but no object; a kid no dict can     *)
(*           look up), or "biscuit"                                        *)
(*   kid     the key id it names, or None                                  *)
(*   signer  the key its signature verifies under                          *)
(*   blocks  the authority block, then the attenuations: the tools of each *)
(*           one's facts, its tenant facts in order, and its checks;       *)
(*           None among the tools is a fact that is no string              *)
(* and a check is a record: an expiry [kind |-> "utc", at |-> t], one      *)
(* without a time zone ("naive"), a check that is no string ("mistyped"),  *)
(* or anything else ("other").                                             *)
(***************************************************************************)

\* Mutant: a token may be signed by any key of the keyring, whatever its kid.
AnyKey(token, keyring, activeKid) == Range(keyring)

\* The keys to try: the one the token names; for a token without a kid the
\* active one if it is configured, or else all.
CandidateKeys(token, keyring, activeKid) ==
    LET kid == IF token.kid # None THEN token.kid ELSE activeKid IN
    IF kid = None THEN Range(keyring)
    ELSE {keyring[k] : k \in DOMAIN keyring \cap {kid}}

\* _parse_expiry_from_checks: the first check of the block that is an expiry, or
\* that the search trips over.
Dated(block) == {i \in DOMAIN block.checks : block.checks[i].kind # "other"}
BlockExpiry(block) ==
    block.checks[CHOOSE i \in Dated(block) : \A j \in Dated(block) : i <= j]

\* _most_restrictive_expiry compares the expiries of all blocks that have one.
Expiries(blocks) == {BlockExpiry(b) : b \in {c \in Range(blocks) : Dated(c) # {}}}

\* Comparing a naive timestamp with an aware one raises TypeError, and a check that
\* is no string has no startswith.
Incomparable(blocks) == \E x \in Expiries(blocks) : x.kind \in {"naive", "mistyped"}

\* The earliest expiry has come.
Expired(blocks, now) == \E x \in Expiries(blocks) : now >= x.at

\* Mutant: an attenuation block may bring tools of its own.
AllTools(blocks) == UNION {b.tools : b \in Range(blocks)}

\* _compute_effective_tools: what every block grants.
EffectiveTools(blocks) == {t \in blocks[1].tools : \A b \in Range(blocks) : t \in b.tools}

\* Nor has a fact that is no string.
Unreadable(blocks) == \E b \in Range(blocks) : None \in b.tools

\* _extract_identity_from_facts: the last tenant fact wins.
Tenant(block) == IF block.tenants = <<>> THEN None ELSE block.tenants[Len(block.tenants)]

Authentic(token, keyring, activeKid) ==
    /\ token.shape = "biscuit" /\ token.blocks # <<>>
    /\ token.signer \in CandidateKeys(token, keyring, activeKid)

\* The steps of verify_local in their order; the first that objects decides.
\* A check whose expected value is None is skipped.
Verify(token, keyring, activeKid, tool, tenant, now) ==
    IF token.shape = "mistyped" THEN "raises"
    ELSE IF ~Authentic(token, keyring, activeKid) THEN "token_invalid"
    ELSE IF Incomparable(token.blocks) THEN "raises"
    ELSE IF Expired(token.blocks, now) THEN "task_expired"
    ELSE IF Unreadable(token.blocks) THEN "raises"
    ELSE IF tenant # None /\ Tenant(token.blocks[1]) # tenant THEN "tenant_mismatch"
    ELSE IF tool # None /\ tool \notin EffectiveTools(token.blocks) THEN "tool_not_in_scope"
    ELSE "ok"

=============================================================================
