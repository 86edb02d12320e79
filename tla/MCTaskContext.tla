--------------------------- MODULE MCTaskContext ---------------------------
(* A small instance of TaskContext: two contexts with different allowlists and *)
(* lifetimes, a program that starts one more flow, two keys between which      *)
(* sigil-core rotates, and keyrings that match its tokens more or less.        *)
EXTENDS TaskContext

CONSTANTS c1, c2, main, child, search, store, k1, k2, agent, otherAgent, tenant,
          otherTenant

MCAllowlist == c1 :> {search} @@ c2 :> {search, store}
MCTTL == c1 :> 1 @@ c2 :> 2
MCNoOverride == c1 :> None @@ c2 :> None
MCOverride == c1 :> otherAgent @@ c2 :> None

Deployment(pubkeys, single, active, answers) ==
    [pubkeys |-> pubkeys, single |-> single, active |-> active, forms |-> answers]

\* Both keys, for tokens that never let a call run; an entry that cannot be decoded,
\* supplied by the shorthand, and its kid the active one; both keys, for narrowed
\* tokens; the first key only, which the shorthand does not replace; a bad entry that
\* hides the good one behind it, so that the keyring is empty.
MCDeployments ==
    LET both == <<<<k1, k1>>, <<k2, k2>>>> IN
    {Deployment(both, None, None, {"foreign", "naive"}),
     Deployment(<<<<k1, k1>>, <<k2, None>>>>, <<k2, k2>>, k2, {"kidless"}),
     Deployment(both, None, None, {"narrowed"}),
     Deployment(<<<<k1, k1>>>>, <<k1, k2>>, None, {"plain"}),
     Deployment(<<<<k2, None>>, <<k1, k1>>>>, None, None, {"null"})}

\* Three entries, so that contexts nest, repeat and are entered again while open; two
\* where the tokens are the most numerous.
MCEntries == [f \in SUBSET Forms |-> IF f = {"narrowed"} THEN 2 ELSE 3]
MCOneEntry == [f \in SUBSET Forms |-> 1]

=============================================================================
