------------------------- MODULE TaskContextProofs -------------------------
(***************************************************************************)
(* Theorems about TaskContext, for any number of flows and contexts.       *)
(* The argument: a context that nobody sees may get a new task id; while   *)
(* it waits for its token nobody comes to see it; so unless it is entered  *)
(* again while it is in use, whoever sees it sees a token for its task id  *)
(* (Tasks).  And what an exit restores is what lies below in the flow's    *)
(* stack of with blocks (Stacks).                                          *)
(***************************************************************************)
EXTENDS TaskContext, VerifyLocalProofs, SequenceTheorems

USE DEF configVars, flowVars, contextVars

(***************************************************************************)
(* The keyring and the tokens.                                             *)
(***************************************************************************)

\* What a sequence over a set holds is in that set.
LEMMA ElementIn ==
    ASSUME NEW S, NEW s \in Seq(S), NEW i \in DOMAIN s
    PROVE  s[i] \in S
OBVIOUS

\* The keyring maps key ids to keys, whatever the environment says.
LEMMA KeyringTyped ==
    ASSUME NEW d \in Deployments
    PROVE  LET ring == ParsedKeyring(d.pubkeys, d.single) IN
           DOMAIN ring \subseteq Keys /\ Range(ring) \subseteq Keys
<1> DEFINE many == [i \in Decoded(d.pubkeys) |-> d.pubkeys[i]]
           kids == {pair[1] : pair \in Range(many)}
           chosen == Range(many) \cup
                     {pair \in {d.single} \ {None} : pair[2] # None /\ pair[1] \notin kids}
           ring == [k \in {pair[1] : pair \in chosen} |->
                        (CHOOSE pair \in chosen : pair[1] = k)[2]]
<1>1. /\ d.pubkeys \in Seq(Keys \X (Keys \cup {None}))
      /\ d.single \in (Keys \X (Keys \cup {None})) \cup {None}
    BY DeploymentsAssumption
<1>2. ASSUME NEW pair \in Range(many)
      PROVE  pair[1] \in Keys /\ pair[2] \in Keys
    <2>1. PICK i \in Decoded(d.pubkeys) : pair = d.pubkeys[i]
        BY DEF Range
    <2>2. i \in 1..Len(d.pubkeys) /\ d.pubkeys[i][2] # None
        BY <1>1, <2>1 DEF Decoded
    <2> QED
        BY <1>1, <2>1, <2>2
<1>3. \A pair \in chosen : pair[1] \in Keys /\ pair[2] \in Keys
    BY <1>1, <1>2
<1>4. ASSUME NEW k \in DOMAIN ring
      PROVE  k \in Keys /\ ring[k] \in Keys
    <2>1. \E pair \in chosen : pair[1] = k
        OBVIOUS
    <2>2. (CHOOSE pair \in chosen : pair[1] = k) \in chosen
        BY <2>1
    <2> QED
        BY <1>3, <2>1, <2>2
<1>5. DOMAIN ring \subseteq Keys /\ Range(ring) \subseteq Keys
    BY <1>4 DEF Range
<1>6. ParsedKeyring(d.pubkeys, d.single) = ring
    BY DEF ParsedKeyring
<1> HIDE DEF ring
<1> QED
    BY <1>5, <1>6

\* What every token stored in a context looks like.
Shaped(t, c) ==
    /\ t \in Issued
    /\ t.blocks # <<>>
    /\ t.blocks[1].tools = Allowlist[c]
    /\ \E s \in Strangers \cup {TenantId} : t.blocks[1].tenants = <<s>>
    /\ \A b \in Range(t.blocks) :
           /\ DOMAIN b.checks = 1..2
           /\ b.checks[1].kind = "other"

\* The tokens in sigil-core's answers are of that shape, and for the context's
\* task id.
LEMMA AnswersShaped ==
    ASSUME TypeOK, NEW c \in Contexts, NEW t \in Answers(c), t # None
    PROVE  Shaped(t, c) /\ t.task = task[c]
<1> DEFINE Authority(s, kind) == Block(Allowlist[c], <<s>>, Check(kind, now + TTL[c]))
           Narrow(tool) == Block({tool}, <<>>, Check("utc", now + 1))
<1>1. /\ serverKid \in Keys /\ now \in Nat /\ task[c] \in Nat
      /\ Allowlist[c] \subseteq Tools /\ TTL[c] \in Nat
    BY RequestsAssumption, BoundsAssumption DEF TypeOK
<1>2. ASSUME NEW s \in Strangers \cup {TenantId}, NEW kind \in {"utc", "naive"}
      PROVE  /\ Authority(s, kind) \in Blocks
             /\ Authority(s, kind).tools = Allowlist[c]
             /\ Authority(s, kind).tenants = <<s>>
             /\ DOMAIN Authority(s, kind).checks = 1..2
             /\ Authority(s, kind).checks[1].kind = "other"
    BY <1>1 DEF Block, Check, Blocks
<1>3. ASSUME NEW tool \in Tools
      PROVE  /\ Narrow(tool) \in Blocks
             /\ DOMAIN Narrow(tool).checks = 1..2
             /\ Narrow(tool).checks[1].kind = "other"
    BY <1>1 DEF Block, Check, Blocks
<1>4. PICK kid \in {serverKid, None}, s \in Strangers \cup {TenantId}, kind \in {"utc", "naive"} :
          \/ t = Signed(c, kid, <<Authority(s, kind)>>)
          \/ \E tool \in Tools : t = Signed(c, kid, <<Authority(s, kind), Narrow(tool)>>)
    <2>1. PICK form \in forms : t \in Answer(c, form)
        BY DEF Answers
    <2>2. \/ t = Signed(c, serverKid, <<Authority(TenantId, "utc")>>)
          \/ t = Signed(c, None, <<Authority(TenantId, "utc")>>)
          \/ t = Signed(c, serverKid, <<Authority(TenantId, "naive")>>)
          \/ \E tool \in Allowlist[c] :
                 t = Signed(c, serverKid, <<Authority(TenantId, "utc"), Narrow(tool)>>)
          \/ \E s \in Strangers : t = Signed(c, serverKid, <<Authority(s, "utc")>>)
        BY <2>1 DEF Answer, TypeOK, Forms
    <2> QED
        BY <2>2, <1>1
<1>5. CASE t = Signed(c, kid, <<Authority(s, kind)>>)
    <2>1. /\ t.shape = "biscuit" /\ t.kid = kid /\ t.signer = serverKid
          /\ t.blocks = <<Authority(s, kind)>>
          /\ t = [shape |-> "biscuit", kid |-> kid, signer |-> serverKid,
                  blocks |-> <<Authority(s, kind)>>, task |-> task[c]]
        BY <1>5 DEF Signed
    <2> HIDE DEF Authority
    <2>2. t \in Issued
        BY <1>1, <1>2, <2>1 DEF Issued
    <2>3. \A b \in Range(t.blocks) : b = Authority(s, kind)
        BY <2>1 DEF Range
    <2> QED
        BY <1>2, <2>1, <2>2, <2>3 DEF Shaped
<1>6. ASSUME NEW tool \in Tools, t = Signed(c, kid, <<Authority(s, kind), Narrow(tool)>>)
      PROVE  Shaped(t, c) /\ t.task = task[c]
    <2>1. /\ t.shape = "biscuit" /\ t.kid = kid /\ t.signer = serverKid
          /\ t.blocks = <<Authority(s, kind), Narrow(tool)>>
          /\ t = [shape |-> "biscuit", kid |-> kid, signer |-> serverKid,
                  blocks |-> <<Authority(s, kind), Narrow(tool)>>, task |-> task[c]]
        BY <1>6 DEF Signed
    <2> HIDE DEF Authority, Narrow
    <2>2. t \in Issued
        BY <1>1, <1>2, <1>3, <2>1 DEF Issued
    <2>3. \A b \in Range(t.blocks) : b = Authority(s, kind) \/ b = Narrow(tool)
        BY <2>1 DEF Range
    <2> QED
        BY <1>2, <1>3, <2>1, <2>2, <2>3 DEF Shaped
<1> QED
    BY <1>4, <1>5, <1>6

\* Tokens of that shape have one expiry in each block.
LEMMA ShapedIsWellFormed ==
    ASSUME NEW t, NEW c, Shaped(t, c)
    PROVE  WellFormed(t.blocks) /\ 1 \in DOMAIN t.blocks
<1>1. t.blocks \in Seq(Blocks) /\ t.blocks # <<>>
    BY DEF Shaped, Issued
<1>2. 1 \in DOMAIN t.blocks
    BY <1>1
<1>3. ASSUME NEW b \in Range(t.blocks)
      PROVE  /\ DOMAIN b.checks \subseteq Nat
             /\ \A i \in Dated(b) : i = 2 /\ b.checks[i].at \in Int
    <2>1. b \in Blocks
        <3>1. PICK i \in DOMAIN t.blocks : b = t.blocks[i]
            BY DEF Range
        <3> QED
            BY <1>1, <3>1
    <2>2. DOMAIN b.checks = 1..2 /\ b.checks[1].kind = "other"
        BY DEF Shaped
    <2>3. b.checks \in Seq([kind : {"utc", "naive", "other"}, at : Nat])
        BY <2>1 DEF Blocks
    <2>4. ASSUME NEW i \in DOMAIN b.checks
          PROVE  b.checks[i] \in [kind : {"utc", "naive", "other"}, at : Nat]
        BY <2>3, ElementIn, Zenon
    <2>5. \A i \in DOMAIN b.checks : b.checks[i].at \in Nat
        BY <2>4
    <2> QED
        BY <2>2, <2>5 DEF Dated
<1> QED
    BY <1>2, <1>3 DEF WellFormed

\* The tokens of contexts, and those that calls have read from them.
TokensShaped ==
    /\ \A c \in Contexts : token[c] # None => Shaped(token[c], c)
    /\ \A x \in Flows : calls[x].stage = "verifying" => Shaped(calls[x].token, calls[x].ctx)

(***************************************************************************)
(* Type correctness.                                                       *)
(***************************************************************************)

LEMMA InitTyped == Init => TypeOK /\ TokensShaped
<1> SUFFICES ASSUME Init PROVE TypeOK /\ TokensShaped
    OBVIOUS
<1>1. PICK d \in Deployments :
          keyring = ParsedKeyring(d.pubkeys, d.single) /\ activeKid = d.active /\ forms = d.forms
    BY DEF Init
<1>2. DOMAIN keyring \subseteq Keys /\ Range(keyring) \subseteq Keys
    BY <1>1, KeyringTyped
<1>3. activeKid \in Keys \cup {None} /\ forms \subseteq Forms
    BY <1>1, DeploymentsAssumption
<1>4. <<>> \in Seq(Contexts)
    OBVIOUS
<1> QED
    BY <1>2, <1>3, <1>4, NamesAssumption, BoundsAssumption
    DEF Init, TypeOK, TokensShaped, Unset, NoCall

LEMMA StackTyped ==
    ASSUME NEW s \in Seq(Contexts)
    PROVE  /\ \A c \in Contexts : /\ Append(s, c) \in Seq(Contexts)
                                 /\ Len(Append(s, c)) = Len(s) + 1
                                 /\ Append(s, c)[Len(s) + 1] = c
                                 /\ \A i \in 1..Len(s) : Append(s, c)[i] = s[i]
           /\ s # <<>> => /\ Front(s) \in Seq(Contexts)
                          /\ Len(s) \in Nat \ {0} /\ Len(Front(s)) = Len(s) - 1
                          /\ Last(s) \in Contexts /\ Last(s) = s[Len(s)]
                          /\ \A i \in 1..Len(s) - 1 : Front(s)[i] = s[i]
<1>1. \A c \in Contexts : /\ Append(s, c) \in Seq(Contexts)
                          /\ Len(Append(s, c)) = Len(s) + 1
                          /\ Append(s, c)[Len(s) + 1] = c
                          /\ \A i \in 1..Len(s) : Append(s, c)[i] = s[i]
    OBVIOUS
<1>2. ASSUME s # <<>>
      PROVE  /\ Front(s) \in Seq(Contexts)
             /\ Len(s) \in Nat \ {0} /\ Len(Front(s)) = Len(s) - 1
             /\ Last(s) \in Contexts /\ Last(s) = s[Len(s)]
             /\ \A i \in 1..Len(s) - 1 : Front(s)[i] = s[i]
    <2>1. Len(s) \in Nat \ {0} /\ s[Len(s)] \in Contexts
        BY <1>2
    <2>2. Front(s) = SubSeq(s, 1, Len(s) - 1) /\ Last(s) = s[Len(s)]
        BY Zenon DEF Front, Last
    <2>3. /\ SubSeq(s, 1, Len(s) - 1) \in Seq(Contexts)
          /\ Len(SubSeq(s, 1, Len(s) - 1)) = Len(s) - 1
          /\ \A i \in 1..Len(s) - 1 : SubSeq(s, 1, Len(s) - 1)[i] = s[i]
        <3>1. PICK n \in Nat : n = Len(s) - 1
            BY <2>1
        <3>2. \A i \in 1..n : s[i] \in Contexts
            BY <2>1, <3>1
        <3>3. /\ SubSeq(s, 1, n) \in Seq(Contexts)
              /\ Len(SubSeq(s, 1, n)) = n
              /\ \A i \in 1..n : SubSeq(s, 1, n)[i] = s[i]
            BY <3>2, SubSeqProperties
        <3> QED
            BY <3>1, <3>3
    <2> QED
        BY <2>1, <2>2, <2>3
<1> QED
    BY <1>1, <1>2

LEMMA StageTyped ==
    ASSUME TypeOK, NEW x \in Flows
    PROVE  /\ calls[x].stage = "checking" => calls[x] \in Checking
           /\ calls[x].stage = "verifying" => calls[x] \in Verifying
<1>1. calls[x] \in Checking \cup Verifying \cup Running \cup {NoCall}
    BY DEF TypeOK
<1> QED
    BY <1>1 DEF Checking, Verifying, Running, NoCall

LEMMA TypePreserved == TypeOK /\ TokensShaped /\ [Next]_vars => TypeOK' /\ TokensShaped'
<1> SUFFICES ASSUME TypeOK, TokensShaped, [Next]_vars PROVE TypeOK' /\ TokensShaped'
    OBVIOUS
<1> USE BoundsAssumption, NamesAssumption
<1>1. ASSUME NEW x \in Flows, NEW c \in Contexts, EnterBegins(x, c)
      PROVE  TypeOK' /\ TokensShaped'
    <2>1. UNCHANGED forms /\ EntriesMax[forms] \in Nat
        BY <1>1 DEF EnterBegins, configVars, TypeOK
    <2>2. entries' \in 0..EntriesMax[forms]' /\ entries' \in 0..EntriesMax[forms]
        BY <1>1, <2>1 DEF EnterBegins, TypeOK
    <2>3. task' \in [Contexts -> 0..EntriesMax[forms]']
        BY <1>1, <2>1, <2>2 DEF EnterBegins, TypeOK
    <2>4. TokensShaped'
        BY <1>1 DEF EnterBegins, TokensShaped
    <2> QED
        BY <1>1, <2>1, <2>2, <2>3, <2>4 DEF EnterBegins, TypeOK
<1>2. ASSUME NEW x \in Flows, EnterIssued(x)
      PROVE  TypeOK' /\ TokensShaped'
    <2>1. PICK t \in Answers(entering[x]) : token' = [token EXCEPT ![entering[x]] = t]
        BY <1>2 DEF EnterIssued
    <2>2. entering[x] \in Contexts
        BY <1>2 DEF EnterIssued, TypeOK
    <2>3. t # None => Shaped(t, entering[x]) /\ t \in Issued
        BY <2>2, AnswersShaped DEF Shaped
    <2>4. Append(open[x], entering[x]) \in Seq(Contexts)
        BY <2>2, StackTyped DEF TypeOK
    <2>5. TokensShaped'
        BY <1>2, <2>1, <2>2, <2>3 DEF EnterIssued, EnterUnchanged, TypeOK, TokensShaped
    <2> QED
        BY <1>2, <2>1, <2>2, <2>3, <2>4, <2>5
        DEF EnterIssued, EnterUnchanged, TypeOK, Restoring
<1>3. ASSUME NEW x \in Flows, EnterFails(x)
      PROVE  TypeOK' /\ TokensShaped'
    BY <1>3 DEF EnterFails, EnterUnchanged, TypeOK, TokensShaped
<1>4. ASSUME NEW x \in Flows, EnterRaises(x)
      PROVE  TypeOK' /\ TokensShaped'
    <2>1. PICK t \in Answers(entering[x]) : token' = [token EXCEPT ![entering[x]] = t]
        BY <1>4 DEF EnterRaises
    <2>2. entering[x] \in Contexts
        BY <1>4 DEF EnterRaises, TypeOK
    <2>3. t # None => Shaped(t, entering[x]) /\ t \in Issued
        BY <2>2, AnswersShaped DEF Shaped
    <2>4. TokensShaped'
        BY <1>4, <2>1, <2>2, <2>3 DEF EnterRaises, EnterUnchanged, TypeOK, TokensShaped
    <2> QED
        BY <1>4, <2>1, <2>2, <2>3, <2>4 DEF EnterRaises, EnterUnchanged, TypeOK
<1>5. ASSUME NEW x \in Flows, Exit(x)
      PROVE  TypeOK' /\ TokensShaped'
    <2>1. Front(open[x]) \in Seq(Contexts) /\ Last(open[x]) \in Contexts
        BY <1>5, StackTyped DEF Exit, TypeOK
    <2>2. saved[Last(open[x])].old \in Contexts \cup {None}
        BY <2>1 DEF TypeOK
    <2> QED
        BY <1>5, <2>1, <2>2 DEF Exit, TypeOK, TokensShaped, Unset
<1>6. ASSUME NEW x \in Flows, NEW y \in Flows, Spawn(x, y)
      PROVE  TypeOK' /\ TokensShaped'
    BY <1>6 DEF Spawn, TypeOK, TokensShaped
<1>7. ASSUME NEW x \in Flows, NEW tool \in Tools, CallBegins(x, tool)
      PROVE  TypeOK' /\ TokensShaped'
    BY <1>7 DEF CallBegins, CallUnchanged, TypeOK, TokensShaped, Checking, Revoked
<1>8. ASSUME NEW x \in Flows, CallReads(x)
      PROVE  TypeOK' /\ TokensShaped'
    <2>1. calls[x] \in Checking
        BY <1>8, StageTyped DEF CallReads
    <2>2. token[calls[x].ctx] \in Issued /\ Shaped(token[calls[x].ctx], calls[x].ctx)
        BY <1>8, <2>1 DEF CallReads, TypeOK, TokensShaped, Checking
    <2>3. /\ calls'[x] \in Verifying
          /\ Shaped(calls'[x].token, calls'[x].ctx)
          /\ \A y \in Flows \ {x} : calls'[y] = calls[y]
          /\ DOMAIN calls' = Flows /\ calls' = [y \in Flows |-> calls'[y]]
        BY <1>8, <2>1, <2>2 DEF CallReads, TypeOK, Checking, Verifying
    <2>4. calls' \in [Flows -> Checking \cup Verifying \cup Running \cup {NoCall}]
        <3>1. \A y \in Flows : calls'[y] \in Checking \cup Verifying \cup Running \cup {NoCall}
            BY <2>3 DEF TypeOK
        <3> QED
            BY <2>3, <3>1
    <2>5. TypeOK'
        BY <1>8, <2>4 DEF CallReads, CallUnchanged, TypeOK
    <2>6. TokensShaped'
        BY <1>8, <2>3 DEF CallReads, CallUnchanged, TokensShaped
    <2> QED
        BY <2>5, <2>6
<1>9. ASSUME NEW x \in Flows, CallRuns(x)
      PROVE  TypeOK' /\ TokensShaped'
    <2>1. calls[x] \in Verifying
        BY <1>9, StageTyped DEF CallRuns
    <2>2. calls'[x] \in Running
        BY <1>9, <2>1 DEF CallRuns, TypeOK, Verifying, Running
    <2>3. calls' \in [Flows -> Checking \cup Verifying \cup Running \cup {NoCall}]
        BY <1>9, <2>2 DEF CallRuns, TypeOK
    <2>4. \A y \in Flows : calls'[y].stage = "verifying" => calls'[y] = calls[y]
        BY <1>9 DEF CallRuns, TypeOK
    <2> QED
        BY <1>9, <2>3, <2>4 DEF CallRuns, CallUnchanged, TypeOK, TokensShaped
<1>10. ASSUME NEW x \in Flows, CallStops(x) \/ CallReturns(x)
       PROVE  TypeOK' /\ TokensShaped'
    <2>1. calls' = [calls EXCEPT ![x] = NoCall] /\ CallUnchanged
        BY <1>10 DEF CallStops, CallReturns
    <2>2. \A y \in Flows : calls'[y].stage = "verifying" => calls'[y] = calls[y]
        BY <2>1 DEF TypeOK, NoCall
    <2>3. TypeOK'
        BY <2>1 DEF CallUnchanged, TypeOK
    <2>4. TokensShaped'
        BY <2>1, <2>2 DEF CallUnchanged, TokensShaped
    <2> QED
        BY <2>3, <2>4
<1>11. ASSUME Tick \/ Rotate \/ (\E a \in Agents : Kill(a)) \/ UNCHANGED vars
       PROVE  TypeOK' /\ TokensShaped'
    BY <1>11 DEF Tick, Rotate, Kill, vars, TypeOK, TokensShaped
<1> QED
    BY <1>1, <1>2, <1>3, <1>4, <1>5, <1>6, <1>7, <1>8, <1>9, <1>10, <1>11
    DEF Next, EnterStep, CallStep

\* Only CallRuns lets a function run.
LEMMA OnlyCallRunsRuns ==
    ASSUME TypeOK, Next, NEW x \in Flows, Runs(x)
    PROVE  CallRuns(x)
<1> USE DEF Runs
<1>1. \A y \in Flows : EnterStep(y) \/ Exit(y) => FALSE
    BY DEF EnterStep, EnterBegins, EnterIssued, EnterFails, EnterRaises, EnterUnchanged, Exit
<1>2. ASSUME NEW y \in Flows, CallStep(y)
      PROVE  CallRuns(x)
    <2>1. calls \in [Flows -> Checking \cup Verifying \cup Running \cup {NoCall}]
        BY DEF TypeOK
    <2> QED
        BY <1>2, <2>1 DEF CallStep, CallBegins, CallReads, CallRuns, CallStops, CallReturns, NoCall
<1>3. ASSUME NEW y \in Flows, NEW z \in Flows, Spawn(y, z)
      PROVE  FALSE
    BY <1>3 DEF Spawn
<1>4. ~(Tick \/ Rotate \/ \E a \in Agents : Kill(a))
    BY DEF Tick, Rotate, Kill
<1> QED
    BY <1>1, <1>2, <1>3, <1>4 DEF Next

\* Every variable keeps its type: the keyring holds keys only, whatever the
\* environment (_parse_biscuit_keyring).
THEOREM TypeCorrect == Spec => []TypeOK
<1>1. Init => TypeOK /\ TokensShaped
    BY InitTyped
<1>2. TypeOK /\ TokensShaped /\ [Next]_vars => TypeOK' /\ TokensShaped'
    BY TypePreserved
<1> QED
    BY <1>1, <1>2, PTL DEF Spec

(***************************************************************************)
(* The grant.                                                              *)
(***************************************************************************)

\* What Verify accepts for a tool and our tenant is within the grant.
LEMMA AcceptedIsGranted ==
    ASSUME TypeOK, NEW c \in Contexts, NEW t, Shaped(t, c), NEW tool \in Tools,
           Verify(t, keyring, activeKid, tool, TenantId, now) = "ok"
    PROVE  WithinGrant(c, tool, t)
<1>1. WellFormed(t.blocks) /\ 1 \in DOMAIN t.blocks /\ t.shape # "mistyped"
    BY ShapedIsWellFormed DEF Shaped, Issued
<1>2. now \in Int /\ tool # None /\ TenantId # None
    BY NamesAssumption, BoundsAssumption DEF TypeOK
<1>3. Acceptable(t, keyring, activeKid, tool, TenantId, now)
    BY <1>1, <1>2, AcceptsAcceptable
<1>4. \A b \in Range(t.blocks) :
          /\ tool \in b.tools
          /\ \A i \in DOMAIN b.checks : b.checks[i].kind # "other" => now < b.checks[i].at
    BY <1>2, <1>3 DEF Acceptable, Allows, Dated
<1>5. tool \in Allowlist[c]
    BY <1>1, <1>4 DEF Shaped, Range
<1>6. t.blocks[1].tenants = <<TenantId>>
    <2>1. PICK s \in Strangers \cup {TenantId} : t.blocks[1].tenants = <<s>>
        BY DEF Shaped
    <2>2. Tenant(t.blocks[1]) = s
        BY <2>1 DEF Tenant
    <2>3. Tenant(t.blocks[1]) = TenantId
        BY <1>2, <1>3 DEF Acceptable
    <2> QED
        BY <2>1, <2>2, <2>3
<1>7. t.signer \in CandidateKeys(t, keyring, activeKid)
    BY <1>3 DEF Acceptable, Authentic
<1>8. /\ t.signer \in Range(keyring)
      /\ \A kid \in {IF t.kid = None THEN activeKid ELSE t.kid} \ {None} :
             kid \in DOMAIN keyring /\ keyring[kid] = t.signer
    BY <1>7 DEF CandidateKeys, Range
<1> QED
    BY <1>4, <1>5, <1>6, <1>8 DEF WithinGrant

\* Whatever happens while a call is on its way (rotation, expiry, re-entry of its
\* context), what verify_local then lets through is within the grant: scope,
\* expiry of every block, key and tenant (decorators.py, the token step).
THEOREM GrantRespected == Spec => RunsWithinGrant
<1>1. ASSUME TypeOK, TokensShaped, Next, NEW x \in Flows, Runs(x)
      PROVE  WithinGrant(calls[x].ctx, calls[x].tool, calls[x].token)
    <2>1. CallRuns(x)
        BY <1>1, OnlyCallRunsRuns
    <2>2. calls[x].ctx \in Contexts /\ calls[x].tool \in Tools
        <3>1. calls[x] \in Verifying
            BY <1>1, StageTyped DEF Runs
        <3> QED
            BY <3>1 DEF Verifying
    <2>3. Verify(calls[x].token, keyring, activeKid, calls[x].tool, TenantId, now) = "ok"
        BY <2>1 DEF CallRuns, Verdict
    <2>4. Shaped(calls[x].token, calls[x].ctx)
        BY <1>1 DEF Runs, TokensShaped
    <2> QED
        BY <1>1, <2>2, <2>3, <2>4, AcceptedIsGranted
<1>2. TypeOK /\ TokensShaped /\ [Next]_vars =>
          [\A x \in Flows : Runs(x) =>
               WithinGrant(calls[x].ctx, calls[x].tool, calls[x].token)]_vars
    BY <1>1
<1> QED
    BY <1>2, InitTyped, TypePreserved, PTL DEF Spec, RunsWithinGrant

(***************************************************************************)
(* The task id and the token.                                              *)
(***************************************************************************)

\* Unless it is entered while it is in use: whoever sees a context sees a token
\* for its task id, or none; a call that looked the id up has the right one, and
\* once it has read the token, one that matches; nobody sees a context that waits
\* for its token; no two flows enter the same one.
Tasks ==
    /\ \A c \in Contexts \ reused :
           /\ Seen(c) => token[c] = None \/ token[c].task = task[c]
           /\ \A x \in Flows :
                  /\ calls[x].stage = "checking" /\ calls[x].ctx = c => calls[x].task = task[c]
                  /\ entering[x] = c => ~Seen(c)
    /\ \A x \in Flows :
           calls[x].stage = "verifying" /\ calls[x].ctx \notin reused =>
               calls[x].token.task = calls[x].task
    /\ \A x, y \in Flows : x # y /\ entering[x] # None => entering[x] # entering[y]

\* A context comes into sight only by being entered.
LEMMA SeenFirst ==
    ASSUME TypeOK, [Next]_vars, NEW c \in Contexts, Seen(c)', ~Seen(c)
    PROVE  \E x \in Flows : EnterIssued(x) /\ entering[x] = c
<1> USE DEF Seen
<1> USE NamesAssumption
<1>1. ASSUME NEW x \in Flows, NEW d \in Contexts, EnterBegins(x, d)
      PROVE  FALSE
    BY <1>1 DEF EnterBegins
<1>2. ASSUME NEW x \in Flows, EnterIssued(x), entering[x] # c
      PROVE  FALSE
    <2>1. /\ current' = [current EXCEPT ![x] = entering[x]] /\ calls' = calls
          /\ saved' = [saved EXCEPT ![entering[x]] = Restoring(current[x])]
          /\ open' = [open EXCEPT ![x] = Append(@, entering[x])]
        BY <1>2 DEF EnterIssued, EnterUnchanged
    <2>2. entering[x] \in Contexts /\ open[x] \in Seq(Contexts)
        BY <1>2 DEF EnterIssued, TypeOK
    <2>3. \A y \in Flows : c \in Range(open'[y]) => c \in Range(open[y])
        <3>1. c \in Range(Append(open[x], entering[x])) => c \in Range(open[x])
            BY <1>2, <2>2 DEF Range
        <3> QED
            BY <2>1, <3>1 DEF TypeOK
    <2>4. \A y \in Flows : current'[y] = c => current[y] = c
        BY <1>2, <2>1 DEF TypeOK
    <2>5. \A d \in Contexts : saved'[d] = Restoring(c) => saved[d] = Restoring(c) \/ current[x] = c
        BY <2>1, <2>2 DEF TypeOK, Restoring
    <2> QED
        BY <2>1, <2>3, <2>4, <2>5
<1>3. ASSUME NEW x \in Flows, EnterFails(x) \/ EnterRaises(x)
      PROVE  FALSE
    BY <1>3 DEF EnterFails, EnterRaises, EnterUnchanged
<1>4. ASSUME NEW x \in Flows, Exit(x)
      PROVE  FALSE
    <2> DEFINE d == Last(open[x])
    <2>1. open[x] \in Seq(Contexts) /\ open[x] # <<>> /\ d \in Contexts
        BY <1>4, StackTyped DEF Exit, TypeOK
    <2>2. /\ current' = [current EXCEPT ![x] = IF saved[d].held THEN saved[d].old ELSE @]
          /\ saved' = [saved EXCEPT ![d] = Unset] /\ calls' = calls
          /\ open' = [open EXCEPT ![x] = Front(@)]
        BY <1>4 DEF Exit
    <2> HIDE DEF d
    <2>3. \A y \in Flows : c \in Range(open'[y]) => c \in Range(open[y])
        <3>1. c \in Range(Front(open[x])) => c \in Range(open[x])
            <4>1. /\ Front(open[x]) \in Seq(Contexts) /\ Len(open[x]) \in Nat \ {0}
                  /\ Len(Front(open[x])) = Len(open[x]) - 1
                  /\ \A i \in 1..Len(open[x]) - 1 : Front(open[x])[i] = open[x][i]
                BY <2>1, StackTyped
            <4>2. DOMAIN Front(open[x]) = 1..Len(open[x]) - 1 /\ DOMAIN open[x] = 1..Len(open[x])
                BY <2>1, <4>1
            <4> QED
                BY <4>1, <4>2 DEF Range
        <3> QED
            BY <2>2, <3>1 DEF TypeOK
    <2>4. saved[d] \in [held : BOOLEAN, old : Contexts \cup {None}]
        BY <2>1 DEF TypeOK
    <2>5. saved[d].held /\ saved[d].old = c => saved[d] = Restoring(c)
        BY <2>4 DEF Restoring
    <2>6. \A y \in Flows : current'[y] = c => current[y] = c \/ saved[d] = Restoring(c)
        BY <2>2, <2>5 DEF TypeOK
    <2>7. \A e \in Contexts : saved'[e] = Restoring(c) => saved[e] = Restoring(c)
        BY <2>1, <2>2 DEF TypeOK, Restoring, Unset
    <2> QED
        BY <2>1, <2>2, <2>3, <2>6, <2>7
<1>5. ASSUME NEW x \in Flows, NEW y \in Flows, Spawn(x, y)
      PROVE  FALSE
    BY <1>5 DEF Spawn, TypeOK
<1>6. ASSUME NEW x \in Flows, CallStep(x)
      PROVE  FALSE
    <2>1. CallUnchanged
        BY <1>6 DEF CallStep, CallBegins, CallReads, CallRuns, CallStops, CallReturns
    <2>2. calls \in [Flows -> Checking \cup Verifying \cup Running \cup {NoCall}]
        BY DEF TypeOK
    <2>3. \A y \in Flows : calls'[y].stage = "checking" =>
              \/ calls'[y].ctx = calls[y].ctx /\ calls[y].stage = "checking"
              \/ calls'[y].ctx = current[y]
        BY <1>6, <2>2 DEF CallStep, CallBegins, CallReads, CallRuns, CallStops, CallReturns, NoCall
    <2> QED
        BY <2>1, <2>3 DEF CallUnchanged
<1>7. ~(Tick \/ Rotate \/ (\E a \in Agents : Kill(a)) \/ UNCHANGED vars)
    BY DEF Tick, Rotate, Kill, vars
<1> QED
    BY <1>1, <1>2, <1>3, <1>4, <1>5, <1>6, <1>7 DEF Next, EnterStep

LEMMA TasksPreserved == TypeOK /\ Tasks /\ [Next]_vars => Tasks'
<1> SUFFICES ASSUME TypeOK, Tasks, [Next]_vars PROVE Tasks'
    OBVIOUS
<1> USE NamesAssumption
<1> DEFINE Entered(c) == \E x \in Flows : EnterIssued(x) /\ entering[x] = c
<1>0. \A c \in Contexts : Seen(c)' => Seen(c) \/ Entered(c)
    BY SeenFirst
<1>1. ASSUME NEW x \in Flows, NEW c \in Contexts, EnterBegins(x, c)
      PROVE  Tasks'
    <2>1. /\ reused' = IF Seen(c) THEN reused \cup {c} ELSE reused
          /\ task' = [task EXCEPT ![c] = entries + 1]
          /\ entering' = [entering EXCEPT ![x] = c]
          /\ entering[x] = None /\ token' = token /\ calls' = calls
          /\ \A y \in Flows \ {x} : entering[y] # c
        BY <1>1 DEF EnterBegins, Free
    <2>2. \A d \in Contexts : Seen(d)' <=> Seen(d)
        BY <1>1 DEF EnterBegins, Seen
    <2>3. \A d \in Contexts : \A y \in Flows :
              calls[y].stage = "checking" /\ calls[y].ctx = d => Seen(d)
        BY DEF Seen
    <2> QED
        BY <2>1, <2>2, <2>3 DEF Tasks, TypeOK
<1>2. ASSUME NEW x \in Flows, EnterIssued(x) \/ EnterRaises(x)
      PROVE  Tasks'
    <2> DEFINE e == entering[x]
    <2>1. /\ e \in Contexts /\ task' = task /\ calls' = calls /\ reused' = reused
          /\ entering' = [entering EXCEPT ![x] = None]
        BY <1>2 DEF EnterIssued, EnterRaises, EnterUnchanged, TypeOK
    <2>2. PICK t \in Answers(e) : token' = [token EXCEPT ![e] = t]
        BY <1>2 DEF EnterIssued, EnterRaises
    <2>3. t # None => t.task = task[e]
        BY <2>1, AnswersShaped DEF Shaped
    <2>5. \A c \in Contexts : Seen(c)' => Seen(c) \/ c = e
        <3>1. ASSUME NEW y \in Flows, NEW c \in Contexts, EnterIssued(y), entering[y] = c, c # e
              PROVE  Seen(c)' => Seen(c)
            <4>1. y # x
                BY <3>1
            <4>2. entering'[y] = None /\ entering'[y] = entering[y]
                BY <2>1, <3>1, <4>1 DEF EnterIssued, TypeOK
            <4> QED
                BY <3>1, <4>2 DEF EnterIssued
        <3> QED
            BY <1>0, <3>1
    <2> HIDE DEF e
    <2>6. ASSUME NEW c \in Contexts \ reused
          PROVE  Seen(c)' => token'[c] = None \/ token'[c].task = task'[c]
        BY <2>1, <2>2, <2>3, <2>5 DEF Tasks, TypeOK
    <2>7. ASSUME NEW c \in Contexts \ reused, NEW y \in Flows
          PROVE  entering'[y] = c => ~Seen(c)'
        <3>1. entering'[y] = c => y # x /\ entering[y] = c
            BY <2>1 DEF TypeOK
        <3>2. entering[y] = c /\ y # x => c # e /\ ~Seen(c)
            BY <2>1 DEF Tasks, e
        <3> QED
            BY <2>5, <3>1, <3>2
    <2>8. \A y, z \in Flows : y # z /\ entering'[y] # None => entering'[y] # entering'[z]
        BY <2>1 DEF Tasks, TypeOK
    <2> QED
        BY <2>1, <2>6, <2>7, <2>8 DEF Tasks
<1>3. ASSUME \A c \in Contexts : Seen(c)' => Seen(c), task' = task, token' = token,
             reused' = reused,
             \A x \in Flows : entering'[x] \in {entering[x], None},
             \A x \in Flows : calls'[x].stage = "checking" =>
                 \/ calls'[x] = calls[x]
                 \/ calls'[x].task = task[calls'[x].ctx],
             \A x \in Flows : calls'[x].stage = "verifying" =>
                 \/ calls'[x] = calls[x]
                 \/ calls'[x].ctx \in reused
                 \/ calls'[x].token.task = calls'[x].task
      PROVE  Tasks'
    BY <1>3 DEF Tasks
<1>4. ASSUME NEW x \in Flows, EnterFails(x)
      PROVE  Tasks'
    <2>1. \A c \in Contexts : Seen(c)' => Seen(c)
        BY <1>4 DEF Seen, EnterFails, EnterUnchanged
    <2> QED
        BY <1>3, <1>4, <2>1 DEF EnterFails, EnterUnchanged, TypeOK
<1>5. ASSUME NEW x \in Flows, Exit(x)
      PROVE  Tasks'
    <2>1. \A y \in Flows : ~EnterIssued(y)
        BY <1>5 DEF Exit, EnterIssued, TypeOK
    <2> QED
        BY <1>0, <1>3, <1>5, <2>1 DEF Exit
<1>6. ASSUME NEW x \in Flows, NEW y \in Flows, Spawn(x, y)
      PROVE  Tasks'
    <2>1. \A z \in Flows : ~EnterIssued(z)
        BY <1>6 DEF Spawn, EnterIssued, TypeOK
    <2> QED
        BY <1>0, <1>3, <1>6, <2>1 DEF Spawn
<1>7. ASSUME NEW x \in Flows, CallStep(x)
      PROVE  Tasks'
    <2>1. CallUnchanged
        BY <1>7 DEF CallStep, CallBegins, CallReads, CallRuns, CallStops, CallReturns
    <2>2. \A y \in Flows : ~EnterIssued(y)
        BY <2>1 DEF CallUnchanged, EnterIssued, TypeOK
    <2>3. calls \in [Flows -> Checking \cup Verifying \cup Running \cup {NoCall}]
        BY DEF TypeOK
    <2>4. \A y \in Flows : calls'[y].stage = "checking" =>
              calls'[y] = calls[y] \/ calls'[y].task = task[calls'[y].ctx]
        BY <1>7, <2>3 DEF CallStep, CallBegins, CallReads, CallRuns, CallStops, CallReturns, NoCall
    <2>5. \A y \in Flows : calls'[y].stage = "verifying" =>
              calls'[y] = calls[y] \/ CallReads(y)
        BY <1>7, <2>3 DEF CallStep, CallBegins, CallReads, CallRuns, CallStops, CallReturns, NoCall
    <2>6. ASSUME NEW y \in Flows, CallReads(y)
          PROVE  calls'[y].ctx \in reused \/ calls'[y].token.task = calls'[y].task
        <3>1. calls[y] \in Checking /\ calls[y].stage = "checking" /\ token[calls[y].ctx] # None
            BY <2>6, StageTyped DEF CallReads
        <3>2. calls[y].ctx \in Contexts /\ Seen(calls[y].ctx)
            BY <3>1 DEF Seen, Checking
        <3>3. calls[y].ctx \notin reused => token[calls[y].ctx].task = calls[y].task
            BY <3>1, <3>2 DEF Tasks
        <3>4. /\ calls'[y].ctx = calls[y].ctx /\ calls'[y].task = calls[y].task
              /\ calls'[y].token = token[calls[y].ctx]
            BY <2>3, <2>6 DEF CallReads
        <3> QED
            BY <3>3, <3>4
    <2> QED
        BY <1>0, <1>3, <2>1, <2>2, <2>4, <2>5, <2>6 DEF CallUnchanged
<1>8. ASSUME Tick \/ Rotate \/ (\E a \in Agents : Kill(a)) \/ UNCHANGED vars
      PROVE  Tasks'
    <2>1. UNCHANGED <<current, open, entering, task, token, saved, calls, reused>>
        BY <1>8 DEF Tick, Rotate, Kill, vars
    <2>2. \A c \in Contexts : Seen(c)' <=> Seen(c)
        BY <2>1 DEF Seen
    <2> QED
        BY <1>3, <2>1, <2>2
<1> QED
    BY <1>1, <1>2, <1>4, <1>5, <1>6, <1>7, <1>8 DEF Next, EnterStep

LEMMA InitTasks == Init => Tasks
<1> SUFFICES ASSUME Init PROVE Tasks
    OBVIOUS
<1>1. \A x \in Flows : entering[x] = None /\ calls[x].stage = "none"
    BY DEF Init, NoCall
<1>2. \A c \in Contexts : ~Seen(c)
    <2>1. \A x \in Flows : Range(open[x]) = {} /\ current[x] = None
        BY DEF Init, Range
    <2>2. \A c, d \in Contexts : saved[d] # Restoring(c)
        BY DEF Init, Unset, Restoring
    <2> QED
        BY <1>1, <2>1, <2>2, NamesAssumption DEF Seen
<1> QED
    BY <1>1, <1>2, NamesAssumption DEF Tasks

\* A function runs under a token for the task id its call is checked and audited
\* under (SigilTaskContext.__enter__ sets the id before it asks for the token),
\* unless the context was entered again while it was in use.
THEOREM TaskIsTokens == Spec => TaskMatchesToken
<1>1. ASSUME Tasks, NEW x \in Flows, Runs(x), calls[x].ctx \notin reused
      PROVE  calls[x].token.task = calls[x].task
    BY <1>1 DEF Tasks, Runs
<1>2. TypeOK /\ Tasks /\ [Next]_vars =>
          [\A x \in Flows : Runs(x) => \/ calls[x].ctx \in reused
                                      \/ calls[x].token.task = calls[x].task]_vars
    BY <1>1
<1> QED
    BY <1>2, InitTyped, TypePreserved, InitTasks, TasksPreserved, PTL DEF Spec, TaskMatchesToken

(***************************************************************************)
(* The contextvar and the stack of with blocks.                            *)
(***************************************************************************)

\* What lies below the i-th open context of a flow.
Below(x, i) == IF i = 1 THEN base[x] ELSE open[x][i - 1]

\* The i-th open context of a flow is the last one of its kind there.
Topmost(x, i) == \A j \in DOMAIN open[x] : open[x][j] = open[x][i] => j <= i

\* An exit will restore what lies below.
Restores(x, i) ==
    LET c == open[x][i] IN
    /\ Topmost(x, i) /\ saved[c].held => saved[c].old \in reused \cup {Below(x, i)}
    /\ c \notin reused => /\ saved[c].held
                          /\ \A j \in DOMAIN open[x] : open[x][j] = c => j = i

Stacks ==
    /\ \A x \in Flows : \A i \in DOMAIN open[x] : Restores(x, i)
    /\ \A x, y \in Flows : x # y =>
           /\ \A i \in DOMAIN open[x], j \in DOMAIN open[y] : open[x][i] # open[y][j]
           /\ \A i \in DOMAIN open[y] : open[y][i] # entering[x]
    /\ \A x \in Flows \ alive : open[x] = <<>> /\ entering[x] = None

IInv == TypeOK /\ TokensShaped /\ Tasks /\ Stacks /\ InnermostTask

LEMMA InitStacks == Init => Stacks /\ InnermostTask
<1> SUFFICES ASSUME Init PROVE Stacks /\ InnermostTask
    OBVIOUS
<1>1. \A x \in Flows : open[x] = <<>> /\ DOMAIN open[x] = {} /\ entering[x] = None
    BY DEF Init
<1>2. \A x \in Flows : current[x] = None /\ base[x] = None
    BY DEF Init
<1> QED
    BY <1>1, <1>2 DEF Stacks, InnermostTask, Innermost

\* A step that opens and closes nothing and starts no flow.
LEMMA StacksKept ==
    ASSUME Stacks, InnermostTask, reused \subseteq reused',
           UNCHANGED <<open, saved, current, base, alive>>,
           \A x, y \in Flows : x # y /\ entering'[x] # entering[x] =>
               \A i \in DOMAIN open[y] : open[y][i] # entering'[x],
           \A x \in Flows \ alive : entering'[x] = None
    PROVE  (Stacks /\ InnermostTask)'
BY DEF Stacks, Restores, Topmost, Below, InnermostTask, Innermost

LEMMA EnteredStack ==
    ASSUME IInv, NEW x \in Flows, EnterIssued(x)
    PROVE  (Stacks /\ InnermostTask)'
<1> DEFINE c == entering[x]
<1>1. /\ c \in Contexts /\ open[x] \in Seq(Contexts) /\ x \in alive
      /\ open \in [Flows -> Seq(Contexts)]
    BY DEF IInv, EnterIssued, TypeOK, Stacks
<1>0. PICK n \in Nat \ {0} : n = Len(open[x]) + 1
    BY <1>1
<1>2. /\ open' = [open EXCEPT ![x] = Append(@, c)]
      /\ saved' = [saved EXCEPT ![c] = Restoring(current[x])]
      /\ current' = [current EXCEPT ![x] = c]
      /\ entering' = [entering EXCEPT ![x] = None]
      /\ UNCHANGED <<reused, alive, base>>
    BY DEF EnterIssued, EnterUnchanged
<1>3. /\ DOMAIN open'[x] = DOMAIN open[x] \cup {n} /\ DOMAIN open[x] = 1..n - 1 /\ n \in Nat \ {0}
      /\ open'[x][n] = c /\ \A i \in DOMAIN open[x] : open'[x][i] = open[x][i]
      /\ open'[x] \in Seq(Contexts) /\ Len(open'[x]) = n
    BY <1>1, <1>2, <1>0, StackTyped
<1>4. \A y \in Flows \ {x} : /\ open'[y] = open[y] /\ entering'[y] = entering[y]
                             /\ current'[y] = current[y]
                             /\ \A i \in DOMAIN open[y] : open[y][i] # c
    BY <1>1, <1>2 DEF IInv, Stacks, TypeOK
<1>5. c \notin reused => \A i \in DOMAIN open[x] : open[x][i] # c
    BY <1>1 DEF IInv, Tasks, Seen, Range
<1>6. /\ saved'[c].held /\ saved'[c].old = current[x] /\ current'[x] = c /\ entering'[x] = None
      /\ \A d \in Contexts \ {c} : saved'[d] = saved[d]
    BY <1>1, <1>2 DEF IInv, TypeOK, Restoring
<1>7. \A y \in Flows : \A i \in DOMAIN open[y] : open[y][i] \in Contexts
    BY <1>1
<1>8. current[x] \in reused \cup {IF n = 1 THEN base[x] ELSE open[x][n - 1]}
    <2>1. open[x] = <<>> <=> n = 1
        BY <1>1, <1>0
    <2>2. n # 1 => Last(open[x]) = open[x][n - 1]
        BY <1>1, <1>0 DEF Last
    <2> QED
        BY <2>1, <2>2 DEF IInv, InnermostTask, Innermost
<1> HIDE DEF c
<1>9. ASSUME NEW i \in DOMAIN open'[x]
      PROVE  Restores(x, i)'
    <2>1. CASE i = n
        <3>1. Below(x, n)' = IF n = 1 THEN base[x] ELSE open[x][n - 1]
            <4>1. n # 1 => n - 1 \in DOMAIN open[x]
                BY <1>3
            <4> QED
                BY <1>2, <1>3, <4>1 DEF Below
        <3>2. open'[x][i] = c /\ saved'[c].held /\ saved'[c].old \in reused' \cup {Below(x, i)'}
            BY <1>2, <1>3, <1>6, <1>8, <2>1, <3>1
        <3>3. c \notin reused' => \A j \in DOMAIN open'[x] : open'[x][j] = c => j = i
            BY <1>2, <1>3, <1>5, <2>1
        <3> QED
            BY <3>2, <3>3 DEF Restores
    <2>2. CASE i \in DOMAIN open[x] /\ open[x][i] = c
        BY <1>2, <1>3, <1>5, <2>2 DEF Restores, Topmost
    <2>3. CASE i \in DOMAIN open[x] /\ open[x][i] # c
        <3>1. Restores(x, i) /\ Below(x, i)' = Below(x, i)
            BY <1>2, <1>3, <2>3 DEF IInv, Stacks, Below
        <3>2. Topmost(x, i)' => Topmost(x, i)
            BY <1>3, <2>3 DEF Topmost
        <3>3. saved'[open[x][i]] = saved[open[x][i]] /\ open'[x][i] = open[x][i]
            BY <1>3, <1>6, <1>7, <2>3
        <3> QED
            BY <1>2, <1>3, <2>3, <3>1, <3>2, <3>3 DEF Restores
    <2> QED
        BY <1>3, <2>1, <2>2, <2>3
<1>10. ASSUME NEW y \in Flows \ {x}, NEW i \in DOMAIN open'[y]
       PROVE  Restores(y, i)'
    <2>1. Restores(y, i) /\ open[y][i] # c /\ open[y][i] \in Contexts
        BY <1>4, <1>7 DEF IInv, Stacks
    <2> QED
        BY <1>2, <1>4, <1>6, <2>1 DEF Restores, Topmost, Below
<1>11. Stacks'
    <2>1. ASSUME NEW y \in Flows, NEW z \in Flows, y # z
          PROVE  /\ \A i \in DOMAIN open'[y], j \in DOMAIN open'[z] : open'[y][i] # open'[z][j]
                 /\ \A i \in DOMAIN open'[z] : open'[z][i] # entering'[y]
        <3>1. /\ \A i \in DOMAIN open[y], j \in DOMAIN open[z] : open[y][i] # open[z][j]
              /\ \A i \in DOMAIN open[z] : open[z][i] # entering[y]
            BY <2>1 DEF IInv, Stacks
        <3>2. entering[x] # entering[y] \/ x = y
            BY <1>1, NamesAssumption DEF IInv, Tasks, c
        <3>3. \A u \in Flows : \A i \in DOMAIN open[u] : open[u][i] # None
            BY <1>7, NamesAssumption
        <3>4. CASE y = x
            BY <1>3, <1>4, <1>6, <2>1, <3>1, <3>3, <3>4
        <3>5. CASE z = x
            <4>1. /\ entering'[y] = entering[y] /\ entering[y] # c
                  /\ \A i \in DOMAIN open[y] : open'[y][i] = open[y][i] /\ open[y][i] # c
                BY <1>4, <2>1, <3>2, <3>5 DEF c
            <4> QED
                BY <1>3, <1>4, <2>1, <3>1, <3>5, <4>1
        <3>6. CASE y # x /\ z # x
            BY <1>4, <3>1, <3>6
        <3> QED
            BY <3>4, <3>5, <3>6
    <2>2. \A y \in Flows \ alive' : open'[y] = <<>> /\ entering'[y] = None
        BY <1>1, <1>2, <1>4 DEF IInv, Stacks
    <2> QED
        BY <1>9, <1>10, <2>1, <2>2 DEF Stacks
<1>12. InnermostTask'
    <2>1. Innermost(x)' = c
        BY <1>3 DEF Innermost, Last
    <2>2. \A y \in Flows \ {x} : Innermost(y)' = Innermost(y)
        BY <1>2, <1>4 DEF Innermost
    <2> QED
        BY <1>2, <1>4, <1>6, <2>1, <2>2 DEF IInv, InnermostTask
<1> QED
    BY <1>11, <1>12

LEMMA ExitedStack ==
    ASSUME IInv, NEW x \in Flows, Exit(x)
    PROVE  (Stacks /\ InnermostTask)'
<1> DEFINE c == Last(open[x])
           n == Len(open[x])
<1>1. open[x] \in Seq(Contexts) /\ open[x] # <<>> /\ open \in [Flows -> Seq(Contexts)] /\ x \in alive
    BY DEF IInv, Exit, TypeOK, Free
<1>2. /\ open' = [open EXCEPT ![x] = Front(@)]
      /\ saved' = [saved EXCEPT ![c] = Unset]
      /\ current' = [current EXCEPT ![x] = IF saved[c].held THEN saved[c].old ELSE @]
      /\ UNCHANGED <<entering, reused, alive, base>>
    BY DEF Exit
<1>3. /\ n \in Nat \ {0} /\ DOMAIN open[x] = 1..n /\ c = open[x][n] /\ c \in Contexts
      /\ open'[x] \in Seq(Contexts) /\ Len(open'[x]) = n - 1 /\ DOMAIN open'[x] = 1..n - 1
      /\ \A i \in 1..n - 1 : open'[x][i] = open[x][i]
    <2>1. open'[x] = Front(open[x])
        BY <1>1, <1>2
    <2> QED
        BY <1>1, <2>1, StackTyped
<1>4. \A y \in Flows \ {x} : /\ open'[y] = open[y] /\ current'[y] = current[y]
                             /\ \A i \in DOMAIN open[y] : open[y][i] # c
    BY <1>1, <1>2, <1>3 DEF IInv, Stacks, TypeOK
<1>5. /\ ~saved'[c].held
      /\ \A d \in Contexts \ {c} : saved'[d] = saved[d]
    BY <1>2, <1>3 DEF IInv, TypeOK, Unset
<1>6. \A y \in Flows : \A i \in DOMAIN open[y] : open[y][i] \in Contexts
    BY <1>1
<1>7. Restores(x, n) /\ n \in DOMAIN open[x]
    BY <1>3 DEF IInv, Stacks
<1> HIDE DEF c, n
<1>8. \A i \in 1..n - 1 : i \in 1..n /\ i # n
    BY <1>3
<1>9. ASSUME NEW i \in DOMAIN open'[x]
      PROVE  Restores(x, i)'
    <2>1. i \in 1..n - 1 /\ i \in DOMAIN open[x] /\ i # n /\ open'[x][i] = open[x][i]
        BY <1>3, <1>8
    <2>2. Restores(x, i) /\ open[x][i] \in Contexts
        BY <1>6, <2>1 DEF IInv, Stacks
    <2>3. CASE open[x][i] = c
        <3>1. c \in reused
            BY <1>3, <1>7, <2>1, <2>3 DEF Restores
        <3> QED
            BY <1>2, <1>5, <2>1, <2>3, <3>1 DEF Restores
    <2>4. CASE open[x][i] # c
        <3>1. Topmost(x, i)' => Topmost(x, i)
            <4>1. \A j \in DOMAIN open[x] : j # n => j \in DOMAIN open'[x]
                BY <1>3
            <4> QED
                BY <1>3, <2>1, <2>4, <4>1 DEF Topmost
        <3>2. Below(x, i)' = Below(x, i)
            <4>1. i # 1 => i - 1 \in 1..n - 1
                BY <1>3, <2>1
            <4> QED
                BY <1>2, <1>3, <4>1 DEF Below
        <3>3. saved'[open[x][i]] = saved[open[x][i]]
            BY <1>5, <2>2, <2>4
        <3>4. open[x][i] \notin reused =>
                  \A j \in DOMAIN open'[x] : open'[x][j] = open[x][i] => j = i
            BY <1>3, <1>8, <2>2 DEF Restores
        <3> QED
            BY <1>2, <2>1, <2>2, <3>1, <3>2, <3>3, <3>4 DEF Restores
    <2> QED
        BY <2>3, <2>4
<1>10. ASSUME NEW y \in Flows \ {x}, NEW i \in DOMAIN open'[y]
       PROVE  Restores(y, i)'
    <2>1. Restores(y, i) /\ open[y][i] # c /\ open[y][i] \in Contexts
        BY <1>4, <1>6 DEF IInv, Stacks
    <2> QED
        BY <1>2, <1>4, <1>5, <2>1 DEF Restores, Topmost, Below
<1>11. Stacks'
    <2>1. \A y \in Flows : \A i \in DOMAIN open'[y] : i \in DOMAIN open[y] /\ open'[y][i] = open[y][i]
        BY <1>3, <1>4, <1>8
    <2>2. \A y \in Flows \ alive' : open'[y] = <<>> /\ entering'[y] = None
        BY <1>1, <1>2, <1>4 DEF IInv, Stacks
    <2>3. ASSUME NEW y \in Flows, NEW z \in Flows, y # z
          PROVE  /\ \A i \in DOMAIN open'[y], j \in DOMAIN open'[z] : open'[y][i] # open'[z][j]
                 /\ \A i \in DOMAIN open'[z] : open'[z][i] # entering'[y]
        BY <1>2, <2>1, <2>3 DEF IInv, Stacks
    <2> QED
        BY <1>9, <1>10, <2>2, <2>3 DEF Stacks
<1>12. InnermostTask'
    <2>1. Innermost(x)' = Below(x, n)
        <3>1. open'[x] = <<>> <=> n = 1
            BY <1>3
        <3>2. n # 1 => n - 1 \in 1..n - 1 /\ Last(open'[x]) = open[x][n - 1]
            BY <1>3 DEF Last
        <3> QED
            BY <1>2, <3>1, <3>2 DEF Innermost, Below
    <2>2. Topmost(x, n)
        BY <1>3 DEF Topmost
    <2>3. saved[c].held => saved[c].old \in reused \cup {Below(x, n)}
        BY <1>3, <1>7, <2>2 DEF Restores
    <2>4. ~saved[c].held => c \in reused
        BY <1>3, <1>7 DEF Restores
    <2>5. current[x] \in reused \cup {c}
        BY <1>1 DEF IInv, InnermostTask, Innermost, c
    <2>6. current'[x] \in reused \cup {Below(x, n)}
        <3>1. current'[x] = IF saved[c].held THEN saved[c].old ELSE current[x]
            BY <1>2 DEF IInv, TypeOK
        <3> QED
            BY <2>3, <2>4, <2>5, <3>1
    <2>7. \A y \in Flows \ {x} : Innermost(y)' = Innermost(y)
        BY <1>2, <1>4 DEF Innermost
    <2> QED
        BY <1>2, <1>4, <2>1, <2>6, <2>7 DEF IInv, InnermostTask
<1> QED
    BY <1>11, <1>12

LEMMA IInvPreserved == IInv /\ [Next]_vars => IInv'
<1> SUFFICES ASSUME IInv, [Next]_vars PROVE (Stacks /\ InnermostTask)'
    BY TypePreserved, TasksPreserved DEF IInv
<1> USE NamesAssumption
<1>1. ASSUME NEW x \in Flows, NEW c \in Contexts, EnterBegins(x, c)
      PROVE  (Stacks /\ InnermostTask)'
    <2>1. /\ x \in alive /\ entering' = [entering EXCEPT ![x] = c] /\ reused \subseteq reused'
          /\ UNCHANGED <<open, saved, current, base, alive>>
          /\ \A y \in Flows \ {x} : c \notin Range(open[y])
        BY <1>1 DEF EnterBegins, Free
    <2>2. \A y \in Flows \ {x} : \A i \in DOMAIN open[y] : open[y][i] # c
        BY <2>1 DEF Range
    <2> QED
        BY <2>1, <2>2, StacksKept DEF IInv, TypeOK, Stacks
<1>2. ASSUME NEW x \in Flows, EnterFails(x) \/ EnterRaises(x)
      PROVE  (Stacks /\ InnermostTask)'
    <2>1. /\ entering' = [entering EXCEPT ![x] = None]
          /\ UNCHANGED <<open, saved, current, base, alive, reused>>
        BY <1>2 DEF EnterFails, EnterRaises, EnterUnchanged
    <2>2. \A y \in Flows : \A i \in DOMAIN open[y] : open[y][i] # None
        BY DEF IInv, TypeOK
    <2> QED
        BY <2>1, <2>2, StacksKept DEF IInv, TypeOK, Stacks
<1>3. ASSUME NEW x \in Flows, NEW y \in Flows, Spawn(x, y)
      PROVE  (Stacks /\ InnermostTask)'
    <2>1. PICK start : /\ current' = [current EXCEPT ![y] = start]
                       /\ base' = [base EXCEPT ![y] = start]
        BY <1>3 DEF Spawn
    <2>2. /\ y \notin alive /\ alive' = alive \cup {y}
          /\ UNCHANGED <<open, entering, saved, reused>>
        BY <1>3 DEF Spawn
    <2>3. open[y] = <<>> /\ DOMAIN open[y] = {}
        BY <2>2 DEF IInv, Stacks
    <2>4. \A z \in Flows \ {y} : current'[z] = current[z] /\ base'[z] = base[z]
        BY <2>1 DEF IInv, TypeOK
    <2>5. current'[y] = start /\ base'[y] = start
        BY <2>1 DEF IInv, TypeOK
    <2>6. \A z \in Flows : \A i \in DOMAIN open'[z] : Restores(z, i)'
        BY <2>2, <2>3, <2>4 DEF IInv, Stacks, Restores, Topmost, Below
    <2>7. Stacks'
        BY <2>2, <2>6 DEF IInv, Stacks
    <2>8. InnermostTask'
        BY <2>2, <2>3, <2>4, <2>5 DEF IInv, InnermostTask, Innermost
    <2> QED
        BY <2>7, <2>8
<1>4. ASSUME UNCHANGED <<open, entering, saved, current, base, alive, reused>>
      PROVE  (Stacks /\ InnermostTask)'
    BY <1>4, StacksKept DEF IInv, Stacks
<1>5. ASSUME NEW x \in Flows, CallStep(x)
      PROVE  (Stacks /\ InnermostTask)'
    BY <1>4, <1>5 DEF CallStep, CallBegins, CallReads, CallRuns, CallStops, CallReturns, CallUnchanged
<1>6. ASSUME Tick \/ Rotate \/ (\E a \in Agents : Kill(a)) \/ UNCHANGED vars
      PROVE  (Stacks /\ InnermostTask)'
    BY <1>4, <1>6 DEF Tick, Rotate, Kill, vars
<1> QED
    BY <1>1, <1>2, <1>3, <1>5, <1>6, EnteredStack, ExitedStack DEF Next, EnterStep

\* A flow's contextvar holds its innermost open task, or what the flow started
\* with (SigilTaskContext.__enter__ and __exit__), but for contexts that were
\* entered while they were in use.
THEOREM InnermostFound == Spec => []InnermostTask
<1>1. Init => IInv
    BY InitTyped, InitTasks, InitStacks DEF IInv
<1>2. IInv /\ [Next]_vars => IInv'
    BY IInvPreserved
<1>3. IInv => InnermostTask
    BY DEF IInv
<1> QED
    BY <1>1, <1>2, <1>3, PTL DEF Spec

=============================================================================
