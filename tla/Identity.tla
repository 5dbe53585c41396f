------------------------------- MODULE Identity -------------------------------
(***************************************************************************)
(* labs/agent-identity-broker: a broker issues session tokens to users and *)
(* exchanges them for tokens of an agent (broker.py); a resource server    *)
(* checks every call by the token alone (resource_server.py); measure()    *)
(* tells what a token opens (blast_radius.py).  Signing is not modelled:   *)
(* all tokens are the broker's, all servers trust it.  Time in units of    *)
(* the agents' token lifetime.                                             *)
(***************************************************************************)
EXTENDS Naturals, Sequences, FiniteSets

CONSTANTS
  Subjects, Agents, Scopes,
  Front,                \* the audience users sign in to
  Servers,              \* identities of the fleet's servers
  Tools,                \* Tools[server]: the scopes its tools require, one each
  Lifetime, UserLifetime,
  Nobody,               \* no act claim
  MaxClock, MaxTokens   \* bounds

VARIABLES
  now,
  minted   \* the tokens: their claims, and what they were exchanged for
identityVars == <<now, minted>>

IdentityInit == now = 0 /\ minted = <<>>
Tick == now < MaxClock /\ now' = now + 1 /\ UNCHANGED minted

Mints(claims) == /\ Len(minted) < MaxTokens /\ minted' = Append(minted, claims)
                 /\ UNCHANGED now

IssueUserToken(subject, scopes, may_act) ==
  Mints([sub |-> subject, aud |-> Front, scope |-> scopes, may_act |-> may_act,
         act |-> Nobody, exp |-> now + UserLifetime, parent |-> 0])

\* jwt.decode: in time, and for whoever asks
Decodes(token, audience) == now < token.exp /\ token.aud = audience

\* A token without the claim may_act permits everybody: the set of all agents.
PermitsIfNamed(token, actor) == token.may_act = {} \/ actor \in token.may_act   \* mutant
Permits(token, actor) == actor \in token.may_act

\* exchange(): a token of the broker for a narrower one - also one that is the
\* result of an exchange itself, presented where it is valid
Exchange(i, presented_to, resource, scopes, actor) ==
  /\ i \in DOMAIN minted
  /\ Decodes(minted[i], presented_to)
  /\ scopes \subseteq minted[i].scope
  /\ Permits(minted[i], actor)
  /\ Mints([sub |-> minted[i].sub, aud |-> resource, scope |-> scopes, may_act |-> Agents,
            act |-> actor, exp |-> now + Lifetime, parent |-> i])

\* call_tool(): authenticate, then authorize; measure() tries every tool
CallTool(token, server, required) == Decodes(token, server) /\ required \in token.scope
Measure(token) ==
  {p \in Servers \X UNION {Tools[s] : s \in Servers} :
     p[2] \in Tools[p[1]] /\ CallTool(token, p[1], p[2])}

IdentityNext ==
  \/ Tick
  \/ \E u \in Subjects, scopes \in SUBSET Scopes, may \in SUBSET Agents :
       IssueUserToken(u, scopes, may)
  \/ \E i \in 1..MaxTokens, at, resource \in Servers \cup {Front}, scopes \in SUBSET Scopes,
        a \in Agents : Exchange(i, at, resource, scopes, a)
-------------------------------------------------------------------------------
\* The user's token a token came from, and who was the first to act on it.
Origin[i \in DOMAIN minted] == IF minted[i].parent = 0 THEN i ELSE Origin[minted[i].parent]
FirstAgent[i \in DOMAIN minted] ==
  IF minted[i].parent = 0 THEN Nobody
  ELSE IF minted[minted[i].parent].parent = 0 THEN minted[i].act
  ELSE FirstAgent[minted[i].parent]

\* What an agent holds, after however many exchanges and whenever it is used
\* (broker.py:68-114, resource_server.py:42-87, blast_radius.py:50): it speaks
\* for the user it began with and names who acts; the first to act was one the
\* user permitted; it opens tools of one server at most, none that the user's
\* scopes would not, and none once its own lifetime is over.
DelegationNarrows ==
  \A i \in DOMAIN minted :
    LET token == minted[i]
        user == minted[Origin[i]]
        opened == Measure(token)
    IN  token.parent # 0 =>
          /\ token.sub = user.sub /\ token.act \in Agents
          /\ FirstAgent[i] \in user.may_act
          /\ \A p \in opened : p[1] = token.aud /\ p[2] \in user.scope
          /\ opened # {} => now < token.exp /\ token.exp <= now + Lifetime
===============================================================================
