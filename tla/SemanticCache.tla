----------------------------- MODULE SemanticCache ----------------------------
(***************************************************************************)
(* labs/semantic-cache: an exact tier and a nearest neighbour tier over    *)
(* one list of entries (cache.py).  Embeddings are a table of similarities *)
(* between questions, in percent.                                          *)
(***************************************************************************)
EXTENDS Naturals, Sequences

CONSTANTS
  Questions, Answers, Scopes,
  Similarity,            \* Similarity[<<q, r>>] in 0..100, 100 for a question itself
  Thresholds, Ttl,
  MaxClock, MaxEntries   \* bounds

VARIABLES now, entries, exact
cacheVars == <<now, entries, exact>>

NoEntry == [stored_at |-> 0, answer |-> "none"]
CacheInit == /\ now = 0 /\ entries = <<>>
             /\ exact = [k \in Scopes \X Questions |-> NoEntry]

Tick == now < MaxClock /\ now' = now + 1 /\ UNCHANGED <<entries, exact>>

\* put() appends, whatever is there already, and overwrites the exact entry.
Put(q, a, s) ==
  LET entry == [question |-> q, answer |-> a, scope |-> s, stored_at |-> now]
  IN  /\ Len(entries) < MaxEntries
      /\ entries' = Append(entries, entry) /\ exact' = [exact EXCEPT ![<<s, q>>] = entry]
      /\ UNCHANGED now

CacheNext == Tick \/ \E q \in Questions, a \in Answers, s \in Scopes : Put(q, a, s)

\* get(): the exact entry, else the first of the nearest of the caller's scope
Expired(entry) == now - entry.stored_at >= Ttl
CandidatesOfAll(s) == {i \in DOMAIN entries : ~Expired(entries[i])}   \* mutant
Candidates(s) == {i \in DOMAIN entries : entries[i].scope = s /\ ~Expired(entries[i])}
Nearest(q, found) ==
  CHOOSE i \in found : \A j \in found :
    \/ Similarity[<<q, entries[i].question>>] > Similarity[<<q, entries[j].question>>]
    \/ Similarity[<<q, entries[i].question>>] = Similarity[<<q, entries[j].question>>] /\ i <= j
Miss == [kind |-> "miss"]
Get(q, s, threshold) ==
  LET found == Candidates(s)
      best == entries[Nearest(q, found)]
  IN  IF exact[<<s, q>>] # NoEntry /\ ~Expired(exact[<<s, q>>])
      THEN [kind |-> "exact", entry |-> exact[<<s, q>>]]
      ELSE IF found # {} /\ Similarity[<<q, best.question>>] >= threshold
      THEN [kind |-> "semantic", entry |-> best]
      ELSE Miss
-------------------------------------------------------------------------------
Fresh(s) == {i \in DOMAIN entries : entries[i].scope = s /\ entries[i].stored_at + Ttl > now}

\* Whatever was stored before, again, or too long ago (cache.py:69-93): a
\* question that is stored and fresh is answered by its newest answer; another
\* one only by a fresh entry of its scope that no other is nearer than; and a
\* lower threshold answers no less, and nothing differently.  A semantic answer
\* need not be the newest for the question it matched: put() leaves the old ones.
CacheAnswers ==
  \A q \in Questions, s \in Scopes, threshold \in Thresholds :
    LET got == Get(q, s, threshold)
        same == {i \in Fresh(s) : entries[i].question = q}
    IN  /\ same # {} => /\ got.kind = "exact"
                        /\ \E i \in same : /\ \A j \in same : j <= i
                                           /\ entries[i] = got.entry
        /\ same = {} /\ got # Miss =>
             \E i \in Fresh(s) : /\ entries[i] = got.entry
                                 /\ Similarity[<<q, entries[i].question>>] >= threshold
                                 /\ \A j \in Fresh(s) : Similarity[<<q, entries[j].question>>]
                                                     <= Similarity[<<q, entries[i].question>>]
        /\ got # Miss => \A lower \in Thresholds : lower <= threshold => Get(q, s, lower) = got
        /\ got = Miss => \A i \in Fresh(s) : Similarity[<<q, entries[i].question>>] < threshold
===============================================================================
