---------------------------- MODULE OidcProvider ----------------------------
(***************************************************************************)
(* vzctl-oidc-simple, the development identity provider: browser sessions, *)
(* authorization codes, access tokens and the signing key. Everything but  *)
(* the key lives in memory and is lost when the process is restarted.      *)
(***************************************************************************)
EXTENDS Naturals, FiniteSets

CONSTANTS OpUsers, OpClients,  \* the users and clients of the rendered config
          CodeTtl, SessionTtl, \* CODE_TTL_SECS, SESSION_TTL_SECS in clock steps
          MaxOpClock,          \* bound: clock steps
          MaxOpId,             \* bound: random identifiers and keys ever made
          NoOp                 \* no key, no session, no challenge

ASSUME OidcProviderAssumption == CodeTtl \in Nat /\ SessionTtl \in Nat /\ NoOp \notin Nat

VARIABLE idp  \* [up, pem, kid, users, store, next, now, grants]; grants: every access
             \* token handed out, with the ID token that went with it

TornKey == 0  \* signing.pem cut short
Nobody  == [sessions |-> {}, codes |-> {}]
OpInit ==
  idp = [up |-> FALSE, pem |-> NoOp, kid |-> NoOp, users |-> OpUsers, store |-> Nobody, next |-> 1, now |-> 0,
        grants |-> {}]

find_user(u) == u \in idp.users

-----------------------------------------------------------------------------
(* The process.                                                            *)

\* An existing key is read, a missing one made and written in place: the
\* write may be cut short, and what is left does not parse again.
load_or_create_keys ==
  IF idp.pem = NoOp THEN {idp.next} ELSE {idp.pem} \ {TornKey}

run ==
  /\ ~idp.up /\ idp.next <= MaxOpId
  /\ \E key \in load_or_create_keys, users \in {OpUsers} \cup {OpUsers \ {u} : u \in OpUsers} :
       idp' = [idp EXCEPT !.up = TRUE, !.kid = key, !.pem = key, !.store = Nobody, !.users = users, !.next = @ + 1]

\* Killed; the first start may be cut short while the key is written.
stopped ==
  \/ idp.up /\ idp' = [idp EXCEPT !.up = FALSE, !.kid = NoOp, !.store = Nobody]
  \/ ~idp.up /\ idp.pem = NoOp /\ idp' = [idp EXCEPT !.pem = TornKey]

OpTick == idp.now < MaxOpClock /\ idp' = [idp EXCEPT !.now = @ + 1]

-----------------------------------------------------------------------------
(* The requests. Each holds the store's lock from its first access to its  *)
(* last.                                                                   *)

\* A random code, remembered with the client and the challenge it is for.
issue_code(store, user, client, challenge) ==
  [store EXCEPT !.codes = @ \cup {[id |-> idp.next, user |-> user, client |-> client, challenge |-> challenge,
                                   expires_at |-> idp.now + CodeTtl]}]

Answering == idp.up /\ idp.next < MaxOpId

\* A live session of a known user gets a code at once; one that has run out
\* is forgotten and the picker is shown.
authorize(sid, client, challenge) ==
  /\ Answering
  /\ \E s \in idp.store.sessions :
       /\ s.id = sid
       /\ idp' = IF s.expires_at > idp.now /\ find_user(s.user)
                THEN [idp EXCEPT !.store = issue_code(@, s.user, client, challenge), !.next = @ + 1]
                ELSE [idp EXCEPT !.store.sessions = @ \ {s}]

login(user, client, challenge) ==
  /\ Answering /\ find_user(user)
  /\ LET session == [id |-> idp.next, user |-> user, expires_at |-> idp.now + SessionTtl]
         store == [idp.store EXCEPT !.sessions = @ \cup {session}]
     IN  idp' = [idp EXCEPT !.store = issue_code(store, user, client, challenge), !.next = @ + 1]

\* A code without a challenge needs no verifier; otherwise it must match.
verify_pkce(code, verifier) == code.challenge = NoOp \/ verifier = code.challenge

\* The code is taken out of the store before anything about it is checked.
\* Mutant: the code is only looked up.
tokenKeepsCode(id, client, verifier) ==
  /\ Answering
  /\ \E code \in idp.store.codes :
       /\ code.id = id
       /\ code.expires_at >= idp.now /\ code.client = client /\ verify_pkce(code, verifier) /\ find_user(code.user)
       /\ idp' = [idp EXCEPT !.next = @ + 1,
                  !.grants = @ \cup {[token |-> idp.next, code |-> code, client |-> client, at |-> idp.now, kid |-> idp.kid]}]

token(id, client, verifier) ==
  /\ Answering
  /\ \E code \in idp.store.codes :
       /\ code.id = id
       /\ idp' = IF code.expires_at >= idp.now /\ code.client = client /\ verify_pkce(code, verifier) /\ find_user(code.user)
                THEN [idp EXCEPT !.store.codes = @ \ {code}, !.next = @ + 1,
                       !.grants = @ \cup {[token |-> idp.next, code |-> code, client |-> client, at |-> idp.now,
                                           kid |-> idp.kid]}]
                ELSE [idp EXCEPT !.store.codes = @ \ {code}]

\* The cookie's session is removed; codes and tokens it led to stay.
end_session(sid) ==
  /\ idp.up
  /\ \E s \in idp.store.sessions : s.id = sid /\ idp' = [idp EXCEPT !.store.sessions = @ \ {s}]

OpNext ==
  \/ run \/ stopped \/ OpTick
  \/ \E c \in OpClients, ch \in {NoOp, "c"} :
       \/ \E s \in idp.store.sessions : authorize(s.id, c, ch)
       \/ \E u \in OpUsers : login(u, c, ch)
       \/ \E k \in idp.store.codes : token(k.id, c, ch)
  \/ \E s \in idp.store.sessions : end_session(s.id)

OpSpec == OpInit /\ [][OpNext]_idp

-----------------------------------------------------------------------------
(* Correctness.                                                            *)

\* However requests, restarts and the clock interleave: a code is exchanged at
\* most once, only by the client it was issued to and before it runs out, and
\* every ID token ever handed out verifies with the key on disk.
GrantsAreSound ==
  /\ \A g \in idp.grants : g.client = g.code.client /\ g.at <= g.code.expires_at /\ g.kid = idp.pem
  /\ \A g, h \in idp.grants : g.code.id = h.code.id => g = h
=============================================================================
